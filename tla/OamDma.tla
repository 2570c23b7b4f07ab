-------------------------------- MODULE OamDma --------------------------------
(***************************************************************************)
(* OAM DMA of the memory bus (src/src/memory_bus.cpp): a page of memory is *)
(* copied to OAM a byte at a time while the processor goes on, kept away   *)
(* from the buses the transfer uses. Memory is abstracted to what tells    *)
(* whether OAM receives the page as it was when the transfer began.        *)
(***************************************************************************)
EXTENDS Naturals

CONSTANTS Bytes,          \* oam_dma_size
          ByteCycles,     \* oam_dma_byte_cycles
          StartCycles,    \* oam_dma_start_cycles
          DmaSpans        \* the cycle counts the bus is ticked by

ASSUME OamDmaAssumption ==
    /\ Bytes \in Nat \ {0}
    /\ ByteCycles \in Nat \ {0}
    /\ StartCycles \in Nat \ {0}
    /\ DmaSpans \subseteq Nat

VARIABLES
    board,      \* cgb_hardware_ and cgb_mode_: "dmg", "compatible" or "cgb"
    dma,        \* the members oam_dma_*
    left,       \* cycles of the tick under way
    touched,    \* history: bytes of the source written since the start
    intact,     \* history: bytes of OAM that are as the source was then
    excused,    \* history: something else than the processor changed it
    age         \* history: cycles since FF46 was written, up to the transfer's end

dmaVars == <<board, dma, left, touched, intact, excused, age>>

\* Echo RAM reads as WRAM; neither OAM nor the page above it is a source.
Origins == {"cartridge", "video", "wram"}
Areas   == Origins \union {"oam", "high"}
Index   == 0 .. (Bytes - 1)
Duration  == StartCycles + Bytes * ByteCycles

DmaInit ==
    /\ board \in {"dmg", "compatible", "cgb"}
    /\ dma = [active |-> FALSE, source |-> "cartridge", index |-> 0, cycle |-> 0,
              pending |-> "cartridge", delay |-> 0]
    /\ touched = {} /\ intact = {} /\ excused = FALSE
    /\ age = Duration
    /\ left = 0

-----------------------------------------------------------------------------
(* tick_oam_dma(): a loop over the cycles of one call of tick().           *)
TickDma(n) ==
    /\ left = 0 /\ left' = n
    /\ UNCHANGED <<board, dma, touched, intact, excused, age>>

StartTransfer ==
    /\ dma' = [dma EXCEPT !.source = dma.pending, !.index = 0, !.cycle = 0,
                          !.active = TRUE, !.delay = 0]
    /\ touched' = {} /\ intact' = {} /\ excused' = FALSE

Countdown == IF dma.delay = 0 THEN 0 ELSE dma.delay - 1

\* copy_byte(): what was written since the start arrives changed.
CopyByte ==
    /\ dma.active /\ dma.cycle + 1 = ByteCycles
    /\ dma' = [dma EXCEPT !.index = @ + 1, !.cycle = 0, !.delay = Countdown,
                          !.active = dma.index + 1 # Bytes]
    /\ intact' = IF dma.index \in touched THEN intact ELSE intact \union {dma.index}
    /\ UNCHANGED <<touched, excused>>

Wait ==
    /\ ~(dma.active /\ dma.cycle + 1 = ByteCycles)
    /\ dma' = [dma EXCEPT !.cycle = IF dma.active THEN @ + 1 ELSE @,
                          !.delay = Countdown]
    /\ UNCHANGED <<touched, intact, excused>>

\* A transfer that is started again goes on until the new one begins.
Cycle == IF dma.delay = 1 THEN StartTransfer ELSE CopyByte \/ Wait

DmaCycle ==
    /\ left # 0 /\ left' = left - 1
    /\ Cycle
    /\ age' = IF age = Duration THEN Duration ELSE age + 1
    /\ UNCHANGED board

-----------------------------------------------------------------------------
\* oam_dma_blocks(): CGB boards keep the cartridge and WRAM apart.
MainBus == {"cartridge", "wram"}

BlocksOneArea(area) ==
    /\ dma.active
    /\ \/ area = "oam"
       \/ area = "video" /\ dma.source = "video"
       \/ area = "wram" /\ dma.source = "wram"

Blocks(area) ==
    /\ dma.active
    /\ \/ area = "oam"
       \/ area = "video" /\ dma.source = "video"
       \/ /\ area \in MainBus /\ dma.source \in MainBus
          /\ board = "dmg" \/ area = dma.source

\* cpu_write8() into an area a transfer may read or write.
Store(area, i) ==
    /\ left = 0 /\ ~Blocks(area)
    /\ touched' = IF dma.active /\ area = dma.source THEN touched \union {i}
                  ELSE touched
    /\ intact' = IF area = "oam" THEN intact \ {i} ELSE intact
    /\ UNCHANGED <<board, dma, left, excused, age>>

\* FF46, which no transfer blocks; pages from E0 up mirror WRAM.
Request(area) ==
    /\ left = 0
    /\ dma' = [dma EXCEPT !.pending = area, !.delay = StartCycles]
    /\ age' = 0
    /\ UNCHANGED <<board, left, touched, intact, excused>>

(* What the bus lets through: another bank of VRAM or WRAM, which only a   *)
(* CGB has, HBlank DMA into VRAM, and VRAM reading as FF in mode 3.        *)
Disturb ==
    /\ dma.active
    /\ dma.source = "video" \/ (dma.source = "wram" /\ board = "cgb")
    /\ excused' = TRUE
    /\ UNCHANGED <<board, dma, left, touched, intact, age>>

DmaNext ==
    \/ \E n \in DmaSpans : TickDma(n)
    \/ DmaCycle
    \/ \E area \in Areas, i \in Index : Store(area, i)
    \/ \E area \in Origins : Request(area)
    \/ Disturb

DmaSpec == DmaInit /\ [][DmaNext]_dmaVars

-----------------------------------------------------------------------------
DmaTypeOK ==
    /\ board \in {"dmg", "compatible", "cgb"}
    /\ dma \in [active : BOOLEAN, source : Origins, index : 0 .. Bytes,
                cycle : 0 .. (ByteCycles - 1), pending : Origins,
                delay : 0 .. StartCycles]
    /\ touched \subseteq Index /\ intact \subseteq Index
    /\ excused \in BOOLEAN
    /\ age \in 0 .. Duration
    /\ left \in Nat

(* What the processor may still do during a transfer cannot change what    *)
(* OAM receives: after it, OAM is the source page as it was at the start,  *)
(* also when the transfer is requested again in flight.                    *)
Snapshot == [][dma.active /\ ~dma'.active => excused' \/ intact' = Index]_dmaVars

(* A transfer takes StartCycles and ByteCycles for each byte, at either    *)
(* speed and however the cycles are split among calls of tick(); FF46      *)
(* starts both anew.                                                       *)
TakesItsTime ==
    /\ dma.delay # 0 => dma.delay + age = StartCycles
    /\ dma.delay = 0 =>
          age = IF dma.active THEN StartCycles + dma.index * ByteCycles + dma.cycle
                ELSE Duration
=============================================================================
