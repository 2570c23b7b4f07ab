------------------------------- MODULE BusClock -------------------------------
(***************************************************************************)
(* How the memory bus (src/src/memory_bus.cpp) turns the processor's       *)
(* cycles into sound clocks and dots at both speeds, and HBlank DMA, which *)
(* lives on the dots. Of the picture unit there is what the bus asks it:   *)
(* whether HBlank begins at a dot, and whether it is HBlank.               *)
(***************************************************************************)
EXTENDS Naturals

CONSTANTS BusSpans,     \* the cycle counts tick() is called with
          LineLength,     \* dots of a line
          HblankDot,    \* where HBlank begins
          MaxBlocks     \* bound: blocks a transfer is started with

ASSUME BusClockAssumption ==
    /\ BusSpans \subseteq Nat
    /\ LineLength \in Nat /\ HblankDot \in 1 .. (LineLength - 1)
    /\ MaxBlocks \in Nat \ {0}

VARIABLES
    double,     \* double_speed_
    odd,        \* the lowest bit of normalized_clocks_
    half,       \* apu_cycle_phase_
    cycles,     \* cycles of the tick under way the sound unit has not seen
    dots,       \* dots of the tick under way the picture unit has not seen
    batch,      \* the picture unit takes them in one call
    lcd,        \* "off", or the line: "starting" (first), "visible", "blank"
    dot,        \* dot_
    hdma,       \* hdma_active_ and hdma_blocks_remaining_
    lag,        \* history: normalized_clocks_ less two for every dot
    apu_lag,    \* history: the same for the clocks of the sound unit
    copied,     \* history: blocks copied since FF55 was written, of `length`
    length,
    hblanks     \* history: HBlanks that began since, and the one it began in

busVars == <<double, odd, half, cycles, dots, batch, lcd, dot, hdma, lag, apu_lag,
             copied, length, hblanks>>

transfer == <<hdma, copied, length, hblanks>>
picture  == <<lcd, dot>>

BusInit ==
    /\ double = FALSE /\ odd = 0 /\ half = FALSE
    /\ cycles = 0 /\ dots = 0 /\ batch = FALSE
    /\ lcd = "off" /\ dot = 0
    /\ hdma = [active |-> FALSE, remaining |-> 0]
    /\ lag = 0 /\ apu_lag = 0
    /\ copied = 0 /\ length = 0 /\ hblanks = 0

AtRest == cycles = 0 /\ dots = 0

-----------------------------------------------------------------------------
DotsRoundedDown(n) == IF double THEN n \div 2 ELSE n

\* peripheral_cycles: the half dot of a split bus cycle is kept.
DotsOf(n) == IF double THEN (n + odd) \div 2 ELSE n

Weight == IF double THEN 1 ELSE 2   \* normalized clocks of a cycle

BatchedAlways == TRUE

Batchable == ~hdma.active

TickBus(n) ==
    /\ AtRest
    /\ cycles' = n /\ dots' = DotsOf(n) /\ batch' = Batchable
    /\ odd' = (odd + n * Weight) % 2
    /\ lag' = lag + n * Weight - 2 * DotsOf(n)
    /\ UNCHANGED <<double, half, picture, apu_lag, transfer>>

\* Sound: every cycle, or every second one at double speed.
SoundCycle ==
    /\ cycles # 0 /\ cycles' = cycles - 1
    /\ half' = IF double THEN ~half ELSE half
    /\ apu_lag' = apu_lag + Weight - (IF ~double \/ half THEN 2 ELSE 0)
    /\ UNCHANGED <<double, odd, dots, batch, picture, lag, transfer>>

-----------------------------------------------------------------------------
BeginsHblank == lcd \in {"starting", "visible"} /\ dot + 1 = HblankDot

\* hblank_dma_available(): a line begins in mode 0, but not the first one.
InHblank == lcd = "off" \/ (lcd = "visible" /\ (dot >= HblankDot \/ dot = 0))

MoveOn ==
    IF lcd = "off" THEN UNCHANGED picture
    ELSE /\ dot' = (dot + 1) % LineLength
         /\ lcd' \in IF dot + 1 = LineLength THEN {"visible", "blank"} ELSE {lcd}

\* transfer_hdma_block(), n times over.
Copy(n) ==
    /\ copied' = copied + n
    /\ hdma' = [active |-> hdma.active /\ hdma.remaining # n,
                remaining |-> hdma.remaining - n]

(* A dot. Its HBlank copies a block of an active transfer, unless it is    *)
(* one of a batch, whose notifications come as one and are not looked at.  *)
Dot ==
    /\ cycles = 0 /\ dots # 0 /\ dots' = dots - 1
    /\ MoveOn
    /\ hblanks' = IF BeginsHblank /\ hdma.active THEN hblanks + 1 ELSE hblanks
    /\ IF BeginsHblank /\ hdma.active /\ ~batch
         THEN Copy(1)
         ELSE UNCHANGED <<hdma, copied>>
    /\ UNCHANGED <<double, odd, half, cycles, batch, lag, apu_lag, length>>

-----------------------------------------------------------------------------
rest == <<double, odd, half, cycles, dots, batch, lag, apu_lag>>

\* FF55 with bit 7 clear, while a transfer is active: it is cancelled.
Cancel ==
    /\ AtRest /\ hdma.active
    /\ hdma' = [active |-> FALSE, remaining |-> 1]
    /\ length' = copied
    /\ UNCHANGED <<rest, picture, copied, hblanks>>

\* FF55 with bit 7 clear otherwise: all blocks at once.
CopyAll(n) ==
    /\ AtRest /\ ~hdma.active
    /\ hdma' = [active |-> FALSE, remaining |-> 0]
    /\ copied' = n /\ length' = n /\ hblanks' = n
    /\ UNCHANGED <<rest, picture>>

\* FF55 with bit 7 set; in HBlank the first block is copied at once.
CopyInHblanks(n) ==
    LET first == IF InHblank THEN 1 ELSE 0
    IN  /\ AtRest
        /\ hdma' = [active |-> n # first, remaining |-> n - first]
        /\ copied' = first /\ length' = n
        /\ hblanks' = first
        /\ UNCHANGED <<rest, picture>>

\* FF40
SwitchLcd ==
    /\ AtRest
    /\ lcd' = IF lcd = "off" THEN "starting" ELSE "off"
    /\ dot' = 0
    /\ UNCHANGED <<rest, transfer>>

\* try_speed_switch(), which the guest has asked for.
SwitchSpeedOfBus ==
    /\ AtRest
    /\ double' = ~double
    /\ UNCHANGED <<odd, half, cycles, dots, batch, picture, lag, apu_lag, transfer>>

BusNext ==
    \/ \E n \in BusSpans : TickBus(n)
    \/ SoundCycle \/ Dot
    \/ Cancel \/ SwitchLcd \/ SwitchSpeedOfBus
    \/ \E n \in 1 .. MaxBlocks : CopyAll(n) \/ CopyInHblanks(n)

BusSpec == BusInit /\ [][BusNext]_busVars

-----------------------------------------------------------------------------
BusTypeOK ==
    /\ double \in BOOLEAN /\ odd \in 0 .. 1 /\ half \in BOOLEAN
    /\ cycles \in Nat /\ dots \in Nat /\ batch \in BOOLEAN
    /\ lcd \in {"off", "starting", "visible", "blank"}
    /\ dot \in 0 .. (LineLength - 1)
    /\ hdma \in [active : BOOLEAN, remaining : 0 .. MaxBlocks]

(* However cycles are split among ticks and whenever the speed is switched *)
(* in between, the picture unit and the sound unit get the same clocks:    *)
(* one for two normalized clocks, less at most the half that is pending,   *)
(* although each of them keeps the half in a phase of its own.             *)
InStep == AtRest => lag \in {0, 1} /\ apu_lag = lag

(* An HBlank transfer copies exactly one block for each HBlank that begins *)
(* while it is active, however many of them a tick crosses, and one at     *)
(* once if it is started in HBlank, until all are copied; what FF55 reads  *)
(* is what is left.                                                        *)
OneBlockPerHblank ==
    /\ copied = hblanks
    /\ copied + (IF hdma.active THEN hdma.remaining ELSE 0) = length
    /\ hdma.active => hdma.remaining # 0
=============================================================================
