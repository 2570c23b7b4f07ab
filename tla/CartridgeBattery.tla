--------------------------- MODULE CartridgeBattery ---------------------------
(***************************************************************************)
(* Battery RAM and the MBC3 clock (src/src/cartridge_persistence.cpp),     *)
(* their two files, the save states that hold them, and the front end's    *)
(* ways of replacing and closing a core (src/apps/sdl/emulation_session.cpp*)
(* load_rom).  Files are rewritten in place; a failure or a crash leaves   *)
(* what it finds.  The host's clock does not run backwards.                *)
(***************************************************************************)
EXTENDS Naturals

CONSTANTS Contents,   \* what the RAM may hold
          Blank,      \* the contents of a cartridge without a file
          Period,     \* rtc_period_seconds
          Horizon,    \* a bound on the host's time
          Torn,       \* a file truncated and not written to its end
          None        \* no file; no core; no save state

ASSUME HorizonAssumption == Horizon \in Nat

VARIABLES now,          \* rtc_now()
          core,         \* the running cartridge
          replacement,  \* load_rom's second core while there are two
          sav, clk,     \* the .sav and the .rtc file
          state,        \* a save state
          pc,           \* where flush_battery is
          after         \* what the front end does once it has flushed

batteryVars == <<now, core, replacement, sav, clk, state, pc, after>>

Clocks == [time : 0..(Period - 1), halted : BOOLEAN, carry : BOOLEAN]
FreshClock == [time |-> 0, halted |-> FALSE, carry |-> FALSE]

Cartridges == [ram : Contents, ram_dirty : BOOLEAN,
               rtc : Clocks, last : 0..Horizon,
               rtc_dirty : BOOLEAN]
ClockFiles == [rtc : Clocks, last : 0..Horizon]
SavedStates == [ram : Contents, rtc : Clocks]

\* Registers some seconds on, and those last updated at `then` by now.
Elapsed(rtc, seconds) ==
    LET total == rtc.time + seconds
    IN  IF rtc.halted THEN rtc
        ELSE [time |-> total % Period, halted |-> FALSE,
              carry |-> rtc.carry \/ total >= Period]

RtcAt(rtc, then) == Elapsed(rtc, now - then)

(* update_rtc: a halted clock's time goes by without a trace.              *)
UpdateRtc(c) ==
    [c EXCEPT !.rtc = RtcAt(@, c.last), !.last = now,
              !.rtc_dirty = @ \/ (now # c.last /\ ~c.rtc.halted)]

-----------------------------------------------------------------------------
Running == core # None /\ pc = "run"
Disk    == <<sav, clk>>
Session == <<replacement, pc, after>>

Second ==
    /\ now < Horizon
    /\ now' = now + 1
    /\ UNCHANGED <<core, sav, clk, state, Session>>

\* The game's accesses, in the cartridge's RAM window and its latch register.
Access(c) == Running /\ core' = c /\ UNCHANGED <<now, Disk, state, Session>>

WriteRam(v) ==
    Access([core EXCEPT !.ram = v, !.ram_dirty = @ \/ core.ram # v])

WriteRtc(rtc) ==
    Access([UpdateRtc(core) EXCEPT !.rtc = rtc, !.rtc_dirty = TRUE])

\* One register at a time: the running time, or the halt and carry bits. A
\* game writes the carry to clear it.
WriteRtcTime(t) == WriteRtc([UpdateRtc(core).rtc EXCEPT !.time = t])

WriteRtcControl(halted, carry) ==
    WriteRtc([UpdateRtc(core).rtc EXCEPT !.halted = halted, !.carry = carry])

\* The copy the game reads the clock from is left out.
LatchRtc == Access(UpdateRtc(core))

(* SaveStateCodec::encode and decode: the clock is frozen in a state.      *)
SaveState ==
    /\ Running
    /\ core' = UpdateRtc(core)
    /\ state' = [ram |-> core.ram, rtc |-> core'.rtc]
    /\ UNCHANGED <<now, Disk, Session>>

RestoredAsClean(s) ==
    [core EXCEPT !.ram = s.ram, !.rtc = s.rtc, !.last = now, !.rtc_dirty = TRUE]

RestoredUnanchored(s) ==
    [ram |-> s.ram, ram_dirty |-> TRUE,
     rtc |-> s.rtc, last |-> core.last, rtc_dirty |-> TRUE]

Restored(s) ==
    [ram |-> s.ram, ram_dirty |-> TRUE,
     rtc |-> s.rtc, last |-> now, rtc_dirty |-> TRUE]

LoadState == state # None /\ Access(Restored(state))

-----------------------------------------------------------------------------
(* set_persistence_path on a new cartridge.  A torn .sav is read as far as *)
(* it goes, a torn .rtc is refused.                                        *)
Loads ==
    LET rtc == IF clk = None THEN FreshClock ELSE RtcAt(clk.rtc, clk.last)
        ram == IF sav = Torn THEN Contents
               ELSE IF sav = None THEN {Blank} ELSE {sav}
    IN  IF clk = Torn THEN {}
        ELSE {[ram |-> v, ram_dirty |-> FALSE, rtc |-> rtc, last |-> now,
               rtc_dirty |-> FALSE] : v \in ram}

Open ==
    /\ core = None
    /\ core' \in Loads
    /\ UNCHANGED <<now, Disk, state, Session>>

\* A reset, or the same ROM opened again: the files are read first.
Reset ==
    /\ Running
    /\ replacement' \in Loads
    /\ pc' = "flush" /\ after' = "swap"
    /\ UNCHANGED <<now, core, Disk, state>>

\* Leaving the game, quitting.
Close ==
    /\ Running
    /\ pc' = "flush" /\ after' = "close"
    /\ UNCHANGED <<now, core, replacement, Disk, state>>

\* Going to the background.
Flush ==
    /\ Running
    /\ pc' = "flush" /\ after' = "play"
    /\ UNCHANGED <<now, core, replacement, Disk, state>>

-----------------------------------------------------------------------------
(* flush_battery: the RAM, then flush_rtc.  Each file is truncated as it   *)
(* is opened; an error ends the flush and the front end goes on.           *)
FlushStep(from, to) ==
    /\ pc = from /\ pc' = to
    /\ UNCHANGED <<now, replacement, state, after>>

OpenRam ==
    /\ pc = "flush"
    /\ FlushStep("flush", IF core.ram_dirty THEN "ram" ELSE "rtc_update")
    /\ sav' = IF core.ram_dirty THEN Torn ELSE sav
    /\ UNCHANGED <<core, clk>>

StoreRam ==
    /\ FlushStep("ram", "rtc_update")
    /\ sav' = core.ram
    /\ core' = [core EXCEPT !.ram_dirty = FALSE]
    /\ UNCHANGED clk

OpenRtc ==
    /\ pc = "rtc_update"
    /\ core' = UpdateRtc(core)
    /\ FlushStep("rtc_update", IF core'.rtc_dirty THEN "rtc" ELSE "flushed")
    /\ clk' = IF core'.rtc_dirty THEN Torn ELSE clk
    /\ UNCHANGED sav

StoreRtc ==
    /\ FlushStep("rtc", "flushed")
    /\ clk' = [rtc |-> core.rtc, last |-> core.last]
    /\ core' = [core EXCEPT !.rtc_dirty = FALSE]
    /\ UNCHANGED sav

\* A file that cannot be opened is left alone, one that fails later is torn.
FlushFails ==
    /\ \/ FlushStep("flush", "flushed") /\ core.ram_dirty /\ UNCHANGED core
       \/ FlushStep("ram", "flushed") /\ UNCHANGED core
       \/ /\ FlushStep("rtc_update", "flushed")
          /\ core' = UpdateRtc(core) /\ core'.rtc_dirty
       \/ FlushStep("rtc", "flushed") /\ UNCHANGED core
    /\ UNCHANGED Disk

\* The destructor of the old core flushes once more, and adds nothing.
Flushed ==
    /\ pc = "flushed" /\ pc' = "run"
    /\ core' = IF after = "swap" THEN replacement
               ELSE IF after = "close" THEN None ELSE core
    /\ replacement' = None /\ after' = "play"
    /\ UNCHANGED <<now, Disk, state>>

Crash ==
    /\ core # None
    /\ core' = None /\ replacement' = None
    /\ pc' = "run" /\ after' = "play"
    /\ UNCHANGED <<now, Disk, state>>

-----------------------------------------------------------------------------
BatteryInit ==
    /\ now = 0
    /\ core = None /\ replacement = None /\ state = None
    /\ sav = None /\ clk = None
    /\ pc = "run" /\ after = "play"

FlushBattery == OpenRam \/ StoreRam \/ OpenRtc \/ StoreRtc \/ FlushFails

BatteryNext ==
    \/ Second \/ LatchRtc \/ SaveState \/ LoadState
    \/ Open \/ Reset \/ Close \/ Flush \/ FlushBattery \/ Flushed \/ Crash
    \/ \E v \in Contents : WriteRam(v)
    \/ \E t \in 0..(Period - 1) : WriteRtcTime(t)
    \/ \E halted \in BOOLEAN : WriteRtcControl(halted, FALSE)

BatterySpec == BatteryInit /\ [][BatteryNext]_batteryVars

(* The files hold what the core holds.                                     *)
RamKept == sav = core.ram \/ (sav = None /\ core.ram = Blank)
RtcKept == /\ clk \notin {None, Torn}
           /\ RtcAt(clk.rtc, clk.last) = RtcAt(core.rtc, core.last)

\* A session reset only with everything on disk, and the rest as it comes.
KeptBeforeReset == Reset => RamKept /\ RtcKept
SavedSpec == BatteryInit /\ [][BatteryNext /\ KeptBeforeReset]_batteryVars

-----------------------------------------------------------------------------
(* Types, and two cores only while load_rom has two.                       *)
BatteryTypeOK ==
    /\ now \in 0..Horizon
    /\ core \in Cartridges \cup {None}
    /\ replacement \in Cartridges \cup {None}
    /\ sav \in Contents \cup {Torn, None}
    /\ clk \in ClockFiles \cup {Torn, None}
    /\ state \in SavedStates \cup {None}
    /\ pc \in {"run", "flush", "ram", "rtc_update", "rtc", "flushed"}
    /\ after \in {"play", "close", "swap"}
    /\ (replacement # None) = (after = "swap")

(* Whatever the files do not hold is marked dirty, so that the next flush  *)
(* will write it: after writes, restored states, failed flushes, and hours *)
(* of a clock nobody read.                                                 *)
NothingForgotten ==
    Running => /\ sav # Torn => RamKept \/ core.ram_dirty
               /\ clk \notin {None, Torn} => RtcKept \/ core.rtc_dirty

(* A reset that saved the running core goes on with what it saved: as      *)
(* load_rom's comment has it, it must load the RAM just produced, not the  *)
(* previous on-disk save.                                                  *)
ResetKeepsRam ==
    [][after = "swap" /\ Flushed /\ sav = core.ram => core'.ram = sav]_batteryVars

(* Memory and clock survive switching off and on as the battery promises.  *)
Battery == INSTANCE BatteryMemory WITH
    Lost <- Torn, Nothing <- None,
    console <- IF core = None THEN None
               ELSE [ram |-> core.ram, clock |-> RtcAt(core.rtc, core.last)],
    kept_ram <- sav,
    kept_clock <- IF clk \in {None, Torn} THEN clk
                  ELSE RtcAt(clk.rtc, clk.last),
    snapshot <- IF state = None THEN None
                ELSE [ram |-> state.ram, clock |-> state.rtc]

KeepsTheBattery == Battery!Spec

ASSUME BatteryAssumption ==
    /\ Battery!Sizes
    /\ Torn \notin ClockFiles
    /\ \A file \in {Cartridges, ClockFiles, SavedStates} : None \notin file
=============================================================================
