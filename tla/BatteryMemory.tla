---------------------------- MODULE BatteryMemory ----------------------------
(***************************************************************************)
(* What a cartridge's battery promises: the memory and the clock of a      *)
(* console that is switched off are those it had when they were last kept, *)
(* and the clock goes on.  Keeping is an act of its own that may destroy   *)
(* what was kept before.  A restored snapshot brings back memory and clock *)
(* as they were, the time in between not counted.                          *)
(***************************************************************************)
EXTENDS Naturals

CONSTANTS Contents,   \* what the memory may hold
          Blank,      \* the contents of fresh memory
          Period,     \* the clock's seconds until its day counter wraps
          Lost,       \* what was kept is destroyed
          Nothing     \* nothing was kept yet; no snapshot; switched off

Clocks     == [time : 0..(Period - 1), halted : BOOLEAN, carry : BOOLEAN]
FreshClock == [time |-> 0, halted |-> FALSE, carry |-> FALSE]
Memories   == [ram : Contents, clock : Clocks]

\* What is asked of these constants.
Sizes ==
    /\ Blank \in Contents
    /\ Period \in Nat \ {0}
    /\ Lost # Nothing
    /\ \A v \in {Lost, Nothing} : v \notin Contents /\ v \notin Clocks /\ v \notin Memories

VARIABLES console,     \* the running console's memory, or Nothing
          kept_ram,    \* the memory the battery keeps
          kept_clock,  \* the clock the battery keeps running
          snapshot     \* a save state

vars == <<console, kept_ram, kept_clock, snapshot>>

On == console # Nothing

\* A clock some seconds on: the carry stays until it is cleared.
Later(c, seconds) ==
    IF c.halted THEN c
    ELSE [c EXCEPT !.time = (@ + seconds) % Period,
                   !.carry = @ \/ c.time + seconds >= Period]

-----------------------------------------------------------------------------
Second ==
    /\ console' = IF On THEN [console EXCEPT !.clock = Later(@, 1)]
                  ELSE console
    /\ kept_clock' = IF kept_clock \in {Lost, Nothing} THEN kept_clock
                     ELSE Later(kept_clock, 1)
    /\ UNCHANGED <<kept_ram, snapshot>>

WriteRam == \E v \in Contents : console' = [console EXCEPT !.ram = v]

SetTime ==
    \E t \in 0..(Period - 1) : console' = [console EXCEPT !.clock.time = t]

SetControl == \E h, c \in BOOLEAN :
    console' = [console EXCEPT !.clock.halted = h, !.clock.carry = c]

Game == On /\ (WriteRam \/ SetTime \/ SetControl)
           /\ UNCHANGED <<kept_ram, kept_clock, snapshot>>

KeepRam ==
    /\ On /\ kept_ram' \in {Lost, console.ram}
    /\ UNCHANGED <<console, kept_clock, snapshot>>

KeepClock ==
    /\ On /\ kept_clock' \in {Lost, console.clock}
    /\ UNCHANGED <<console, kept_ram, snapshot>>

\* Switched on: lost memory holds anything, a lost clock stands anywhere.
Start ==
    /\ console' \in Memories
    /\ kept_ram \in Contents => console'.ram = kept_ram
    /\ kept_ram = Nothing => console'.ram = Blank
    /\ kept_clock \in Clocks => console'.clock = kept_clock
    /\ kept_clock = Nothing => console'.clock = FreshClock
    /\ UNCHANGED <<kept_ram, kept_clock, snapshot>>

Stop == On /\ console' = Nothing /\ UNCHANGED <<kept_ram, kept_clock, snapshot>>

SaveState ==
    /\ On /\ snapshot' = console
    /\ UNCHANGED <<console, kept_ram, kept_clock>>

LoadState ==
    /\ On /\ snapshot # Nothing
    /\ console' = snapshot
    /\ UNCHANGED <<kept_ram, kept_clock, snapshot>>

Init ==
    /\ console = Nothing /\ snapshot = Nothing
    /\ kept_ram = Nothing /\ kept_clock = Nothing

Next == Second \/ Game \/ KeepRam \/ KeepClock \/ Start \/ Stop
            \/ SaveState \/ LoadState

Spec == Init /\ [][Next]_vars
=============================================================================
