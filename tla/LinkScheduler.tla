---------------------------- MODULE LinkScheduler ----------------------------
(***************************************************************************)
(* advance_balanced (src/src/link_scheduler.cpp): two consoles are brought *)
(* to a cycle target one indivisible step at a time, always stepping one   *)
(* that is not ahead. Steps are chosen by the consoles, not the scheduler. *)
(***************************************************************************)
EXTENDS Integers

CONSTANTS First, Second,  \* the two consoles
          Ticks,          \* what one step may cost
          LongestStep,    \* a bound on one step
          Slice           \* target_cycles

ASSUME SchedulerAssumption ==
    /\ First # Second
    /\ LongestStep \in Nat \ {0}
    /\ Ticks \subseteq 1..LongestStep
    /\ Slice \in Nat \ {0}

VARIABLES slicing,  \* inside the call
          ran       \* first_cycles and second_cycles

vars == <<slicing, ran>>

Consoles == {First, Second}
Peer(c)  == IF c = First THEN Second ELSE First
NoCycles == [c \in Consoles |-> 0]

Init == slicing = FALSE /\ ran = NoCycles

Begin ==
    /\ ~slicing
    /\ slicing' = TRUE
    /\ ran' = NoCycles

TurnOfTheFaster(c) ==
    /\ slicing
    /\ ran[c] < Slice
    /\ IF c = First THEN ran[First] >= ran[Second]
       ELSE ~(ran[First] >= ran[Second] /\ ran[First] < Slice)

(* The first console is stepped when it is not ahead of the second, the    *)
(* second in every other case in which it has not reached the target.      *)
Turn(c) ==
    /\ slicing
    /\ ran[c] < Slice
    /\ IF c = First THEN ran[First] <= ran[Second]
       ELSE ~(ran[First] <= ran[Second] /\ ran[First] < Slice)

Step(c, clocks) ==
    /\ Turn(c)
    /\ ran' = [ran EXCEPT ![c] = @ + clocks]
    /\ UNCHANGED slicing

End ==
    /\ slicing
    /\ \A c \in Consoles : ran[c] >= Slice
    /\ slicing' = FALSE
    /\ ran' = NoCycles

Next == Begin \/ End \/ \E c \in Consoles, clocks \in Ticks : Step(c, clocks)

Spec == Init /\ [][Next]_vars

-----------------------------------------------------------------------------
(* Types; a console overshoots the target by less than one step.           *)
TypeOK ==
    /\ slicing \in BOOLEAN
    /\ ran \in [Consoles -> 0..(Slice + LongestStep - 1)]

(* Inside a slice neither console is ever ahead of the other by more than  *)
(* one step.                                                               *)
Balanced == \A c \in Consoles : ran[c] <= ran[Peer(c)] + LongestStep

(* As long as a console is below the target, it is somebody's turn: the    *)
(* loop's last, defensive branch is never the only one left.               *)
SomebodyRuns ==
    slicing /\ (\E c \in Consoles : ran[c] < Slice) =>
        \E c \in Consoles : Turn(c)

=============================================================================
