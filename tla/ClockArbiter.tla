---------------------------- MODULE ClockArbiter ----------------------------
(***************************************************************************)
(* What a cable promises about its clock line: at most one console drives  *)
(* it, it is taken only when it is free, and it is handed over only by     *)
(* becoming free first.                                                    *)
(***************************************************************************)
CONSTANTS Drivers, Free

VARIABLE driver

Init == driver = Free

Claim(c) == driver = Free /\ driver' = c

Yield(c) == driver = c /\ driver' = Free

Next == \E c \in Drivers : Claim(c) \/ Yield(c)

Spec == Init /\ [][Next]_driver
=============================================================================
