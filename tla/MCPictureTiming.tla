--------------------------- MODULE MCPictureTiming ---------------------------
(* Three visible lines of nineteen dots and two lines of vertical blank.   *)
EXTENDS PictureTiming

\* Pixels that come one by one, and an object that delays the last ones.
MCEarly == [end \in Ends |-> IF end = 8 THEN {5} ELSE {6, 7}]
=============================================================================
