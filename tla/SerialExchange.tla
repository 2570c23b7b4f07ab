--------------------------- MODULE SerialExchange ---------------------------
(***************************************************************************)
(* The local cable seen byte by byte. A history variable remembers what    *)
(* each console had in SB when its byte began, so that the bits the cable  *)
(* exchanges can be related to the bytes the two guests meant.             *)
(***************************************************************************)
EXTENDS SerialCable

VARIABLE loaded     \* SB when the port last stood at a byte boundary

exchangeVars == <<port, plugged, owner, loaded>>

ExchangeInit == Init /\ loaded = [c \in Consoles |-> port[c].data]

Remember ==
    loaded' = [c \in Consoles |->
                 IF port'[c].bits = 0 THEN port'[c].data ELSE loaded[c]]

ExchangeNext == Next /\ Remember

ExchangeSpec == ExchangeInit /\ [][ExchangeNext]_exchangeVars

\* Both consoles are stepped in turn for as long as a session runs.
FairExchangeSpec ==
    ExchangeSpec /\ \A c \in Consoles : WF_exchangeVars(Elapse(c) /\ Remember)

-----------------------------------------------------------------------------
FinishTogether ==
    \A c \in Consoles : /\ port[c].active /\ ~port'[c].active
                        /\ port'[c].bits = ByteBits

(* A byte that completes on both consoles in one step has swapped exactly  *)
(* the two bytes the guests had loaded, whatever was rewritten, refused,   *)
(* aborted or re-armed on the way there.                                   *)
WholeBytesAreSwapped ==
    [][ plugged /\ FinishTogether =>
          \A c \in Consoles : port'[c].data = loaded[Peer(c)] ]_exchangeVars

(* The cable is an arbiter of the clock line. A re-armed or refused port   *)
(* never takes the line away from the other console.                       *)
Arbiter == INSTANCE ClockArbiter
             WITH Drivers <- Consoles, Free <- Nobody,
                  driver <- IF plugged /\ Drives(port[First]) THEN First
                            ELSE IF plugged /\ Drives(port[Second]) THEN Second
                            ELSE Nobody

ImplementsArbiter == Arbiter!Spec
=============================================================================
