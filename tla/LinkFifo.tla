-------------------------------- MODULE LinkFifo --------------------------------
(***************************************************************************)
(* What a packet channel promises the endpoints at its two ends: while the *)
(* connection lives, every packet that was accepted comes out at the other *)
(* end once and in order, unless it was damaged on its way; a connection   *)
(* that ends may lose what was sent last, and the next one starts empty.   *)
(***************************************************************************)
EXTENDS Naturals, SequencesExt

CONSTANTS Ends, Packets

VARIABLES pending,   \* for each end, the packets it is still to receive
          accepted,  \* how many packets each end has sent
          damage,    \* how often the line was disturbed
          live       \* there is a connection

FifoInit ==
    /\ pending = [e \in Ends |-> <<>>]
    /\ accepted = [e \in Ends |-> 0]
    /\ damage = 0 /\ live = FALSE

Open ==
    /\ ~live /\ live'
    /\ UNCHANGED <<accepted, damage>>
    /\ pending' = [e \in Ends |-> <<>>]

\* Packets sent to an end that is no longer there are lost.
Accept(e) ==
    /\ accepted' = [accepted EXCEPT ![e] = @ + 1]
    /\ \E p \in Packets, f \in Ends \ {e} :
          pending' = IF live THEN [pending EXCEPT ![f] = Append(@, p)] ELSE pending
    /\ UNCHANGED <<damage, live>>

Deliver(e) ==
    /\ UNCHANGED <<accepted, damage, live>>
    /\ pending[e] # <<>>
    /\ pending' = [pending EXCEPT ![e] = Tail(@)]

Disturb(e) ==
    /\ damage' = damage + 1
    /\ \/ UNCHANGED pending
       \/ \E i \in DOMAIN pending[e] : pending' = [pending EXCEPT ![e] = RemoveAt(@, i)]
    /\ UNCHANGED <<accepted, live>>

Cut ==
    /\ live' = FALSE
    /\ UNCHANGED <<accepted, damage>>
    /\ DOMAIN pending' = Ends
    /\ \A e \in Ends : IsPrefix(pending'[e], pending[e])

FifoNext == Open \/ Cut \/ \E e \in Ends : Accept(e) \/ Deliver(e) \/ Disturb(e)

FifoSpec == FifoInit /\ [][FifoNext]_<<pending, accepted, damage, live>>
=============================================================================
