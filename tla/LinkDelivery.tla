---------------------------- MODULE LinkDelivery ----------------------------
(***************************************************************************)
(* What the remote link of LinkEndpoint does to whole bytes: a history of  *)
(* the requests each side has clocked into its own port and of those whose *)
(* byte it has shifted out as the driver, the properties of an exchange,   *)
(* and the specifications that differ in what they ask of the guests, the  *)
(* retry timers and the user.                                              *)
(***************************************************************************)
EXTENDS LinkEndpoint

VARIABLES log,   \* per side: [seq, gave, holds] of each request it clocked
          done   \* per side: its requests whose byte it has shifted out

deliveryVars == <<port, ep, wire, up, fault, losses, log, done>>

DeliveryInit == /\ Init
                /\ log = [c \in Consoles |-> <<>>]
                /\ done = [c \in Consoles |-> {}]

(* A poll that moves the port's bits has clocked the peer's request.       *)
Clocks(c) ==
    /\ Poll(c)
    /\ log' = IF up'[c] /\ port'[c].bits # port[c].bits
                THEN [log EXCEPT ![c] =
                        Append(@, [seq |-> ep'[c].reply.seq,
                                   gave |-> ep'[c].reply.bits,
                                   holds |-> port'[c].data])]
                ELSE log
    /\ UNCHANGED done

(* An edge that shifts the last bit has completed the request it was for.  *)
CompletesByte(c) ==
    Drives(port[c]) /\ ~port'[c].active /\ port'[c].bits = ByteBits

Drive(c) ==
    /\ Edge(c)
    /\ done' = IF CompletesByte(c) /\ ep[c].pending # None
                 THEN [done EXCEPT ![c] = @ \cup {ep[c].pending.seq}]
                 ELSE done
    /\ UNCHANGED log

Others(c) ==
    /\ WriteSB(c) \/ WriteSC(c) \/ ResetLink(c) \/ Lose(c)
    /\ UNCHANGED <<log, done>>

DeliveryNext == \E c \in Consoles : Clocks(c) \/ Drive(c) \/ Others(c)

(* Guests that alternate as on one cable, retransmissions only of what was *)
(* lost, resets of a quiet link.                                           *)
DeliverySpec ==
    DeliveryInit /\ [][DeliveryNext /\ Steady /\ Patient /\ AccurateRetries
                       /\ QuietResets]_deliveryVars

(* A retransmission may be sent too early: the deadline adapts to the round*)
(* trip, but a request may lie deferred at the peer for longer.            *)
EarlyRetrySpec ==
    DeliveryInit /\ [][DeliveryNext /\ Steady /\ Patient
                       /\ QuietResets]_deliveryVars

-----------------------------------------------------------------------------
(* No request is clocked into the guest twice and none out of order,       *)
(* however often it was sent: what last_peer_request_sequence_ and the     *)
(* cached response are for.                                                *)
ClockedOnce ==
    \A c \in Consoles : \A i, j \in DOMAIN log[c] :
        i < j => log[c][i].seq < log[c][j].seq

(* No byte is torn: while the link is up, a request one side has clocked   *)
(* is one the other has finished or is still to finish; a yield, a denial  *)
(* or a reset never gives up what the peer's guest has already received.   *)
NoByteIsTorn ==
    (\A c \in Consoles : up[c]) =>
        \A c \in Consoles : \A i \in DOMAIN log[c] :
            \/ log[c][i].seq \in done[Peer(c)]
            \/ /\ ep[Peer(c)].pending # None
               /\ ep[Peer(c)].pending.seq = log[c][i].seq

(* As long as the connection has lost nothing, the peers never take one    *)
(* another's packets for a protocol violation: denials, yields, deferrals, *)
(* cached answers and resets do not look like one. One lost request may:   *)
(* a joiner that yields (tcp_serial_endpoint.cpp:635) never sends it again,*)
(* and its next one is out of order to the host (line 862), which closes   *)
(* the link.                                                               *)
OnlyTimeouts == losses = 0 => \A c \in Consoles : fault[c] \in {None, "timeout"}

(* A driving port that shifts its last bit holds the byte the peer gave for*)
(* this request, and the peer holds the byte it sent: the exchange of the  *)
(* cable, across request, deferral, response and retransmission.           *)
BytesAreSwapped ==
    [][ \A c \in Consoles :
          CompletesByte(c) /\ Edge(c) =>
            /\ ep[c].pending # None
            /\ \E i \in DOMAIN log[Peer(c)] :
                  /\ log[Peer(c)][i].seq = ep[c].pending.seq
                  /\ log[Peer(c)][i].gave = port'[c].data
                  /\ log[Peer(c)][i].holds = ep[c].pending.bits ]_deliveryVars
=============================================================================
