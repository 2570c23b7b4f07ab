---------------------------- MODULE LinkEndpoint ----------------------------
(***************************************************************************)
(* The serial port of each of two emulators on a remote link               *)
(* (src/src/tcp_serial_endpoint.cpp, LinkSerialEndpoint), from the moment  *)
(* the handshake is complete: the guest's register writes and clock edges, *)
(* the packets a driving port exchanges for its edges, the poll() that     *)
(* serves the peer's, retransmission, commits, resets and protocol faults. *)
(* Each direction of the channel is a queue that may lose packets. One     *)
(* poll() of the code that handles several packets is several polls here.  *)
(***************************************************************************)
EXTENDS SerialPort, SequencesExt

CONSTANTS Host, Join,    \* the side with arbitration_priority_, and the other
          None,          \* an empty std::optional
          GuestBytes,    \* the bytes each guest writes to SB
          Commands,      \* the SC values the guests write
          Backoff,       \* request_backoff_ after a denial
          MaxRetries,    \* maximum_request_retries
          MaxRequests,   \* bound: requests of each endpoint
          MaxResets,     \* bound: resets of each endpoint
          MaxQueue,      \* bound: packets a guest's SC writes pile up
          MaxLosses      \* bound: packets the channel loses

ASSUME EndpointAssumption ==
    /\ Host # Join
    /\ None \notin Nat
    /\ GuestBytes \in [{Host, Join} -> SUBSET Byte]
    /\ Commands \subseteq Control
    /\ ByteBits > 1     \* a bit packet is told from a byte packet
    /\ {MaxRequests, MaxResets} \subseteq [{Host, Join} -> Nat]
    /\ {Backoff, MaxRetries, MaxQueue, MaxLosses} \subseteq Nat

\* An empty optional is neither a packet nor what a fault is called.
ASSUME NoneAssumption ==
    /\ None \notin {"timeout", "out of order", "multiple in flight", "type mismatch"}
    /\ None \notin [kind : {"request", "response", "denied", "not_ready"},
                   seq : Nat, bits : Seq(Bit)]

VARIABLES port,    \* the two serial ports
          ep,      \* the endpoints' protocol state
          wire,    \* packets on their way to each side
          up,      \* the side's channel is connected
          fault,   \* why protocol_fault() closed the link, per side
          losses   \* packets lost so far

vars == <<port, ep, wire, up, fault, losses>>

Consoles == {Host, Join}
Peer(c)  == IF c = Host THEN Join ELSE Host

\* A byte packet carries ByteBits bits, a bit packet one, the others none.
Packet(kind, sequence, bits) ==
    [kind |-> kind, seq |-> sequence, bits |-> bits]

Attached ==
    [next       |-> 0,      \* next_sequence_
     pending    |-> None,   \* pending_packet_, while pending_sequence_ is set
     retries    |-> 0,      \* pending_retry_count_
     answer     |-> <<>>,   \* the bits of byte_response_ not yet consumed
     response   |-> <<>>,   \* response_
     backoff    |-> 0,      \* request_backoff_
     deferred   |-> None,   \* deferred_request_
     served     |-> None,   \* last_peer_request_sequence_
     reply      |-> None,   \* last_peer_request_response_
     busy       |-> FALSE,  \* peer_clock_busy_
     seen       |-> FALSE,  \* peer_request_seen_
     completed  |-> None,   \* last_completed_sequence_
     commit     |-> None,   \* commit_sequence_, while it waits for its ack
     commit_retries |-> 0,
     control    |-> 0,      \* next_control_sequence_
     reset      |-> None,   \* reset_sequence_, while it waits for its ack
     reset_retries  |-> 0,
     peer_reset |-> None]   \* last_peer_reset_sequence_

Init ==
    /\ \E byte \in [Consoles -> UNION {GuestBytes[c] : c \in Consoles}] :
          /\ \A c \in Consoles : byte[c] \in GuestBytes[c]
          /\ port = [c \in Consoles |-> PostBoot(byte[c], 0)]
    /\ ep = [c \in Consoles |-> Attached]
    /\ wire = [c \in Consoles |-> <<>>]
    /\ up = [c \in Consoles |-> TRUE]
    /\ fault = [c \in Consoles |-> None]
    /\ losses = 0

-----------------------------------------------------------------------------
(* A handler works on its side's node: port, endpoint, the packets it      *)
(* sends and the fault it raises.                                          *)
Node(c) == [port |-> port[c], ep |-> ep[c], out |-> <<>>, fault |-> None]

Send(n, packet) == [n EXCEPT !.out = Append(@, packet)]

AnswerReady(n) == n.ep.answer # <<>> \/ n.ep.response # <<>>

Forget(e) == [e EXCEPT !.pending = None, !.retries = 0]

\* reset_transfer_state: everything about transfers, but no sequence counter.
Abandon(e) ==
    [Attached EXCEPT !.next = e.next, !.control = e.control,
                     !.completed = e.completed, !.reset = e.reset,
                     !.reset_retries = e.reset_retries,
                     !.peer_reset = e.peer_reset]

(* release_internal_clock, called with the port as it stands. A completed  *)
(* byte is committed; an answer that is ready belongs to the next edge.    *)
ReleaseClock(n) ==
    LET active == n.port.active
        e == IF ~AnswerReady(n) /\ ~active
               THEN [Forget(n.ep) EXCEPT !.backoff = 0] ELSE n.ep
    IN  IF AnswerReady(n) /\ active THEN n
        ELSE IF ~active /\ e.completed # None
               THEN Send([n EXCEPT !.ep = [e EXCEPT
                                     !.commit = e.completed,
                                     !.commit_retries = 0,
                                     !.completed = None]],
                         Packet("commit", e.completed, <<>>))
               ELSE Send([n EXCEPT !.ep = e], Packet("release", 0, <<>>))

\* request_internal_clock
Grants(c, e) == c = Host \/ e.seen

(* write_control, by the guest or by the endpoint itself.                  *)
RewriteControl(c, n, sc) ==
    LET m == IF GivesClockBack(n.port, sc, TRUE) THEN ReleaseClock(n) ELSE n
        granted == AsksForClock(n.port, sc, TRUE) => Grants(c, m.ep)
    IN  [m EXCEPT !.port = WriteControl(n.port, sc, TRUE, TRUE, granted)]

\* The port gives the clock up but stays armed.
Demote(c, n) ==
    RewriteControl(c, n, [n.port.control EXCEPT !.internal = FALSE])

-----------------------------------------------------------------------------
(* prepare_bit: a driving port that may send asks the peer for its bits.   *)
ReadyForLink(c, e) ==
    (c = Host \/ e.seen) /\ e.reset = None /\ e.commit = None

\* PrepareBit that does not wait for the answer to its last request.
AskAgain(c, n) ==
    LET request == Packet("request", n.ep.next,
                          IF n.port.bits = 0 THEN n.port.data
                          ELSE <<Outgoing(n.port)>>)
    IN  IF AnswerReady(n) \/ ~ReadyForLink(c, n.ep) THEN n
        ELSE Send([n EXCEPT !.ep.next = @ + 1, !.ep.pending = request,
                            !.ep.retries = 0], request)

PrepareBit(c, n) ==
    LET e    == n.ep
        bits == IF n.port.bits = 0 THEN n.port.data ELSE <<Outgoing(n.port)>>
        request == Packet("request", e.next, bits)
    IN  IF e.pending # None \/ ~ReadyForLink(c, e) \/ (c = Join /\ e.busy)
          THEN n
        ELSE IF e.backoff # 0 THEN [n EXCEPT !.ep.backoff = @ - 1]
        ELSE Send([n EXCEPT !.ep = [e EXCEPT !.next = @ + 1,
                                             !.pending = request,
                                             !.retries = 0]], request)

(* exchange_bit: the next bit of the answer; the last one ends the request.*)
Incoming(e) == IF e.answer # <<>> THEN Head(e.answer) ELSE Head(e.response)

Settle(e) ==
    [Forget(e) EXCEPT !.completed = IF e.pending = None THEN None
                                    ELSE e.pending.seq]

\* Consume that does not keep the answer's place between two edges.
RestartAnswer(e) ==
    IF Len(e.answer) > 1 THEN e
    ELSE [Settle(e) EXCEPT !.answer = <<>>, !.response = <<>>]

Consume(e) ==
    IF Len(e.answer) > 1 THEN [e EXCEPT !.answer = Tail(@)]
    ELSE IF e.answer # <<>> THEN [Settle(e) EXCEPT !.answer = <<>>]
    ELSE [Settle(e) EXCEPT !.response = <<>>]

(* tick of a driving port whose edge is due: the edge waits for an answer. *)
ClockEdge(c, n) ==
    LET asked == PrepareBit(c, n)
        moved == [asked EXCEPT !.port = Shift(@, Incoming(asked.ep)),
                               !.ep = Consume(@)]
    IN  IF ~AnswerReady(asked) THEN asked
        ELSE IF moved.port.active THEN moved ELSE ReleaseClock(moved)

-----------------------------------------------------------------------------
(* poll: the peer's request clocks a port that follows; an idle port defers*)
(* it, a driving host denies it and a driving joiner yields.               *)
ClockedBy(p, bits) ==
    LET step[i \in 0..Len(bits)] ==
          IF i = 0 THEN [port |-> p, gave |-> <<>>]
          ELSE LET q == step[i - 1]
               IN  IF Follows(q.port)
                     THEN [port |-> Shift(q.port, bits[i]),
                           gave |-> Append(q.gave, Outgoing(q.port))]
                     ELSE [port |-> q.port, gave |-> Append(q.gave, 1)]
    IN  step[Len(bits)]

Reply(n, packet) == Send([n EXCEPT !.ep.reply = packet], packet)

Clocked(n, request) ==
    LET c == ClockedBy(n.port, request.bits)
    IN  Reply([n EXCEPT !.port = c.port],
              Packet("response", request.seq, c.gave))

Yield(c, n) ==
    LET m == Demote(c, n)
    IN  [m EXCEPT !.ep.pending = None, !.ep.response = <<>>]

\* Serve without arbitration_priority_: either side yields.
YieldToAnyone(c, n, request) ==
    IF ~n.port.active THEN [n EXCEPT !.ep.deferred = request]
    ELSE Clocked(IF n.port.internal THEN Yield(c, n) ELSE n, request)

Serve(c, n, request) ==
    IF ~n.port.active THEN [n EXCEPT !.ep.deferred = request]
    ELSE IF n.port.internal /\ c = Host
      THEN Reply([n EXCEPT !.ep.busy = FALSE],
                 Packet("denied", request.seq, request.bits))
    ELSE Clocked(IF n.port.internal THEN Yield(c, n) ELSE n, request)

\* ReceiveRequest without the cached response of a duplicate.
ServeDuplicates(c, n, request) ==
    Serve(c, [n EXCEPT !.ep.served = request.seq, !.ep.reply = None,
                       !.ep.seen = TRUE, !.ep.busy = TRUE], request)

ReceiveRequest(c, n, request) ==
    LET e == n.ep
        accepted == [n EXCEPT !.ep = [e EXCEPT !.served = request.seq,
                                               !.reply = None,
                                               !.seen = TRUE,
                                               !.busy = TRUE]]
    IN  IF e.served = request.seq
          THEN IF e.reply = None THEN n ELSE Send(n, e.reply)
        ELSE IF e.served # None /\ request.seq # e.served + 1
          THEN [n EXCEPT !.fault = "out of order"]
        ELSE IF e.deferred # None /\ request.seq # e.deferred.seq
          THEN [n EXCEPT !.fault = "multiple in flight"]
        ELSE Serve(c, accepted, request)

(* Its own request comes back answered, denied or not ready.               *)
ReceiveReply(c, n, packet) ==
    LET e == n.ep
        demoted == IF Drives(n.port) THEN Demote(c, n) ELSE n
    IN  IF e.pending = None THEN n
        ELSE IF packet.seq # e.pending.seq THEN n
        ELSE IF Len(packet.bits) # Len(e.pending.bits)
          THEN [n EXCEPT !.fault = "type mismatch"]
        ELSE IF packet.kind = "denied"
          THEN [demoted EXCEPT !.ep = [Forget(demoted.ep) EXCEPT
                                         !.response = <<>>, !.answer = <<>>,
                                         !.backoff = Backoff]]
        ELSE IF packet.kind = "not_ready"
          THEN [n EXCEPT !.ep = [Forget(e) EXCEPT !.response = <<>>,
                                                  !.backoff = Backoff]]
        ELSE IF Len(packet.bits) > 1 THEN [n EXCEPT !.ep.answer = packet.bits]
        ELSE [n EXCEPT !.ep.response = packet.bits]

(* A reset the side has not seen drops what it knows of the transfer; an   *)
(* older one is only acknowledged.                                         *)
ReceiveReset(n, packet) ==
    LET stale == IF n.ep.peer_reset = None THEN FALSE
                 ELSE packet.seq <= n.ep.peer_reset
    IN  Send(IF stale THEN n
             ELSE [n EXCEPT !.ep = [Abandon(n.ep) EXCEPT
                                      !.peer_reset = packet.seq]],
             Packet("reset_ack", packet.seq, <<>>))

Receive(c, n, packet) ==
    CASE packet.kind = "request" -> ReceiveRequest(c, n, packet)
      [] packet.kind \in {"response", "denied", "not_ready"} ->
            ReceiveReply(c, n, packet)
      [] packet.kind = "release" -> [n EXCEPT !.ep.busy = FALSE]
      [] packet.kind = "commit" ->
            Send([n EXCEPT !.ep.busy = FALSE],
                 Packet("commit_ack", packet.seq, <<>>))
      [] packet.kind = "commit_ack" ->
            IF packet.seq = n.ep.commit
              THEN [n EXCEPT !.ep.commit = None, !.ep.commit_retries = 0]
              ELSE n
      [] packet.kind = "reset" -> ReceiveReset(n, packet)
      [] packet.kind = "reset_ack" ->
            IF packet.seq = n.ep.reset
              THEN [n EXCEPT !.ep.reset = None, !.ep.reset_retries = 0]
              ELSE n

(* The end of every poll: a deferred request whose receiver is armed now.  *)
ServeDeferred(c, n) ==
    IF n.fault = None /\ n.ep.deferred # None /\ Follows(n.port)
      THEN Serve(c, [n EXCEPT !.ep.deferred = None], n.ep.deferred)
      ELSE n

-----------------------------------------------------------------------------
(* Publishing what a handler made of its node. A fault closes the channel  *)
(* and resets the port.                                                    *)
Publish(c, n, unread) ==
    /\ up[c]
    /\ port' = [port EXCEPT ![c] = IF n.fault = None THEN n.port
                                   ELSE Reset(n.port)]
    /\ ep' = [ep EXCEPT ![c] = IF n.fault = None THEN n.ep
                               ELSE [Abandon(n.ep) EXCEPT !.completed = None]]
    /\ wire' = [wire EXCEPT ![c] = unread,
                            ![Peer(c)] = IF up[Peer(c)] THEN @ \o n.out ELSE @]
    /\ up' = [up EXCEPT ![c] = n.fault = None]
    /\ fault' = [fault EXCEPT ![c] = n.fault]
    /\ UNCHANGED losses

Act(c, n) == Publish(c, n, wire[c])

WriteSB(c) ==
    \E byte \in GuestBytes[c] :
        Act(c, [Node(c) EXCEPT !.port =
                      WriteData(@, byte, TRUE, ep[c].pending # None)])

WriteSC(c) ==
    /\ Len(wire[Peer(c)]) < MaxQueue
    /\ \E sc \in Commands : Act(c, RewriteControl(c, Node(c), sc))

Edge(c) ==
    /\ Drives(port[c])
    /\ \/ ep[c].next < MaxRequests[c]
       \/ ep[c].pending # None
       \/ AnswerReady(Node(c))
    /\ Act(c, ClockEdge(c, Node(c)))

\* reset_link() on an attached port; the marker waits for its own ack.
ResetLink(c) ==
    /\ ep[c].control < MaxResets[c]
    /\ LET n == IF Drives(port[c]) THEN ReleaseClock(Node(c)) ELSE Node(c)
           e == [Abandon(n.ep) EXCEPT !.completed = None,
                                      !.reset = n.ep.control,
                                      !.reset_retries = 0,
                                      !.control = @ + 1]
       IN  Act(c, Send([n EXCEPT !.port = Reset(@), !.ep = e],
                           Packet("reset", n.ep.control, <<>>)))

PollPacket(c) ==
    /\ wire[c] # <<>>
    /\ Publish(c, ServeDeferred(c, Receive(c, Node(c), Head(wire[c]))),
               Tail(wire[c]))

\* A poll with nothing to receive serves a port armed since.
PollDeferred(c) ==
    /\ ep[c].deferred # None
    /\ Follows(port[c])
    /\ Act(c, ServeDeferred(c, Node(c)))

\* deferred_request_poll_limit polls with nobody armed.
PollExpired(c) ==
    /\ ep[c].deferred # None
    /\ ~port[c].active
    /\ Act(c, Reply([Node(c) EXCEPT !.ep.deferred = None],
                        Packet("not_ready", ep[c].deferred.seq,
                               ep[c].deferred.bits)))

\* RetryRequest that ends the retries without ending the link.
RetryQuietly(c) ==
    /\ ep[c].pending # None
    /\ ~AnswerReady(Node(c))
    /\ Act(c, IF ep[c].retries = MaxRetries
                THEN [Node(c) EXCEPT !.ep = Forget(@)]
                ELSE Send([Node(c) EXCEPT !.ep.retries = @ + 1],
                          ep[c].pending))

(* A retransmission whose deadline has passed, or the fault that ends the  *)
(* retries.                                                                *)
RetryRequest(c) ==
    /\ ep[c].pending # None
    /\ ~AnswerReady(Node(c))
    /\ LET n == Node(c)
       IN  Act(c, IF n.ep.retries = MaxRetries
                        THEN [n EXCEPT !.fault = "timeout"]
                        ELSE ServeDeferred(c,
                               Send([n EXCEPT !.ep.retries = @ + 1],
                                    n.ep.pending)))

RetryCommit(c) ==
    /\ ep[c].commit # None
    /\ LET n == Node(c)
       IN  Act(c, IF n.ep.commit_retries = MaxRetries
                        THEN [n EXCEPT !.fault = "timeout"]
                        ELSE ServeDeferred(c,
                               Send([n EXCEPT !.ep.commit_retries = @ + 1],
                                    Packet("commit", n.ep.commit, <<>>))))

RetryReset(c) ==
    /\ ep[c].reset # None
    /\ LET n == Node(c)
       IN  Act(c, IF n.ep.reset_retries = MaxRetries
                        THEN [n EXCEPT !.fault = "timeout"]
                        ELSE ServeDeferred(c,
                               Send([n EXCEPT !.ep.reset_retries = @ + 1],
                                    Packet("reset", n.ep.reset, <<>>))))

\* The channel has failed because the other side closed it.
PollClosed(c) ==
    /\ up[c]
    /\ ~up[Peer(c)]
    /\ port' = [port EXCEPT ![c] = Reset(@)]
    /\ ep' = [ep EXCEPT ![c] = [Abandon(@) EXCEPT !.completed = None]]
    /\ wire' = [wire EXCEPT ![c] = <<>>]
    /\ up' = [up EXCEPT ![c] = FALSE]
    /\ UNCHANGED <<fault, losses>>

Lose(c) ==
    /\ wire[c] # <<>>
    /\ losses < MaxLosses
    /\ \E i \in 1..Len(wire[c]) :
          wire' = [wire EXCEPT ![c] = RemoveAt(@, i)]
    /\ losses' = losses + 1
    /\ UNCHANGED <<port, ep, up, fault>>

-----------------------------------------------------------------------------
Guest(c) == WriteSB(c) \/ WriteSC(c) \/ Edge(c)

Poll(c) ==
    \/ PollPacket(c) \/ PollDeferred(c) \/ PollExpired(c) \/ PollClosed(c)
    \/ RetryRequest(c) \/ RetryCommit(c) \/ RetryReset(c)

(* A steady guest does not give the clock up in the middle of its byte.    *)
Steady ==
    \A c \in Consoles :
        Drives(port[c]) /\ ~Drives(port'[c]) /\ port'[c].bits < ByteBits
            => ep'[c].pending = None

(* A patient one does not take it while the other side's byte is under way,*)
(* as on a cable whose two ports finish a byte together.                   *)
Patient ==
    \A c \in Consoles :
        Drives(port'[c]) /\ ~Drives(port[c]) => ep[Peer(c)].pending = None

(* A retransmission is accurate when the request or its reply was lost:    *)
(* neither is on its way, nor is the request deferred.                     *)
InFlight(c, sequence) ==
    \/ ep[Peer(c)].deferred # None
    \/ \E i \in DOMAIN wire[Peer(c)] :
          wire[Peer(c)][i].kind = "request" /\ wire[Peer(c)][i].seq = sequence
    \/ \E i \in DOMAIN wire[c] :
          /\ wire[c][i].kind \in {"response", "denied", "not_ready"}
          /\ wire[c][i].seq = sequence

AccurateRetries ==
    \A c \in Consoles :
        ep'[c].retries > ep[c].retries => ~InFlight(c, ep[c].pending.seq)

(* The link is only reset while no request is outstanding or on its way,   *)
(* and no request is sent before the other side has acknowledged the reset.*)
QuietResets ==
    \A c \in Consoles :
        /\ ep'[c].control # ep[c].control =>
              \A d \in Consoles :
                  /\ ep[d].pending = None
                  /\ \A i \in DOMAIN wire[d] : wire[d][i].kind # "request"
        /\ ep'[c].next # ep[c].next => ep[Peer(c)].reset = None

Next == \E c \in Consoles : Guest(c) \/ Poll(c) \/ ResetLink(c) \/ Lose(c)

Spec == Init /\ [][Next]_vars
=============================================================================
