-------------------------- MODULE LinkDelivery_proofs --------------------------
(***************************************************************************)
(* The remote link clocks no request into a guest twice and none out of    *)
(* order, for every byte width, every bound on losses, retries and resets  *)
(* and whatever the guests write: packets may be lost, sent again too      *)
(* early, deferred, denied or cut off by a reset.                          *)
(***************************************************************************)
EXTENDS LinkDelivery, SerialPort_proofs, SequenceTheorems, Iteration

LEMMA SideFacts ==
    ASSUME NEW c \in Consoles
    PROVE  /\ Peer(c) \in Consoles /\ Peer(c) # c /\ Peer(Peer(c)) = c
           /\ \A x \in Consoles : x = c \/ x = Peer(c)
BY EndpointAssumption DEF Consoles, Peer

-----------------------------------------------------------------------------
(* Packets, endpoints and nodes.                                           *)
BitSeq == Seq(Bit)

Replies  == [kind : {"response", "denied", "not_ready"}, seq : Nat, bits : BitSeq]
Requests == [kind : {"request"}, seq : Nat, bits : BitSeq]
Resets   == [kind : {"reset"}, seq : Nat, bits : BitSeq]
Acks     == [kind : {"reset_ack"}, seq : Nat, bits : BitSeq]
Others_  == [kind : {"release", "commit", "commit_ack"}, seq : Nat, bits : BitSeq]

Harmless == Replies \cup Others_
Packets  == Harmless \cup Requests \cup Resets \cup Acks

Endpoint ==
    [next : Nat, pending : Requests \cup {None}, retries : Nat,
     answer : BitSeq, response : BitSeq, backoff : Nat,
     deferred : Requests \cup {None}, served : Nat \cup {None},
     reply : Replies \cup {None}, busy : BOOLEAN, seen : BOOLEAN,
     completed : Nat \cup {None}, commit : Nat \cup {None}, commit_retries : Nat,
     control : Nat, reset : Nat \cup {None}, reset_retries : Nat,
     peer_reset : Nat \cup {None}]

Faults == {None, "timeout", "out of order", "multiple in flight", "type mismatch"}

Nodes == [port : Port, ep : Endpoint, out : Seq(Packets), fault : Faults]

\* A node a handler may be given.
Well(n) == n \in Nodes /\ Sound(n.port)

LEMMA BitSeqFacts ==
    /\ <<>> \in BitSeq
    /\ \A b \in Bit : <<b>> \in BitSeq
    /\ \A s \in BitSeq, b \in Bit : Append(s, b) \in BitSeq
    /\ \A s \in BitSeq : s # <<>> => Head(s) \in Bit /\ Tail(s) \in BitSeq
    /\ \A s \in BitSeq : Len(s) \in Nat /\ (Len(s) = 0 <=> s = <<>>)
BY DEF BitSeq

LEMMA AttachedType == Attached \in Endpoint
BY BitSeqFacts DEF Attached, Endpoint

LEMMA AbandonType ==
    ASSUME NEW e \in Endpoint
    PROVE  /\ Abandon(e) \in Endpoint
           /\ Abandon(e).next = e.next /\ Abandon(e).control = e.control
           /\ Abandon(e).reset = e.reset /\ Abandon(e).peer_reset = e.peer_reset
           /\ Abandon(e).pending = None /\ Abandon(e).deferred = None
           /\ Abandon(e).served = None
<1>1. Attached \in Endpoint
  BY AttachedType
<1>2. Attached.pending = None /\ Attached.deferred = None /\ Attached.served = None
  BY DEF Attached
<1>3. Abandon(e) \in Endpoint
  BY <1>1, ZenonT(30) DEF Endpoint, Abandon
<1>4. /\ Abandon(e).next = e.next /\ Abandon(e).control = e.control
      /\ Abandon(e).reset = e.reset /\ Abandon(e).peer_reset = e.peer_reset
  BY <1>1 DEF Endpoint, Abandon
<1>5. /\ Abandon(e).pending = Attached.pending /\ Abandon(e).deferred = Attached.deferred
      /\ Abandon(e).served = Attached.served
  BY <1>1 DEF Endpoint, Abandon
<1> QED
  BY <1>2, <1>3, <1>4, <1>5

LEMMA ForgetType ==
    ASSUME NEW e \in Endpoint
    PROVE  Forget(e) \in Endpoint
BY DEF Endpoint, Forget

LEMMA SendType ==
    ASSUME NEW n, Well(n), NEW p \in Packets
    PROVE  /\ Well(Send(n, p)) /\ Send(n, p).port = n.port
           /\ Send(n, p).ep = n.ep /\ Send(n, p).fault = n.fault
           /\ Range(Send(n, p).out) = Range(n.out) \cup {p}
<1>1. n.out \in Seq(Packets) /\ Append(n.out, p) \in Seq(Packets)
  BY DEF Well, Nodes
<1>2. Range(Append(n.out, p)) = Range(n.out) \cup {p}
  BY <1>1 DEF Range
<1> QED
  BY <1>1, <1>2 DEF Well, Nodes, Send

LEMMA OutgoingBit ==
    ASSUME NEW p \in Port
    PROVE  Outgoing(p) \in Bit /\ p.data \in BitSeq
<1>1. 1 \in 1..ByteBits /\ ByteBits \in Nat
  BY PortAssumption
<1> QED
  BY <1>1 DEF Outgoing, Port, Byte, Bit, BitSeq

-----------------------------------------------------------------------------
(* Clocking a port by the bits of a request, one after the other.          *)
OneClock(q, bit) ==
    IF Follows(q.port)
      THEN [port |-> Shift(q.port, bit), gave |-> Append(q.gave, Outgoing(q.port))]
      ELSE [port |-> q.port, gave |-> Append(q.gave, 1)]

Untouched(p) == [port |-> p, gave |-> <<>>]

IsClocking(g, p, bits, n) ==
    g = [i \in 0..n |-> IF i = 0 THEN Untouched(p) ELSE OneClock(g[i - 1], bits[i])]

LEMMA ClockingExists ==
    ASSUME NEW p, NEW bits, NEW n \in Nat
    PROVE  \E g : IsClocking(g, p, bits, n)
<1> DEFINE S == {m \in Nat : \E g : IsClocking(g, p, bits, m)}
<1>1. 0 \in S
  <2>1. IsClocking([i \in 0..0 |-> Untouched(p)], p, bits, 0)
    BY DEF IsClocking
  <2> QED
    BY <2>1
<1>2. ASSUME NEW m \in Nat, m \in S PROVE m + 1 \in S
  <2>1. PICK g : IsClocking(g, p, bits, m)
    BY <1>2
  <2> DEFINE h == [i \in 0..(m + 1) |-> IF i = m + 1 THEN OneClock(g[m], bits[m + 1])
                                                   ELSE g[i]]
  <2>2. ASSUME NEW i \in 0..(m + 1)
        PROVE  h[i] = IF i = 0 THEN Untouched(p) ELSE OneClock(h[i - 1], bits[i])
    <3>1. CASE i = m + 1
      BY <3>1
    <3>2. CASE i = 0
      BY <2>1, <3>2 DEF IsClocking
    <3>3. CASE i \in 1..m
      <4>1. g[i] = OneClock(g[i - 1], bits[i])
        BY <2>1, <3>3 DEF IsClocking
      <4>2. h[i] = g[i] /\ h[i - 1] = g[i - 1]
        BY <3>3
      <4> QED
        BY <3>3, <4>1, <4>2
    <3> QED
      BY <3>1, <3>2, <3>3
  <2>3. h = [i \in 0..(m + 1) |-> h[i]]
    OBVIOUS
  <2> HIDE DEF h
  <2>4. h = [i \in 0..(m + 1) |-> IF i = 0 THEN Untouched(p) ELSE OneClock(h[i - 1], bits[i])]
    BY <2>2, <2>3, Zenon
  <2> QED
    BY <2>4 DEF IsClocking
<1> HIDE DEF S
<1>3. Nat \subseteq S
  BY <1>1, <1>2, InductionOverNat
<1> QED
  BY <1>3 DEF S

LEMMA ClockedByType ==
    ASSUME NEW p \in Port, Sound(p), NEW bits \in BitSeq
    PROVE  /\ ClockedBy(p, bits).port \in Port /\ Sound(ClockedBy(p, bits).port)
           /\ ClockedBy(p, bits).gave \in BitSeq
<1> DEFINE n == Len(bits)
           step == CHOOSE g : IsClocking(g, p, bits, n)
           Good(q) == q.port \in Port /\ Sound(q.port) /\ q.gave \in BitSeq
           S == {m \in Nat : m <= n => Good(step[m])}
<1>1. ClockedBy(p, bits) = step[n]
  BY Zenon DEF ClockedBy, IsClocking, OneClock, Untouched
<1>2. n \in Nat /\ \A i \in 1..n : bits[i] \in Bit
  BY DEF BitSeq
<1>3. IsClocking(step, p, bits, n)
  BY <1>2, ClockingExists
<1> HIDE DEF step, n
<1>4. 0 \in S
  <2>1. step[0] = Untouched(p)
    BY <1>2, <1>3 DEF IsClocking
  <2>2. Untouched(p).port = p /\ Untouched(p).gave = <<>> /\ <<>> \in BitSeq
    BY BitSeqFacts DEF Untouched
  <2>3. Good(step[0])
    BY <2>1, <2>2
  <2> HIDE DEF Good
  <2> QED
    BY <2>3
<1>5. ASSUME NEW m \in Nat, m \in S PROVE m + 1 \in S
  <2> SUFFICES ASSUME m + 1 <= n PROVE Good(step[m + 1])
    OBVIOUS
  <2> DEFINE q == step[m]
  <2>1. q.port \in Port /\ Sound(q.port) /\ q.gave \in BitSeq
    BY <1>2, <1>5
  <2>2. step[m + 1] = OneClock(q, bits[m + 1])
    BY <1>2, <1>3 DEF IsClocking
  <2>3. bits[m + 1] \in Bit /\ Outgoing(q.port) \in Bit /\ 1 \in Bit
    BY <1>2, <2>1, OutgoingBit DEF Bit
  <2> HIDE DEF q
  <2>4. Follows(q.port) => Shift(q.port, bits[m + 1]) \in Port /\ Sound(Shift(q.port, bits[m + 1]))
    BY <2>1, <2>3, ShiftSound DEF Follows, Sound
  <2> QED
    <3>1. Append(q.gave, Outgoing(q.port)) \in BitSeq /\ Append(q.gave, 1) \in BitSeq
      BY <2>1, <2>3, BitSeqFacts
    <3>2. /\ OneClock(q, bits[m + 1]).port \in {q.port, Shift(q.port, bits[m + 1])}
          /\ ~Follows(q.port) => OneClock(q, bits[m + 1]).port = q.port
          /\ OneClock(q, bits[m + 1]).gave \in BitSeq
      BY <3>1 DEF OneClock
    <3> QED
      BY <2>1, <2>2, <2>4, <3>2
<1> HIDE DEF S
<1>6. Nat \subseteq S
  BY <1>4, <1>5, InductionOverNat
<1> QED
  BY <1>1, <1>2, <1>6 DEF S

(* One field of an endpoint replaced. Only the fields of the invariants    *)
(* are named; the others are free within their types.                      *)
Alike(e, f) ==
    /\ f.next = e.next /\ f.served = e.served /\ f.deferred = e.deferred
    /\ f.control = e.control /\ f.reset = e.reset /\ f.peer_reset = e.peer_reset

LEMMA AnswerField ==
    ASSUME NEW e \in Endpoint, NEW x \in BitSeq
    PROVE  LET f == [e EXCEPT !.answer = x]
           IN  f \in Endpoint /\ Alike(e, f) /\ f.pending = e.pending
BY SMTT(30) DEF Endpoint, Alike

LEMMA ResponseField ==
    ASSUME NEW e \in Endpoint, NEW x \in BitSeq
    PROVE  LET f == [e EXCEPT !.response = x]
           IN  f \in Endpoint /\ Alike(e, f) /\ f.pending = e.pending
BY SMTT(30) DEF Endpoint, Alike

LEMMA BackoffField ==
    ASSUME NEW e \in Endpoint, NEW x \in Nat
    PROVE  LET f == [e EXCEPT !.backoff = x]
           IN  f \in Endpoint /\ Alike(e, f) /\ f.pending = e.pending
BY SMTT(30) DEF Endpoint, Alike

LEMMA RetriesField ==
    ASSUME NEW e \in Endpoint, NEW x \in Nat
    PROVE  LET f == [e EXCEPT !.retries = x]
           IN  f \in Endpoint /\ Alike(e, f) /\ f.pending = e.pending
BY SMTT(30) DEF Endpoint, Alike

LEMMA CommitRetriesField ==
    ASSUME NEW e \in Endpoint, NEW x \in Nat
    PROVE  LET f == [e EXCEPT !.commit_retries = x]
           IN  f \in Endpoint /\ Alike(e, f) /\ f.pending = e.pending
BY SMTT(30) DEF Endpoint, Alike

LEMMA ResetRetriesField ==
    ASSUME NEW e \in Endpoint, NEW x \in Nat
    PROVE  LET f == [e EXCEPT !.reset_retries = x]
           IN  f \in Endpoint /\ Alike(e, f) /\ f.pending = e.pending
BY SMTT(30) DEF Endpoint, Alike

LEMMA CompletedField ==
    ASSUME NEW e \in Endpoint, NEW x \in Nat \cup {None}
    PROVE  LET f == [e EXCEPT !.completed = x]
           IN  f \in Endpoint /\ Alike(e, f) /\ f.pending = e.pending
BY SMTT(30) DEF Endpoint, Alike

LEMMA CommitField ==
    ASSUME NEW e \in Endpoint, NEW x \in Nat \cup {None}
    PROVE  LET f == [e EXCEPT !.commit = x]
           IN  f \in Endpoint /\ Alike(e, f) /\ f.pending = e.pending
BY SMTT(30) DEF Endpoint, Alike

LEMMA BusyField ==
    ASSUME NEW e \in Endpoint, NEW x \in BOOLEAN
    PROVE  LET f == [e EXCEPT !.busy = x]
           IN  f \in Endpoint /\ Alike(e, f) /\ f.pending = e.pending
BY SMTT(30) DEF Endpoint, Alike

LEMMA SeenField ==
    ASSUME NEW e \in Endpoint, NEW x \in BOOLEAN
    PROVE  LET f == [e EXCEPT !.seen = x]
           IN  f \in Endpoint /\ Alike(e, f) /\ f.pending = e.pending
BY SMTT(30) DEF Endpoint, Alike

LEMMA ResetField ==
    ASSUME NEW e \in Endpoint, NEW x \in Nat \cup {None}
    PROVE  LET f == [e EXCEPT !.reset = x]
           IN  /\ f \in Endpoint /\ f.next = e.next /\ f.served = e.served
               /\ f.deferred = e.deferred /\ f.control = e.control /\ f.reset = x
               /\ f.peer_reset = e.peer_reset /\ f.pending = e.pending
BY SMTT(30) DEF Endpoint

LEMMA PeerResetField ==
    ASSUME NEW e \in Endpoint, NEW x \in Nat
    PROVE  LET f == [e EXCEPT !.peer_reset = x]
           IN  /\ f \in Endpoint /\ f.next = e.next /\ f.served = e.served
               /\ f.deferred = e.deferred /\ f.control = e.control /\ f.reset = e.reset
               /\ f.peer_reset = x /\ f.pending = e.pending
BY SMTT(30) DEF Endpoint

LEMMA ServedField ==
    ASSUME NEW e \in Endpoint, NEW x \in Nat
    PROVE  LET f == [e EXCEPT !.served = x]
           IN  /\ f \in Endpoint /\ f.next = e.next /\ f.served = x
               /\ f.deferred = e.deferred /\ f.control = e.control /\ f.reset = e.reset
               /\ f.peer_reset = e.peer_reset /\ f.pending = e.pending
BY SMTT(30) DEF Endpoint

LEMMA ReplyField ==
    ASSUME NEW e \in Endpoint, NEW x \in Replies \cup {None}
    PROVE  LET f == [e EXCEPT !.reply = x]
           IN  f \in Endpoint /\ Alike(e, f) /\ f.pending = e.pending /\ f.reply = x
BY SMTT(30) DEF Endpoint, Alike

LEMMA PendingField ==
    ASSUME NEW e \in Endpoint, NEW x \in Requests \cup {None}
    PROVE  LET f == [e EXCEPT !.pending = x]
           IN  f \in Endpoint /\ Alike(e, f) /\ f.pending = x /\ f.completed = e.completed
BY SMTT(30) DEF Endpoint, Alike

LEMMA NextField ==
    ASSUME NEW e \in Endpoint, NEW x \in Nat
    PROVE  LET f == [e EXCEPT !.next = x]
           IN  /\ f \in Endpoint /\ f.next = x /\ f.served = e.served
               /\ f.deferred = e.deferred /\ f.control = e.control /\ f.reset = e.reset
               /\ f.peer_reset = e.peer_reset /\ f.pending = e.pending
BY SMTT(30) DEF Endpoint

LEMMA ForgetKeeps ==
    ASSUME NEW e \in Endpoint
    PROVE  Forget(e) \in Endpoint /\ Alike(e, Forget(e)) /\ Forget(e).pending = None
<1> DEFINE f == [e EXCEPT !.pending = None]
<1>1. f \in Endpoint /\ Alike(e, f) /\ f.pending = None
  BY PendingField
<1>2. Forget(e) = [f EXCEPT !.retries = 0]
  BY DEF Forget
<1> HIDE DEF f
<1> QED
  BY <1>1, <1>2, RetriesField DEF Alike

LEMMA DeferredField ==
    ASSUME NEW e \in Endpoint, NEW x \in Requests \cup {None}
    PROVE  LET f == [e EXCEPT !.deferred = x]
           IN  /\ f \in Endpoint /\ f.next = e.next /\ f.served = e.served
               /\ f.control = e.control /\ f.reset = e.reset
               /\ f.peer_reset = e.peer_reset /\ f.pending = e.pending /\ f.deferred = x
               /\ f.reply = e.reply
BY SMTT(30) DEF Endpoint

-----------------------------------------------------------------------------
(* What the handlers leave alone. Most of them send nothing but harmless   *)
(* packets and touch neither the peer's requests nor the resets.           *)
Keeps(n, m) ==
    /\ Well(m) /\ m.fault = n.fault
    /\ m.ep.next = n.ep.next /\ m.ep.served = n.ep.served
    /\ m.ep.deferred = n.ep.deferred
    /\ m.ep.control = n.ep.control /\ m.ep.reset = n.ep.reset
    /\ m.ep.peer_reset = n.ep.peer_reset
    /\ m.ep.pending \in {n.ep.pending, None}
    /\ Range(m.out) \subseteq Range(n.out) \cup Harmless

LEMMA KeepsChain ==
    ASSUME NEW n, NEW m, NEW o, Keeps(n, m), Keeps(m, o)
    PROVE  Keeps(n, o)
BY DEF Keeps

LEMMA KeepsItself ==
    ASSUME NEW n, Well(n)
    PROVE  Keeps(n, n)
BY DEF Keeps

LEMMA ReplyIsHarmless ==
    ASSUME NEW k \in Nat, NEW bits \in BitSeq
    PROVE  /\ Packet("response", k, bits) \in Replies
           /\ Packet("denied", k, bits) \in Replies
           /\ Packet("not_ready", k, bits) \in Replies
           /\ Packet("commit", k, bits) \in Harmless
           /\ Packet("commit_ack", k, bits) \in Harmless
           /\ Packet("release", k, bits) \in Harmless
           /\ Packet("request", k, bits) \in Requests
           /\ Packet("reset", k, bits) \in Resets
           /\ Packet("reset_ack", k, bits) \in Acks
BY DEF Packet, Replies, Harmless, Others_, Requests, Resets, Acks

LEMMA SendKeeps ==
    ASSUME NEW n, Well(n), NEW p \in Harmless
    PROVE  Keeps(n, Send(n, p)) /\ Send(n, p).port = n.port
BY SendType DEF Keeps, Packets

\* An endpoint that differs in other fields only.
LEMMA EndpointKeeps ==
    ASSUME NEW n, Well(n), NEW e \in Endpoint,
           e.next = n.ep.next, e.served = n.ep.served, e.deferred = n.ep.deferred,
           e.control = n.ep.control, e.reset = n.ep.reset, e.peer_reset = n.ep.peer_reset,
           e.pending \in {n.ep.pending, None}
    PROVE  Keeps(n, [n EXCEPT !.ep = e]) /\ [n EXCEPT !.ep = e].port = n.port
           /\ [n EXCEPT !.ep = e].ep = e
BY DEF Keeps, Well, Nodes

LEMMA PortKeeps ==
    ASSUME NEW n, Well(n), NEW p \in Port, Sound(p)
    PROVE  Keeps(n, [n EXCEPT !.port = p]) /\ [n EXCEPT !.port = p].port = p
BY DEF Keeps, Well, Nodes

LEMMA ReleaseKeeps ==
    ASSUME NEW n, Well(n)
    PROVE  Keeps(n, ReleaseClock(n)) /\ ReleaseClock(n).port = n.port
<1> DEFINE idle == ~AnswerReady(n) /\ ~n.port.active
           e == IF idle THEN [Forget(n.ep) EXCEPT !.backoff = 0] ELSE n.ep
           f == [e EXCEPT !.commit = e.completed, !.commit_retries = 0, !.completed = None]
<1>1. n.ep \in Endpoint
  BY DEF Well, Nodes
<1>2. Forget(n.ep) \in Endpoint
  BY <1>1, ForgetType
<1>3. /\ e \in Endpoint
      /\ e.next = n.ep.next /\ e.served = n.ep.served /\ e.deferred = n.ep.deferred
      /\ e.control = n.ep.control /\ e.reset = n.ep.reset /\ e.peer_reset = n.ep.peer_reset
      /\ e.pending \in {n.ep.pending, None} /\ e.completed \in Nat \cup {None}
  <2>1. CASE idle
    <3> DEFINE g == Forget(n.ep)
    <3>1. /\ g.next = n.ep.next /\ g.served = n.ep.served /\ g.deferred = n.ep.deferred
          /\ g.control = n.ep.control /\ g.reset = n.ep.reset
          /\ g.peer_reset = n.ep.peer_reset /\ g.pending = None
      BY <1>1 DEF Endpoint, Forget
    <3>2. e = [g EXCEPT !.backoff = 0] /\ g \in Endpoint
      BY <1>2, <2>1
    <3> HIDE DEF g, e
    <3>3. /\ e.next = g.next /\ e.served = g.served /\ e.deferred = g.deferred
          /\ e.control = g.control /\ e.reset = g.reset /\ e.peer_reset = g.peer_reset
          /\ e.pending = g.pending /\ e.completed = g.completed
      BY <3>2 DEF Endpoint
    <3>4. e \in Endpoint /\ g.completed \in Nat \cup {None}
      BY <3>2 DEF Endpoint
    <3> QED
      BY <3>1, <3>3, <3>4
  <2>2. CASE ~idle
    <3>1. e = n.ep
      BY <2>2
    <3> HIDE DEF e
    <3> QED
      BY <1>1, <3>1 DEF Endpoint
  <2> QED
    BY <2>1, <2>2
<1> HIDE DEF e
<1>4. /\ f \in Endpoint
      /\ f.next = e.next /\ f.served = e.served /\ f.deferred = e.deferred
      /\ f.control = e.control /\ f.reset = e.reset /\ f.peer_reset = e.peer_reset
      /\ f.pending = e.pending
  BY <1>3, ZenonT(30) DEF Endpoint
<1> HIDE DEF f
<1>5. CASE AnswerReady(n) /\ n.port.active
  <2>1. ReleaseClock(n) = n
    BY <1>5 DEF ReleaseClock
  <2> QED
    BY <2>1, KeepsItself
<1>6. CASE ~(AnswerReady(n) /\ n.port.active) /\ ~n.port.active /\ e.completed # None
  <2> DEFINE m == [n EXCEPT !.ep = f]
             p == Packet("commit", e.completed, <<>>)
  <2>1. ReleaseClock(n) = Send(m, p)
    BY <1>6 DEF ReleaseClock, e, f
  <2>2. Keeps(n, m) /\ m.port = n.port
    BY <1>3, <1>4, EndpointKeeps
  <2>3. p \in Harmless
    <3>1. e.completed \in Nat /\ <<>> \in BitSeq
      BY <1>3, <1>6, BitSeqFacts
    <3> QED
      BY <3>1, ReplyIsHarmless
  <2> HIDE DEF m, p
  <2>4. Keeps(m, Send(m, p)) /\ Send(m, p).port = m.port
    BY <2>2, <2>3, SendKeeps DEF Keeps
  <2> QED
    BY <2>1, <2>2, <2>4, KeepsChain
<1>7. CASE ~(AnswerReady(n) /\ n.port.active) /\ ~(~n.port.active /\ e.completed # None)
  <2> DEFINE m == [n EXCEPT !.ep = e]
             p == Packet("release", 0, <<>>)
  <2>1. ReleaseClock(n) = Send(m, p)
    BY <1>7 DEF ReleaseClock, e
  <2>2. Keeps(n, m) /\ m.port = n.port
    BY <1>3, EndpointKeeps
  <2>3. p \in Harmless
    <3>1. 0 \in Nat /\ <<>> \in BitSeq
      BY BitSeqFacts
    <3> QED
      BY <3>1, ReplyIsHarmless
  <2> HIDE DEF m, p
  <2>4. Keeps(m, Send(m, p)) /\ Send(m, p).port = m.port
    BY <2>2, <2>3, SendKeeps DEF Keeps
  <2> QED
    BY <2>1, <2>2, <2>4, KeepsChain
<1> QED
  BY <1>5, <1>6, <1>7

LEMMA RewriteKeeps ==
    ASSUME NEW c \in Consoles, NEW n, Well(n), NEW sc \in Control
    PROVE  /\ Keeps(n, RewriteControl(c, n, sc))
           /\ n.port.active /\ sc.start => RewriteControl(c, n, sc).port.bits = n.port.bits
           /\ sc.start => RewriteControl(c, n, sc).port.active
<1> DEFINE m == IF GivesClockBack(n.port, sc, TRUE) THEN ReleaseClock(n) ELSE n
           granted == AsksForClock(n.port, sc, TRUE) => Grants(c, m.ep)
           p == WriteControl(n.port, sc, TRUE, TRUE, granted)
<1>1. Keeps(n, m) /\ m.port = n.port
  BY ReleaseKeeps, KeepsItself
<1>2. RewriteControl(c, n, sc) = [m EXCEPT !.port = p]
  BY DEF RewriteControl
<1> HIDE DEF m
<1>3. granted \in BOOLEAN /\ n.port \in Port /\ Sound(n.port) /\ TRUE \in BOOLEAN
  BY DEF Well, Nodes
<1> HIDE DEF granted
<1>4. Sound(p)
  BY <1>3, WriteControlSound
<1>5. n.port.active /\ sc.start => p.bits = n.port.bits
  BY <1>3 DEF WriteControl, Continues, PhaseWithin
<1>6. sc.start => p.active
  BY <1>3 DEF WriteControl, Continues, PhaseWithin
<1> HIDE DEF p
<1>7. Keeps(m, [m EXCEPT !.port = p]) /\ [m EXCEPT !.port = p].port = p
  BY <1>1, <1>4, PortKeeps DEF Keeps, Sound
<1> QED
  BY <1>1, <1>2, <1>5, <1>6, <1>7, KeepsChain

\* A port that gives the clock up in the middle of a byte keeps its place.
LEMMA DemoteKeeps ==
    ASSUME NEW c \in Consoles, NEW n, Well(n), Drives(n.port)
    PROVE  Keeps(n, Demote(c, n)) /\ Demote(c, n).port.bits = n.port.bits
<1> DEFINE sc == [n.port.control EXCEPT !.internal = FALSE]
<1>1. n.port.control \in Control /\ n.port.active /\ n.port.control.start
  BY DEF Well, Nodes, Port, Sound, Drives
<1>2. sc \in Control /\ sc.start
  BY <1>1 DEF Control
<1> HIDE DEF sc
<1> QED
  BY <1>1, <1>2, RewriteKeeps DEF Demote, sc

-----------------------------------------------------------------------------
(* An edge either keeps or asks: it sends one new request.                 *)
Asks(n, m) ==
    /\ Well(m) /\ m.fault = n.fault
    /\ m.ep.next = n.ep.next + 1 /\ n.ep.reset = None
    /\ m.ep.served = n.ep.served /\ m.ep.deferred = n.ep.deferred
    /\ m.ep.control = n.ep.control /\ m.ep.reset = n.ep.reset
    /\ m.ep.peer_reset = n.ep.peer_reset
    /\ m.ep.pending = None \/ m.ep.pending.seq = n.ep.next
    /\ \A p \in Range(m.out) : \/ p \in Range(n.out) \cup Harmless
                               \/ p \in Requests /\ p.seq = n.ep.next

LEMMA AsksThenKeeps ==
    ASSUME NEW n, NEW m, NEW o, Asks(n, m), Keeps(m, o)
    PROVE  Asks(n, o)
BY DEF Asks, Keeps

LEMMA BothKeep ==
    ASSUME NEW n, Well(n), NEW p \in Port, Sound(p), NEW e \in Endpoint,
           e.next = n.ep.next, e.served = n.ep.served, e.deferred = n.ep.deferred,
           e.control = n.ep.control, e.reset = n.ep.reset, e.peer_reset = n.ep.peer_reset,
           e.pending \in {n.ep.pending, None}
    PROVE  LET m == [n EXCEPT !.port = p, !.ep = e]
           IN  Keeps(n, m) /\ m.port = p /\ m.ep = e
BY DEF Keeps, Well, Nodes

LEMMA PrepareSteps ==
    ASSUME NEW c \in Consoles, NEW n, Well(n)
    PROVE  /\ Keeps(n, PrepareBit(c, n)) \/ Asks(n, PrepareBit(c, n))
           /\ PrepareBit(c, n).port = n.port
<1> DEFINE m == PrepareBit(c, n)
           e == n.ep
           bits == IF n.port.bits = 0 THEN n.port.data ELSE <<Outgoing(n.port)>>
           request == Packet("request", e.next, bits)
           asking == [e EXCEPT !.next = @ + 1, !.pending = request, !.retries = 0]
           waiting == [e EXCEPT !.backoff = @ - 1]
<1>1. n.ep \in Endpoint /\ n.port \in Port /\ e.next \in Nat
  BY DEF Well, Nodes, Endpoint
<1>2. request \in Requests /\ request.seq = e.next
  <2>1. bits \in BitSeq
    BY <1>1, OutgoingBit, BitSeqFacts
  <2> HIDE DEF bits
  <2> QED
    BY <1>1, <2>1, ReplyIsHarmless DEF Packet
<1> HIDE DEF request
<1>3. CASE m = n
  BY <1>3, KeepsItself
<1>4. CASE e.backoff # 0 /\ m = [n EXCEPT !.ep.backoff = @ - 1]
  <2>1. waiting \in Endpoint /\ Alike(e, waiting) /\ waiting.pending = e.pending
    <3>1. e.backoff - 1 \in Nat
      BY <1>1, <1>4 DEF Endpoint
    <3> QED
      BY <1>1, <3>1, BackoffField
  <2>2. m = [n EXCEPT !.ep = waiting]
    BY <1>4 DEF Well, Nodes
  <2> HIDE DEF waiting
  <2> QED
    BY <2>1, <2>2, EndpointKeeps DEF Alike
<1>5. CASE ReadyForLink(c, e) /\ m = Send([n EXCEPT !.ep = asking], request)
  <2>1. /\ asking \in Endpoint
        /\ asking.next = e.next + 1 /\ asking.served = e.served
        /\ asking.deferred = e.deferred /\ asking.control = e.control
        /\ asking.reset = e.reset /\ asking.peer_reset = e.peer_reset
        /\ asking.pending = request
    <3> DEFINE e1 == [e EXCEPT !.next = @ + 1]
               e2 == [e1 EXCEPT !.pending = request]
    <3>1. /\ e1 \in Endpoint /\ e1.next = e.next + 1 /\ e1.served = e.served
          /\ e1.deferred = e.deferred /\ e1.control = e.control
          /\ e1.reset = e.reset /\ e1.peer_reset = e.peer_reset
      <4> DEFINE x == e.next + 1
      <4>1. x \in Nat /\ e \in Endpoint
        BY <1>1
      <4>2. e1 = [e EXCEPT !.next = x]
        OBVIOUS
      <4> HIDE DEF x, e, e1
      <4>3. /\ e1 \in Endpoint /\ e1.next = x /\ e1.served = e.served
            /\ e1.deferred = e.deferred /\ e1.control = e.control
            /\ e1.reset = e.reset /\ e1.peer_reset = e.peer_reset
        BY <4>1, <4>2, NextField
      <4> QED
        BY <4>3 DEF x
    <3>2. asking = [e2 EXCEPT !.retries = 0]
      OBVIOUS
    <3> HIDE DEF e1
    <3>3. e2 \in Endpoint /\ Alike(e1, e2) /\ e2.pending = request
      BY <1>2, <3>1, PendingField
    <3> HIDE DEF e2, asking
    <3> QED
      BY <3>1, <3>2, <3>3, RetriesField DEF Alike
  <2> DEFINE o == [n EXCEPT !.ep = asking]
  <2> HIDE DEF asking
  <2>2. Well(o) /\ o.ep = asking /\ o.out = n.out /\ o.port = n.port /\ o.fault = n.fault
    BY <2>1 DEF Well, Nodes
  <2>3. m = Send(o, request)
    BY <1>5
  <2> HIDE DEF o
  <2>4. /\ Well(m) /\ m.port = n.port /\ m.ep = asking /\ m.fault = n.fault
        /\ Range(m.out) = Range(n.out) \cup {request}
    BY <1>2, <2>2, <2>3, SendType DEF Packets
  <2>5. e.reset = None
    BY <1>5 DEF ReadyForLink
  <2> QED
    BY <1>2, <2>1, <2>4, <2>5 DEF Asks
<1> QED
  BY <1>3, <1>4, <1>5 DEF PrepareBit, request

LEMMA ConsumeType ==
    ASSUME NEW e \in Endpoint, e.answer # <<>> \/ e.response # <<>>
    PROVE  /\ Incoming(e) \in Bit
           /\ LET f == Consume(e)
              IN  /\ f \in Endpoint
                  /\ f.next = e.next /\ f.served = e.served /\ f.deferred = e.deferred
                  /\ f.control = e.control /\ f.reset = e.reset
                  /\ f.peer_reset = e.peer_reset /\ f.pending \in {e.pending, None}
<1>1. e.answer \in BitSeq /\ e.response \in BitSeq
  BY DEF Endpoint
<1>2. Incoming(e) \in Bit
  BY <1>1, BitSeqFacts DEF Incoming
<1> DEFINE g == Settle(e)
<1>3. g \in Endpoint /\ Alike(e, g) /\ g.pending = None
  <2> DEFINE h == Forget(e)
             last == IF e.pending = None THEN None ELSE e.pending.seq
  <2>1. h \in Endpoint /\ Alike(e, h) /\ h.pending = None
    BY ForgetKeeps
  <2>2. last \in Nat \cup {None}
    BY DEF Endpoint, Requests
  <2>3. g = [h EXCEPT !.completed = last]
    BY DEF Settle
  <2> HIDE DEF h, last, g
  <2> QED
    BY <2>1, <2>2, <2>3, CompletedField DEF Alike
<1> HIDE DEF g
<1>4. CASE Len(e.answer) > 1
  <2> DEFINE f == [e EXCEPT !.answer = Tail(e.answer)]
  <2>1. Tail(e.answer) \in BitSeq
    BY <1>1, <1>4, BitSeqFacts
  <2>2. f \in Endpoint /\ Alike(e, f) /\ f.pending = e.pending
    BY <2>1, AnswerField
  <2>3. Consume(e) = f
    BY <1>4 DEF Consume
  <2> HIDE DEF f
  <2> QED
    BY <1>2, <2>2, <2>3 DEF Alike
<1>5. CASE Len(e.answer) <= 1
  <2> DEFINE x == [g EXCEPT !.answer = <<>>]
             y == [g EXCEPT !.response = <<>>]
  <2>1. Consume(e) = x \/ Consume(e) = y
    BY <1>1, <1>5, BitSeqFacts DEF Consume, g
  <2>2. /\ x \in Endpoint /\ Alike(g, x) /\ x.pending = g.pending
        /\ y \in Endpoint /\ Alike(g, y) /\ y.pending = g.pending
    BY <1>3, BitSeqFacts, AnswerField, ResponseField
  <2> HIDE DEF x, y
  <2> QED
    BY <1>2, <1>3, <2>1, <2>2 DEF Alike
<1> QED
  BY <1>1, <1>4, <1>5, BitSeqFacts

LEMMA EdgeSteps ==
    ASSUME NEW c \in Consoles, NEW n, Well(n), n.port.active
    PROVE  Keeps(n, ClockEdge(c, n)) \/ Asks(n, ClockEdge(c, n))
<1> DEFINE asked == PrepareBit(c, n)
           p == Shift(asked.port, Incoming(asked.ep))
           e == Consume(asked.ep)
           moved == [asked EXCEPT !.port = p, !.ep = e]
<1>1. (Keeps(n, asked) \/ Asks(n, asked)) /\ asked.port = n.port
  BY PrepareSteps
<1>2. Well(asked)
  BY <1>1 DEF Keeps, Asks
<1>3. ClockEdge(c, n) = IF ~AnswerReady(asked) THEN asked
                        ELSE IF moved.port.active THEN moved ELSE ReleaseClock(moved)
  BY DEF ClockEdge
<1> HIDE DEF asked
<1>4. CASE AnswerReady(asked)
  <2>1. asked.ep \in Endpoint /\ asked.port \in Port /\ Sound(asked.port) /\ asked.port.active
    BY <1>1, <1>2 DEF Well, Nodes
  <2>2. Incoming(asked.ep) \in Bit
    BY <1>4, <2>1, ConsumeType DEF AnswerReady
  <2>3. p \in Port /\ Sound(p)
    BY <2>1, <2>2, ShiftSound DEF Sound
  <2>4. /\ e \in Endpoint
        /\ e.next = asked.ep.next /\ e.served = asked.ep.served
        /\ e.deferred = asked.ep.deferred /\ e.control = asked.ep.control
        /\ e.reset = asked.ep.reset /\ e.peer_reset = asked.ep.peer_reset
        /\ e.pending \in {asked.ep.pending, None}
    BY <1>4, <2>1, ConsumeType DEF AnswerReady
  <2> HIDE DEF p, e
  <2>5. Keeps(asked, moved)
    BY <1>2, <2>3, <2>4, BothKeep
  <2> HIDE DEF moved
  <2>6. Keeps(asked, ReleaseClock(moved))
    BY <2>5, ReleaseKeeps, KeepsChain DEF Keeps
  <2> QED
    BY <1>1, <1>3, <1>4, <2>5, <2>6, KeepsChain, AsksThenKeeps
<1> QED
  BY <1>1, <1>3, <1>4

-----------------------------------------------------------------------------
(* Serving a request: an idle port puts it off; any other port answers it, *)
(* and if that moves its bits the cached reply is the one to this request. *)
Answers(m, request) == m.ep.reply \in Replies /\ m.ep.reply.seq = request.seq

Served(n, m, request) ==
    /\ Well(m) /\ m.fault = n.fault
    /\ m.ep.next = n.ep.next /\ m.ep.served = n.ep.served
    /\ m.ep.control = n.ep.control /\ m.ep.reset = n.ep.reset
    /\ m.ep.peer_reset = n.ep.peer_reset
    /\ m.ep.pending \in {n.ep.pending, None}
    /\ Range(m.out) \subseteq Range(n.out) \cup Harmless
    /\ \/ ~n.port.active /\ m.ep.deferred = request /\ m.port.bits = n.port.bits
       \/ /\ n.port.active /\ m.ep.deferred = n.ep.deferred
          /\ m.port.bits = n.port.bits \/ Answers(m, request)

LEMMA ReplySteps ==
    ASSUME NEW n, Well(n), NEW packet \in Replies
    PROVE  /\ Keeps(n, Reply(n, packet)) /\ Reply(n, packet).port = n.port
           /\ Reply(n, packet).ep.reply = packet
<1> DEFINE e == [n.ep EXCEPT !.reply = packet]
           m == [n EXCEPT !.ep = e]
<1>1. n.ep \in Endpoint
  BY DEF Well, Nodes
<1>2. e \in Endpoint /\ Alike(n.ep, e) /\ e.pending = n.ep.pending /\ e.reply = packet
  BY <1>1, ReplyField
<1>3. Reply(n, packet) = Send(m, packet)
  BY DEF Reply
<1> HIDE DEF e
<1>4. Keeps(n, m) /\ m.port = n.port /\ m.ep = e
  BY <1>2, EndpointKeeps DEF Alike
<1> HIDE DEF m
<1>5. Keeps(m, Send(m, packet)) /\ Send(m, packet).port = m.port /\ Send(m, packet).ep = m.ep
  <2>1. packet \in Harmless /\ packet \in Packets /\ Well(m)
    BY <1>4 DEF Harmless, Packets, Keeps
  <2> QED
    BY <2>1, SendKeeps, SendType
<1> QED
  BY <1>2, <1>3, <1>4, <1>5, KeepsChain

LEMMA ClockedSteps ==
    ASSUME NEW n, Well(n), NEW request \in Requests
    PROVE  Keeps(n, Clocked(n, request)) /\ Answers(Clocked(n, request), request)
<1> DEFINE k == ClockedBy(n.port, request.bits)
           m == [n EXCEPT !.port = k.port]
           packet == Packet("response", request.seq, k.gave)
<1>1. /\ n.port \in Port /\ Sound(n.port)
      /\ request.seq \in Nat /\ request.bits \in BitSeq
  BY DEF Well, Nodes, Requests
<1>2. k.port \in Port /\ Sound(k.port) /\ k.gave \in BitSeq
  BY <1>1, ClockedByType
<1>3. packet \in Replies /\ packet.seq = request.seq
  <2> HIDE DEF k
  <2> QED
    BY <1>1, <1>2, ReplyIsHarmless DEF Packet
<1>4. Clocked(n, request) = Reply(m, packet)
  BY DEF Clocked
<1>5. Keeps(n, m)
  <2> HIDE DEF k
  <2> QED
    BY <1>2, PortKeeps
<1> HIDE DEF m, packet
<1>6. Keeps(m, Reply(m, packet)) /\ Reply(m, packet).ep.reply = packet
  BY <1>3, <1>5, ReplySteps DEF Keeps
<1> QED
  BY <1>3, <1>4, <1>5, <1>6, KeepsChain DEF Answers

LEMMA YieldKeeps ==
    ASSUME NEW c \in Consoles, NEW n, Well(n), Drives(n.port)
    PROVE  Keeps(n, Yield(c, n))
<1> DEFINE m == Demote(c, n)
           e1 == [m.ep EXCEPT !.pending = None]
           e == [e1 EXCEPT !.response = <<>>]
<1>1. Keeps(n, m)
  BY DemoteKeeps
<1>2. Yield(c, n) = [m EXCEPT !.ep = e]
  <2>1. m.ep \in Endpoint /\ m \in Nodes
    BY <1>1 DEF Keeps, Well, Nodes
  <2> HIDE DEF m
  <2>2. [m EXCEPT !.ep.pending = None, !.ep.response = <<>>] = [m EXCEPT !.ep = e]
    BY <2>1 DEF Nodes, Endpoint
  <2> QED
    BY <2>2 DEF Yield, m
<1> HIDE DEF m
<1>3. e1 \in Endpoint /\ Alike(m.ep, e1) /\ e1.pending = None
  BY <1>1, PendingField, ZenonT(30) DEF Keeps, Well, Nodes
<1> HIDE DEF e1
<1>4. e \in Endpoint /\ Alike(e1, e) /\ e.pending = e1.pending
  BY <1>3, BitSeqFacts, ResponseField
<1> HIDE DEF e
<1>5. Keeps(m, [m EXCEPT !.ep = e])
  <2>1. Well(m)
    BY <1>1 DEF Keeps
  <2> QED
    BY <1>3, <1>4, <2>1, EndpointKeeps DEF Alike
<1> QED
  BY <1>1, <1>2, <1>5, KeepsChain

LEMMA ServeSteps ==
    ASSUME NEW c \in Consoles, NEW n, Well(n), NEW request \in Requests
    PROVE  Served(n, Serve(c, n, request), request)
<1> DEFINE m == Serve(c, n, request)
<1>1. n.ep \in Endpoint /\ n.port \in Port /\ request.seq \in Nat /\ request.bits \in BitSeq
  BY DEF Well, Nodes, Requests
<1>2. CASE ~n.port.active
  <2> DEFINE e == [n.ep EXCEPT !.deferred = request]
  <2>1. /\ e \in Endpoint /\ e.next = n.ep.next /\ e.served = n.ep.served
        /\ e.control = n.ep.control /\ e.reset = n.ep.reset
        /\ e.peer_reset = n.ep.peer_reset /\ e.pending = n.ep.pending
        /\ e.deferred = request
    BY <1>1, DeferredField
  <2>2. m = [n EXCEPT !.ep = e]
    BY <1>2 DEF Serve, Well, Nodes
  <2> HIDE DEF e, m
  <2>3. /\ Well(m) /\ m.ep = e /\ m.port = n.port /\ m.fault = n.fault /\ m.out = n.out
    BY <2>1, <2>2 DEF Well, Nodes
  <2>4. Served(n, m, request)
    BY <1>2, <2>1, <2>3 DEF Served
  <2> QED
    BY <2>4 DEF m
<1>3. CASE n.port.active /\ n.port.internal /\ c = Host
  <2> DEFINE e == [n.ep EXCEPT !.busy = FALSE]
             o == [n EXCEPT !.ep = e]
             packet == Packet("denied", request.seq, request.bits)
  <2>1. e \in Endpoint /\ Alike(n.ep, e) /\ e.pending = n.ep.pending
    BY <1>1, BusyField
  <2>2. m = Reply(o, packet)
    <3>1. [n EXCEPT !.ep.busy = FALSE] = o
      BY DEF Well, Nodes
    <3> QED
      BY <1>3, <3>1 DEF Serve
  <2>3. packet \in Replies /\ packet.seq = request.seq
    BY <1>1, ReplyIsHarmless DEF Packet
  <2> HIDE DEF e, m, packet
  <2>4. Keeps(n, o) /\ o.port = n.port
    BY <2>1, EndpointKeeps DEF Alike
  <2> HIDE DEF o
  <2>5. Keeps(o, m) /\ m.ep.reply = packet
    BY <2>2, <2>3, <2>4, ReplySteps DEF Keeps
  <2>6. Keeps(n, m)
    BY <2>4, <2>5, KeepsChain
  <2>7. Served(n, m, request)
    BY <1>3, <2>3, <2>5, <2>6 DEF Served, Keeps, Answers
  <2> QED
    BY <2>7 DEF m
<1>4. CASE n.port.active /\ ~(n.port.internal /\ c = Host)
  <2> DEFINE o == IF n.port.internal THEN Yield(c, n) ELSE n
  <2>1. m = Clocked(o, request)
    BY <1>4 DEF Serve
  <2>2. Keeps(n, o)
    BY <1>4, YieldKeeps, KeepsItself DEF Drives
  <2> HIDE DEF o, m
  <2>3. Keeps(o, m) /\ Answers(m, request)
    BY <2>1, <2>2, ClockedSteps DEF Keeps
  <2>4. Keeps(n, m)
    BY <2>2, <2>3, KeepsChain
  <2>5. Served(n, m, request)
    BY <1>4, <2>3, <2>4 DEF Served, Keeps
  <2> QED
    BY <2>5 DEF m
<1> QED
  BY <1>2, <1>3, <1>4

-----------------------------------------------------------------------------
(* What one received packet does to the node of its receiver: nothing that *)
(* concerns requests and resets, or it is a request never served before,   *)
(* or a reset never seen before.                                           *)
NothingNew(n, m) ==
    /\ m.ep.served = n.ep.served /\ m.ep.deferred = n.ep.deferred
    /\ m.ep.peer_reset = n.ep.peer_reset /\ m.port.bits = n.port.bits

NewRequest(n, m, q) ==
    /\ q \in Requests /\ n.ep.served # q.seq
    /\ n.ep.served = None \/ q.seq = n.ep.served + 1
    /\ n.ep.deferred = None \/ q.seq = n.ep.deferred.seq
    /\ m.ep.served = q.seq /\ m.ep.peer_reset = n.ep.peer_reset
    /\ \/ m.ep.deferred = q /\ m.port.bits = n.port.bits
       \/ /\ m.ep.deferred = n.ep.deferred
          /\ m.port.bits = n.port.bits \/ Answers(m, q)

NewReset(n, m, q) ==
    /\ q \in Resets
    /\ n.ep.peer_reset = None \/ q.seq > n.ep.peer_reset
    /\ m.ep.peer_reset = q.seq /\ m.ep.served = None /\ m.ep.deferred = None
    /\ m.ep.pending = None /\ m.port.bits = n.port.bits

Received(n, m, q) ==
    /\ Well(m) /\ m.ep.next = n.ep.next /\ m.ep.control = n.ep.control
    /\ m.ep.pending \in {n.ep.pending, None}
    /\ \A p \in Range(m.out) :
          \/ p \in Range(n.out) \cup Harmless
          \/ p \in Acks /\ m.ep.peer_reset # None /\ p.seq <= m.ep.peer_reset
    /\ \/ m.ep.reset = n.ep.reset
       \/ q \in Acks /\ q.seq = n.ep.reset /\ m.ep.reset = None
    /\ NothingNew(n, m) \/ NewRequest(n, m, q) \/ NewReset(n, m, q)

LEMMA KeepsIsReceived ==
    ASSUME NEW n, NEW m, NEW q, Keeps(n, m), m.port.bits = n.port.bits
    PROVE  Received(n, m, q)
BY DEF Keeps, Received, NothingNew

LEMMA FaultIsReceived ==
    ASSUME NEW n, NEW q, Well(n), NEW why \in Faults
    PROVE  Received(n, [n EXCEPT !.fault = why], q)
BY DEF Received, NothingNew, Well, Nodes

LEMMA ReceiveRequestSteps ==
    ASSUME NEW c \in Consoles, NEW n, Well(n), NEW q \in Requests
    PROVE  Received(n, ReceiveRequest(c, n, q), q)
<1> DEFINE m == ReceiveRequest(c, n, q)
           e1 == [n.ep EXCEPT !.served = q.seq]
           e2 == [e1 EXCEPT !.reply = None]
           e3 == [e2 EXCEPT !.seen = TRUE]
           e == [e3 EXCEPT !.busy = TRUE]
           accepted == [n EXCEPT !.ep = e]
           fresh == /\ n.ep.served # q.seq
                    /\ n.ep.served = None \/ q.seq = n.ep.served + 1
                    /\ n.ep.deferred = None \/ q.seq = n.ep.deferred.seq
<1>1. n.ep \in Endpoint /\ q.seq \in Nat
  BY DEF Well, Nodes, Requests
<1>2. CASE m = n
  <2>1. Received(n, n, q)
    BY KeepsItself, KeepsIsReceived
  <2> QED
    BY <1>2, <2>1
<1>3. CASE n.ep.reply # None /\ m = Send(n, n.ep.reply)
  <2>1. n.ep.reply \in Harmless
    BY <1>1, <1>3 DEF Endpoint, Harmless
  <2>2. Keeps(n, Send(n, n.ep.reply)) /\ Send(n, n.ep.reply).port = n.port
    BY <2>1, SendKeeps
  <2>3. Received(n, Send(n, n.ep.reply), q)
    BY <2>2, KeepsIsReceived
  <2> QED
    BY <1>3, <2>3
<1>4. CASE \E why \in Faults : m = [n EXCEPT !.fault = why]
  <2>1. PICK why \in Faults : m = [n EXCEPT !.fault = why]
    BY <1>4
  <2>2. Received(n, [n EXCEPT !.fault = why], q)
    BY FaultIsReceived
  <2> QED
    BY <2>1, <2>2
<1>5. CASE fresh /\ m = Serve(c, accepted, q)
  <2>1. /\ e1 \in Endpoint /\ e1.next = n.ep.next /\ e1.served = q.seq
        /\ e1.deferred = n.ep.deferred /\ e1.control = n.ep.control /\ e1.reset = n.ep.reset
        /\ e1.peer_reset = n.ep.peer_reset /\ e1.pending = n.ep.pending
    BY <1>1, ServedField
  <2> HIDE DEF e1
  <2>2. e2 \in Endpoint /\ Alike(e1, e2) /\ e2.pending = e1.pending
    BY <2>1, ReplyField
  <2> HIDE DEF e2
  <2>3. e3 \in Endpoint /\ Alike(e2, e3) /\ e3.pending = e2.pending
    BY <2>2, SeenField
  <2> HIDE DEF e3
  <2>4. e \in Endpoint /\ Alike(e3, e) /\ e.pending = e3.pending
    BY <2>3, BusyField
  <2> HIDE DEF e
  <2>5. /\ Well(accepted) /\ accepted.ep = e /\ accepted.port = n.port
        /\ accepted.out = n.out
    BY <2>4 DEF Well, Nodes
  <2> HIDE DEF accepted, m
  <2>6. Served(accepted, m, q)
    BY <1>5, <2>5, ServeSteps
  <2>7. /\ e.next = n.ep.next /\ e.served = q.seq /\ e.deferred = n.ep.deferred
        /\ e.control = n.ep.control /\ e.reset = n.ep.reset
        /\ e.peer_reset = n.ep.peer_reset /\ e.pending = n.ep.pending
    BY <2>1, <2>2, <2>3, <2>4 DEF Alike
  <2>8. NewRequest(n, m, q)
    BY <1>5, <2>5, <2>6, <2>7 DEF Served, NewRequest
  <2>9. Received(n, m, q)
    BY <2>5, <2>6, <2>7, <2>8 DEF Served, Received
  <2> QED
    BY <2>9 DEF m
<1>6. m = n \/ (n.ep.reply # None /\ m = Send(n, n.ep.reply))
      \/ (\E why \in Faults : m = [n EXCEPT !.fault = why])
      \/ (fresh /\ m = Serve(c, accepted, q))
  <2>1. "out of order" \in Faults /\ "multiple in flight" \in Faults
    BY DEF Faults
  <2>2. accepted = [n EXCEPT !.ep = [n.ep EXCEPT !.served = q.seq, !.reply = None,
                                                 !.seen = TRUE, !.busy = TRUE]]
    OBVIOUS
  <2> HIDE DEF accepted
  <2> QED
    BY <2>1, <2>2 DEF ReceiveRequest
<1> QED
  BY <1>2, <1>3, <1>4, <1>5, <1>6

(* A reply to the side's own request touches nothing of the peer's.        *)
LEMMA ReceiveReplySteps ==
    ASSUME NEW c \in Consoles, NEW n, Well(n), NEW q \in Replies
    PROVE  Received(n, ReceiveReply(c, n, q), q)
<1> DEFINE m == ReceiveReply(c, n, q)
           o == IF Drives(n.port) THEN Demote(c, n) ELSE n
           denied == [Forget(o.ep) EXCEPT !.response = <<>>, !.answer = <<>>,
                                          !.backoff = Backoff]
           waiting == [Forget(n.ep) EXCEPT !.response = <<>>, !.backoff = Backoff]
           answered == [n.ep EXCEPT !.answer = q.bits]
           responded == [n.ep EXCEPT !.response = q.bits]
<1>1. n.ep \in Endpoint /\ n \in Nodes /\ q.bits \in BitSeq /\ <<>> \in BitSeq /\ Backoff \in Nat
  BY EndpointAssumption, BitSeqFacts DEF Well, Nodes, Replies
<1>2. CASE m = n
  <2>1. Received(n, n, q)
    BY KeepsItself, KeepsIsReceived
  <2> QED
    BY <1>2, <2>1
<1>3. CASE m = [n EXCEPT !.fault = "type mismatch"]
  <2>1. Received(n, [n EXCEPT !.fault = "type mismatch"], q)
    BY FaultIsReceived DEF Faults
  <2> QED
    BY <1>3, <2>1
<1>4. CASE m = [o EXCEPT !.ep = denied]
  <2>1. Keeps(n, o) /\ o.port.bits = n.port.bits
    BY DemoteKeeps, KeepsItself
  <2> HIDE DEF o, m
  <2>2. o.ep \in Endpoint /\ Well(o)
    BY <2>1 DEF Keeps, Well, Nodes
  <2> DEFINE e0 == Forget(o.ep)
             e1 == [e0 EXCEPT !.response = <<>>]
             e2 == [e1 EXCEPT !.answer = <<>>]
  <2>3. e0 \in Endpoint /\ Alike(o.ep, e0) /\ e0.pending = None
    BY <2>2, ForgetKeeps
  <2>4. denied = [e2 EXCEPT !.backoff = Backoff]
    OBVIOUS
  <2> HIDE DEF e0
  <2>5. e1 \in Endpoint /\ Alike(e0, e1) /\ e1.pending = e0.pending
    BY <1>1, <2>3, ResponseField
  <2> HIDE DEF e1
  <2>6. e2 \in Endpoint /\ Alike(e1, e2) /\ e2.pending = e1.pending
    BY <1>1, <2>5, AnswerField
  <2> HIDE DEF e2, denied
  <2>7. denied \in Endpoint /\ Alike(e2, denied) /\ denied.pending = e2.pending
    BY <1>1, <2>4, <2>6, BackoffField
  <2>8. Keeps(o, m) /\ m.port = o.port
    BY <1>4, <2>2, <2>3, <2>5, <2>6, <2>7, EndpointKeeps DEF Alike
  <2>9. Received(n, m, q)
    BY <2>1, <2>8, KeepsChain, KeepsIsReceived
  <2> QED
    BY <2>9 DEF m
<1>5. CASE m = [n EXCEPT !.ep = waiting]
  <2> DEFINE e0 == Forget(n.ep)
             e1 == [e0 EXCEPT !.response = <<>>]
  <2>1. e0 \in Endpoint /\ Alike(n.ep, e0) /\ e0.pending = None
    BY <1>1, ForgetKeeps
  <2>2. waiting = [e1 EXCEPT !.backoff = Backoff]
    OBVIOUS
  <2> HIDE DEF e0
  <2>3. e1 \in Endpoint /\ Alike(e0, e1) /\ e1.pending = e0.pending
    BY <1>1, <2>1, ResponseField
  <2> HIDE DEF e1, waiting, m
  <2>4. waiting \in Endpoint /\ Alike(e1, waiting) /\ waiting.pending = e1.pending
    BY <1>1, <2>2, <2>3, BackoffField
  <2>5. Keeps(n, m) /\ m.port = n.port
    BY <1>5, <2>1, <2>3, <2>4, EndpointKeeps DEF Alike
  <2>6. Received(n, m, q)
    BY <2>5, KeepsIsReceived
  <2> QED
    BY <2>6 DEF m
<1>6. CASE m = [n EXCEPT !.ep = answered] \/ m = [n EXCEPT !.ep = responded]
  <2>1. answered \in Endpoint /\ Alike(n.ep, answered) /\ answered.pending = n.ep.pending
    BY <1>1, AnswerField
  <2>2. responded \in Endpoint /\ Alike(n.ep, responded) /\ responded.pending = n.ep.pending
    BY <1>1, ResponseField
  <2> HIDE DEF answered, responded, m
  <2>3. /\ Keeps(n, [n EXCEPT !.ep = answered])
        /\ [n EXCEPT !.ep = answered].port = n.port
    BY <2>1, EndpointKeeps DEF Alike
  <2>4. /\ Keeps(n, [n EXCEPT !.ep = responded])
        /\ [n EXCEPT !.ep = responded].port = n.port
    BY <2>2, EndpointKeeps DEF Alike
  <2>5. Received(n, m, q)
    BY <1>6, <2>3, <2>4, KeepsIsReceived
  <2> QED
    BY <2>5 DEF m
<1>7. /\ [n EXCEPT !.ep.answer = q.bits] = [n EXCEPT !.ep = answered]
      /\ [n EXCEPT !.ep.response = q.bits] = [n EXCEPT !.ep = responded]
  BY <1>1 DEF Nodes
<1> QED
  <2> HIDE DEF denied, waiting, answered, responded, o
  <2>1. \/ m = n \/ m = [n EXCEPT !.fault = "type mismatch"]
        \/ m = [o EXCEPT !.ep = denied] \/ m = [n EXCEPT !.ep = waiting]
        \/ m = [n EXCEPT !.ep = answered] \/ m = [n EXCEPT !.ep = responded]
    BY <1>7, Zenon DEF ReceiveReply, denied, waiting, o
  <2> QED
    BY <1>2, <1>3, <1>4, <1>5, <1>6, <2>1

LEMMA ReceiveResetSteps ==
    ASSUME NEW n, Well(n), NEW q \in Resets
    PROVE  Received(n, ReceiveReset(n, q), q)
<1> DEFINE stale == IF n.ep.peer_reset = None THEN FALSE ELSE q.seq <= n.ep.peer_reset
           a == Abandon(n.ep)
           e == [a EXCEPT !.peer_reset = q.seq]
           o == [n EXCEPT !.ep = e]
           ack == Packet("reset_ack", q.seq, <<>>)
           m == ReceiveReset(n, q)
<1>1. /\ n.ep \in Endpoint /\ q.seq \in Nat /\ n.ep.peer_reset \in Nat \cup {None}
      /\ None \notin Nat
  BY EndpointAssumption DEF Well, Nodes, Resets, Endpoint
<1>2. ack \in Acks /\ ack \in Packets /\ ack.seq = q.seq
  BY <1>1, BitSeqFacts, ReplyIsHarmless DEF Packet, Packets
<1>3. m = Send(IF stale THEN n ELSE o, ack)
  BY DEF ReceiveReset
<1> HIDE DEF ack, m
<1>4. CASE stale
  <2>1. /\ Well(m) /\ m.port = n.port /\ m.ep = n.ep
        /\ Range(m.out) = Range(n.out) \cup {ack}
    BY <1>2, <1>3, <1>4, SendType
  <2>2. n.ep.peer_reset # None /\ q.seq <= n.ep.peer_reset
    BY <1>4
  <2>3. Received(n, m, q)
    BY <1>2, <2>1, <2>2 DEF Received, NothingNew
  <2> QED
    BY <2>3 DEF m
<1>5. CASE ~stale
  <2>1. /\ a \in Endpoint /\ a.next = n.ep.next /\ a.control = n.ep.control
        /\ a.reset = n.ep.reset /\ a.pending = None /\ a.deferred = None
        /\ a.served = None
    BY <1>1, AbandonType
  <2> HIDE DEF a
  <2>2. /\ e \in Endpoint /\ e.next = a.next /\ e.served = a.served
        /\ e.deferred = a.deferred /\ e.control = a.control /\ e.reset = a.reset
        /\ e.peer_reset = q.seq /\ e.pending = a.pending
    BY <1>1, <2>1, PeerResetField
  <2> HIDE DEF e
  <2>3. Well(o) /\ o.ep = e /\ o.port = n.port /\ o.out = n.out
    BY <2>2 DEF Well, Nodes
  <2>4. n.ep.peer_reset = None \/ q.seq > n.ep.peer_reset
    BY <1>1, <1>5
  <2> HIDE DEF o, stale
  <2>5. /\ Well(m) /\ m.port = n.port /\ m.ep = e
        /\ Range(m.out) = Range(n.out) \cup {ack}
    BY <1>2, <1>3, <1>5, <2>3, SendType
  <2>6. NewReset(n, m, q)
    BY <2>1, <2>2, <2>4, <2>5 DEF NewReset
  <2>7. m.ep.peer_reset # None /\ ack.seq <= m.ep.peer_reset
    BY <1>1, <1>2, <2>2, <2>5
  <2>8. Received(n, m, q)
    BY <1>2, <2>1, <2>2, <2>5, <2>6, <2>7 DEF Received
  <2> QED
    BY <2>8 DEF m
<1> QED
  BY <1>4, <1>5

LEMMA ReceiveSteps ==
    ASSUME NEW c \in Consoles, NEW n, Well(n), NEW q \in Packets
    PROVE  Received(n, Receive(c, n, q), q)
<1>1. n.ep \in Endpoint /\ n \in Nodes
  BY DEF Well, Nodes
<1>2. CASE q \in Requests
  <2>1. Receive(c, n, q) = ReceiveRequest(c, n, q)
    BY <1>2 DEF Receive, Requests
  <2> QED
    BY <1>2, <2>1, ReceiveRequestSteps
<1>3. CASE q \in Replies
  <2>1. Receive(c, n, q) = ReceiveReply(c, n, q)
    BY <1>3 DEF Receive, Replies
  <2> QED
    BY <1>3, <2>1, ReceiveReplySteps
<1>4. CASE q \in Resets
  <2>1. Receive(c, n, q) = ReceiveReset(n, q)
    BY <1>4 DEF Receive, Resets
  <2> QED
    BY <1>4, <2>1, ReceiveResetSteps
<1>5. CASE q \in Acks
  <2> DEFINE e0 == [n.ep EXCEPT !.reset = None]
             e == [e0 EXCEPT !.reset_retries = 0]
             m == [n EXCEPT !.ep = e]
  <2>1. Receive(c, n, q) = IF q.seq = n.ep.reset THEN m ELSE n
    BY <1>1, <1>5 DEF Receive, Acks, Nodes
  <2>2. /\ e0 \in Endpoint /\ e0.next = n.ep.next /\ e0.served = n.ep.served
        /\ e0.deferred = n.ep.deferred /\ e0.control = n.ep.control /\ e0.reset = None
        /\ e0.peer_reset = n.ep.peer_reset /\ e0.pending = n.ep.pending
    BY <1>1, ResetField
  <2> HIDE DEF e0
  <2>3. e \in Endpoint /\ Alike(e0, e) /\ e.pending = e0.pending
    BY <2>2, ResetRetriesField
  <2> HIDE DEF e
  <2>4. Well(m) /\ m.ep = e /\ m.port = n.port /\ m.out = n.out
    BY <2>3 DEF Well, Nodes
  <2> HIDE DEF m
  <2>5. CASE q.seq = n.ep.reset
    BY <1>5, <2>1, <2>2, <2>3, <2>4, <2>5 DEF Received, NothingNew, Alike
  <2>6. CASE q.seq # n.ep.reset
    <3>1. Received(n, n, q)
      BY KeepsItself, KeepsIsReceived
    <3> QED
      BY <2>1, <2>6, <3>1
  <2> QED
    BY <2>5, <2>6
<1>6. CASE q \in Others_
  <2> DEFINE idle == [n.ep EXCEPT !.busy = FALSE]
             o == [n EXCEPT !.ep = idle]
             ack == Packet("commit_ack", q.seq, <<>>)
             f0 == [n.ep EXCEPT !.commit = None]
             f == [f0 EXCEPT !.commit_retries = 0]
             m == [n EXCEPT !.ep = f]
  <2>1. q.seq \in Nat /\ ack \in Harmless
    BY <1>6, BitSeqFacts, ReplyIsHarmless DEF Others_
  <2>2. \/ Receive(c, n, q) = o \/ Receive(c, n, q) = Send(o, ack)
        \/ Receive(c, n, q) = n \/ Receive(c, n, q) = m
    BY <1>1, <1>6 DEF Receive, Others_, Nodes
  <2>3. idle \in Endpoint /\ Alike(n.ep, idle) /\ idle.pending = n.ep.pending
    BY <1>1, BusyField
  <2>4. f0 \in Endpoint /\ Alike(n.ep, f0) /\ f0.pending = n.ep.pending
    BY <1>1, CommitField
  <2> HIDE DEF f0, idle, ack
  <2>5. f \in Endpoint /\ Alike(f0, f) /\ f.pending = f0.pending
    BY <2>4, CommitRetriesField
  <2> HIDE DEF f
  <2>6. Keeps(n, o) /\ o.port = n.port
    BY <2>3, EndpointKeeps DEF Alike
  <2>7. Keeps(n, m) /\ m.port = n.port
    BY <2>4, <2>5, EndpointKeeps DEF Alike
  <2> HIDE DEF o, m
  <2>8. Keeps(o, Send(o, ack)) /\ Send(o, ack).port = o.port
    BY <2>1, <2>6, SendKeeps DEF Keeps
  <2>9. /\ Received(n, o, q) /\ Received(n, m, q) /\ Received(n, n, q)
        /\ Received(n, Send(o, ack), q)
    BY <2>6, <2>7, <2>8, KeepsChain, KeepsItself, KeepsIsReceived
  <2> QED
    BY <2>2, <2>9
<1> QED
  BY <1>2, <1>3, <1>4, <1>5, <1>6 DEF Packets, Harmless

-----------------------------------------------------------------------------
(* The end of a poll serves the deferred request or does nothing.          *)
Ended(n, m) ==
    /\ Well(m) /\ m.ep.next = n.ep.next /\ m.ep.served = n.ep.served
    /\ m.ep.control = n.ep.control /\ m.ep.reset = n.ep.reset
    /\ m.ep.peer_reset = n.ep.peer_reset
    /\ m.ep.pending \in {n.ep.pending, None}
    /\ Range(m.out) \subseteq Range(n.out) \cup Harmless
    /\ \/ m = n
       \/ /\ n.ep.deferred # None /\ m.ep.deferred = None
          /\ m.port.bits = n.port.bits \/ Answers(m, n.ep.deferred)

LEMMA ServeDeferredSteps ==
    ASSUME NEW c \in Consoles, NEW n, Well(n)
    PROVE  Ended(n, ServeDeferred(c, n))
<1> DEFINE e == [n.ep EXCEPT !.deferred = None]
           o == [n EXCEPT !.ep = e]
           m == Serve(c, o, n.ep.deferred)
<1>1. n.ep \in Endpoint /\ n \in Nodes
  BY DEF Well, Nodes
<1>2. CASE n.fault = None /\ n.ep.deferred # None /\ Follows(n.port)
  <2>1. ServeDeferred(c, n) = m /\ n.ep.deferred \in Requests /\ n.port.active
    <3>1. [n EXCEPT !.ep.deferred = None] = o
      BY <1>1 DEF Nodes
    <3>2. n.ep.deferred \in Requests
      BY <1>1, <1>2 DEF Endpoint
    <3> HIDE DEF o
    <3> QED
      BY <1>2, <3>1, <3>2 DEF ServeDeferred, Follows
  <2>2. /\ e \in Endpoint /\ e.next = n.ep.next /\ e.served = n.ep.served
        /\ e.control = n.ep.control /\ e.reset = n.ep.reset
        /\ e.peer_reset = n.ep.peer_reset /\ e.pending = n.ep.pending
        /\ e.deferred = None
    BY <1>1, DeferredField
  <2> HIDE DEF e
  <2>3. Well(o) /\ o.ep = e /\ o.port = n.port /\ o.out = n.out
    BY <2>2 DEF Well, Nodes
  <2> HIDE DEF o
  <2>4. Served(o, m, n.ep.deferred)
    BY <2>1, <2>3, ServeSteps
  <2> HIDE DEF m
  <2> QED
    BY <1>2, <2>1, <2>2, <2>3, <2>4 DEF Served, Ended
<1>3. CASE ~(n.fault = None /\ n.ep.deferred # None /\ Follows(n.port))
  <2>1. ServeDeferred(c, n) = n
    BY <1>3 DEF ServeDeferred
  <2> QED
    BY <2>1 DEF Ended
<1> QED
  BY <1>2, <1>3

-----------------------------------------------------------------------------
(* The inductive invariant. Requests on their way to a side are newer than *)
(* what it has clocked, unless it remembers the last one it has served;    *)
(* what it forgets, it forgets through a reset, and while a reset waits for*)
(* its acknowledgement no request is on its way in either direction.       *)
Entry == [seq : Nat, gave : BitSeq, holds : Byte]

DeliveryTypes ==
    /\ port \in [Consoles -> Port]
    /\ \A c \in Consoles : Sound(port[c])
    /\ ep \in [Consoles -> Endpoint]
    /\ wire \in [Consoles -> Seq(Packets)]
    /\ up \in [Consoles -> BOOLEAN]
    /\ log \in [Consoles -> Seq(Entry)]

\* The requests that may still reach side c, and those it has clocked.
RequestsTo(c) ==
    {p \in Range(wire[c]) \cup ({ep[Peer(c)].pending} \ {None}) : p \in Requests}

Past(c) == {log[c][i].seq : i \in DOMAIN log[c]}

\* A side's memory of what it has been asked covers what it has clocked.
Tidy(e, past) ==
    /\ e.served # None => \A s \in past : s <= e.served
    /\ e.deferred # None => /\ e.served = e.deferred.seq
                            /\ \A s \in past : s < e.deferred.seq

Numbered ==
    \A c \in Consoles :
        /\ \A p \in RequestsTo(c) : p.seq < ep[Peer(c)].next
        /\ \A s \in Past(c) : s < ep[Peer(c)].next
        /\ ep[c].deferred # None => ep[c].deferred.seq < ep[Peer(c)].next

Remembered == \A c \in Consoles : up[c] => Tidy(ep[c], Past(c))

NewerAfterReset ==
    \A c \in Consoles :
        up[c] /\ ep[c].served = None =>
            \A p \in RequestsTo(c), s \in Past(c) : s < p.seq

QuietWhileReset ==
    \A c \in Consoles :
        ep[c].reset # None => \A d \in Consoles : RequestsTo(d) = {}

MarkersInOrder ==
    \A c \in Consoles :
        /\ ep[c].reset # None => ep[c].control = ep[c].reset + 1
        /\ ep[c].reset = None /\ ep[c].control > 0 =>
              /\ ep[Peer(c)].peer_reset # None
              /\ ep[c].control <= ep[Peer(c)].peer_reset + 1
        /\ \A p \in Range(wire[Peer(c)]) : p \in Resets => p.seq < ep[c].control
        /\ \A p \in Range(wire[c]) :
              p \in Acks => /\ ep[Peer(c)].peer_reset # None
                            /\ p.seq <= ep[Peer(c)].peer_reset

DeliveryInv ==
    /\ DeliveryTypes /\ Numbered /\ Remembered /\ NewerAfterReset
    /\ QuietWhileReset /\ MarkersInOrder /\ ClockedOnce

-----------------------------------------------------------------------------
(* What any step of side c does, in the terms of the invariant.            *)
Alone(c) ==
    /\ port'[Peer(c)] = port[Peer(c)] /\ ep'[Peer(c)] = ep[Peer(c)]
    /\ up'[Peer(c)] = up[Peer(c)] /\ log'[Peer(c)] = log[Peer(c)]
    /\ Range(wire'[c]) \subseteq Range(wire[c])
    /\ up'[c] => up[c]

Asking(c) ==
    /\ \/ ep'[c].next = ep[c].next
       \/ /\ ep'[c].next = ep[c].next + 1
          /\ \A d \in Consoles : ep[d].reset = None
    /\ \A p \in Range(wire'[Peer(c)]) \cup ({ep'[c].pending} \ {None}) :
          p \in Requests => \/ p \in RequestsTo(Peer(c))
                            \/ p.seq = ep[c].next /\ ep'[c].next # ep[c].next

Marking(c) ==
    /\ \/ ep'[c].control = ep[c].control /\ ep'[c].reset = ep[c].reset
       \/ /\ ep'[c].control = ep[c].control /\ ep[c].reset # None
          /\ ep'[c].reset = None
          /\ ep[Peer(c)].peer_reset # None /\ ep[c].reset <= ep[Peer(c)].peer_reset
       \/ /\ ep'[c].control = ep[c].control + 1 /\ ep'[c].reset = ep[c].control
          /\ \A d \in Consoles : RequestsTo(d) = {}
          /\ ep'[c].next = ep[c].next
    /\ \/ ep'[c].peer_reset = ep[c].peer_reset
       \/ /\ ep'[c].peer_reset # None
          /\ ep[c].peer_reset = None \/ ep[c].peer_reset <= ep'[c].peer_reset
    /\ \A p \in Range(wire'[Peer(c)]) :
          /\ p \in Resets => p \in Range(wire[Peer(c)]) \/ p.seq < ep'[c].control
          /\ p \in Acks => \/ p \in Range(wire[Peer(c)])
                           \/ /\ ep'[c].peer_reset # None
                              /\ p.seq <= ep'[c].peer_reset

Clocking(c) ==
    /\ \/ log'[c] = log[c]
       \/ \E x \in Entry : /\ log'[c] = Append(log[c], x)
                           /\ x.seq < ep[Peer(c)].next
                           /\ \A s \in Past(c) : s < x.seq
    /\ \/ ep'[c].deferred \in {ep[c].deferred, None}
       \/ ep'[c].deferred.seq < ep[Peer(c)].next
    /\ up'[c] => Tidy(ep'[c], Past(c)')
    /\ up'[c] /\ ep'[c].served = None =>
          /\ log'[c] = log[c]
          /\ ep[c].served = None \/ RequestsTo(c) = {}

Moves(c) ==
    DeliveryTypes' /\ Alone(c) /\ Asking(c) /\ Marking(c) /\ Clocking(c)

LEMMA LogGrows ==
    ASSUME NEW c \in Consoles, DeliveryTypes, NEW x \in Entry,
           log'[c] = Append(log[c], x)
    PROVE  /\ Past(c)' = Past(c) \cup {x.seq}
           /\ /\ \A s \in Past(c) : s < x.seq
              /\ \A i, j \in DOMAIN log[c] : i < j => log[c][i].seq < log[c][j].seq
              => \A i, j \in DOMAIN log'[c] : i < j => log'[c][i].seq < log'[c][j].seq
<1> DEFINE l == log[c]
           m == log'[c]
<1>1. l \in Seq(Entry)
  BY DEF DeliveryTypes
<1>2. m = Append(l, x)
  OBVIOUS
<1>3. Past(c)' = {m[i].seq : i \in DOMAIN m} /\ Past(c) = {l[i].seq : i \in DOMAIN l}
  BY DEF Past
<1> HIDE DEF l, m
<1>4. /\ DOMAIN l = 1..Len(l) /\ DOMAIN m = 1..(Len(l) + 1) /\ Len(l) \in Nat
      /\ m[Len(l) + 1] = x /\ \A i \in 1..Len(l) : m[i] = l[i]
  BY <1>1, <1>2
<1>5. {m[i].seq : i \in DOMAIN m} = {l[i].seq : i \in DOMAIN l} \cup {x.seq}
  BY <1>4
<1>6. ASSUME \A s \in {l[i].seq : i \in DOMAIN l} : s < x.seq,
             \A i, j \in DOMAIN l : i < j => l[i].seq < l[j].seq,
             NEW i \in DOMAIN m, NEW j \in DOMAIN m, i < j
      PROVE  m[i].seq < m[j].seq
  <2>1. i \in DOMAIN l /\ m[i] = l[i]
    BY <1>4, <1>6
  <2>2. CASE j \in DOMAIN l
    BY <1>4, <1>6, <2>1, <2>2
  <2>3. CASE j = Len(l) + 1
    BY <1>4, <1>6, <2>1, <2>3
  <2> QED
    BY <1>4, <2>2, <2>3
<1> QED
  BY <1>3, <1>5, <1>6 DEF l, m

LEMMA MovesKeepInv ==
    ASSUME NEW c \in Consoles, DeliveryInv, Moves(c)
    PROVE  DeliveryInv'
<1> DEFINE d == Peer(c)
<1>1. /\ d \in Consoles /\ d # c /\ Peer(d) = c /\ \A x \in Consoles : x = c \/ x = d
  BY SideFacts
<1>2. /\ DeliveryTypes /\ DeliveryTypes'
      /\ Alone(c) /\ Asking(c) /\ Marking(c) /\ Clocking(c)
      /\ None \notin Nat
  BY EndpointAssumption DEF DeliveryInv, Moves
<1> HIDE DEF d
<1>3. /\ ep[c] \in Endpoint /\ ep[d] \in Endpoint /\ ep'[c] \in Endpoint
      /\ ep'[d] = ep[d]
  BY <1>1, <1>2 DEF DeliveryTypes, Alone, d
<1>4. /\ ep[c].next \in Nat /\ ep[d].next \in Nat /\ ep'[c].next \in Nat
      /\ ep[c].control \in Nat /\ ep[d].control \in Nat /\ ep'[c].control \in Nat
      /\ ep[c].reset \in Nat \cup {None} /\ ep[d].reset \in Nat \cup {None}
      /\ ep'[c].reset \in Nat \cup {None}
      /\ ep[c].peer_reset \in Nat \cup {None} /\ ep[d].peer_reset \in Nat \cup {None}
      /\ ep'[c].peer_reset \in Nat \cup {None}
      /\ ep[c].next <= ep'[c].next
  BY <1>2, <1>3 DEF Endpoint, Asking
<1>5. \A x \in Consoles : \A p \in RequestsTo(x) : p \in Requests /\ p.seq \in Nat
  BY DEF RequestsTo, Requests
<1>6. RequestsTo(c)' \subseteq RequestsTo(c)
  BY <1>1, <1>2, <1>3 DEF RequestsTo, Alone, d
<1>7. \A p \in RequestsTo(d)' : \/ p \in RequestsTo(d)
                                \/ p.seq = ep[c].next /\ ep'[c].next # ep[c].next
  BY <1>1, <1>2 DEF RequestsTo, Asking, d
<1>8. Past(d)' = Past(d)
  BY <1>2 DEF Past, Alone, d
<1>9. \/ log'[c] = log[c] /\ Past(c)' = Past(c)
      \/ \E x \in Entry : /\ log'[c] = Append(log[c], x) /\ Past(c)' = Past(c) \cup {x.seq}
                          /\ x.seq < ep[d].next /\ \A s \in Past(c) : s < x.seq
  <2>1. CASE log'[c] = log[c]
    BY <2>1 DEF Past
  <2>2. CASE log'[c] # log[c]
    BY <1>2, <2>2, LogGrows DEF Clocking, d
  <2> QED
    BY <2>1, <2>2
<1>10. \A x \in Consoles : \A s \in Past(x) : s \in Nat
  <2> SUFFICES ASSUME NEW x \in Consoles, NEW i \in DOMAIN log[x] PROVE log[x][i].seq \in Nat
    BY DEF Past
  <2>1. log[x] \in Seq(Entry)
    BY <1>2 DEF DeliveryTypes
  <2>2. log[x][i] \in Entry
    BY <2>1
  <2> QED
    BY <2>2 DEF Entry
<1>11. Numbered'
  <2>1. \A p \in RequestsTo(c)' : p.seq < ep'[d].next
    BY <1>1, <1>3, <1>6 DEF DeliveryInv, Numbered, d
  <2>2. \A s \in Past(c)' : s < ep'[d].next
    BY <1>1, <1>3, <1>9 DEF DeliveryInv, Numbered, d
  <2>3. ep'[c].deferred # None => ep'[c].deferred.seq < ep'[d].next
    BY <1>1, <1>2, <1>3 DEF DeliveryInv, Numbered, Clocking, d
  <2>4. \A p \in RequestsTo(d)' : p.seq < ep'[c].next
    <3> SUFFICES ASSUME NEW p \in RequestsTo(d)' PROVE p.seq < ep'[c].next
      OBVIOUS
    <3>1. CASE p \in RequestsTo(d)
      BY <1>1, <1>4, <1>5, <3>1 DEF DeliveryInv, Numbered
    <3>2. CASE p.seq = ep[c].next /\ ep'[c].next # ep[c].next
      BY <1>4, <3>2
    <3> QED
      BY <1>7, <3>1, <3>2
  <2>5. \A s \in Past(d)' : s < ep'[c].next
    BY <1>1, <1>4, <1>8, <1>10 DEF DeliveryInv, Numbered
  <2>6. ep'[d].deferred # None => ep'[d].deferred.seq < ep'[c].next
    <3>1. ep[d].deferred # None => ep[d].deferred.seq \in Nat
      BY <1>3 DEF Endpoint, Requests
    <3> QED
      BY <1>1, <1>3, <1>4, <3>1 DEF DeliveryInv, Numbered
  <2> QED
    BY <1>1, <2>1, <2>2, <2>3, <2>4, <2>5, <2>6 DEF Numbered, d
<1>12. Remembered'
  <2>1. up'[c] => Tidy(ep'[c], Past(c)')
    BY <1>2 DEF Clocking
  <2>2. up'[d] => Tidy(ep'[d], Past(d)')
    BY <1>1, <1>2, <1>3, <1>8 DEF DeliveryInv, Remembered, Alone, d
  <2> QED
    BY <1>1, <2>1, <2>2 DEF Remembered
<1>13. NewerAfterReset'
  <2>1. ASSUME up'[c], ep'[c].served = None, NEW p \in RequestsTo(c)', NEW s \in Past(c)'
        PROVE  s < p.seq
    <3>1. /\ log'[c] = log[c] /\ Past(c)' = Past(c)
          /\ ep[c].served = None \/ RequestsTo(c) = {}
      BY <1>2, <2>1 DEF Clocking, Past
    <3> QED
      BY <1>2, <1>6, <2>1, <3>1 DEF DeliveryInv, NewerAfterReset, Alone
  <2>2. ASSUME up'[d], ep'[d].served = None, NEW p \in RequestsTo(d)', NEW s \in Past(d)'
        PROVE  s < p.seq
    <3>1. up[d] /\ ep[d].served = None /\ s \in Past(d)
      BY <1>2, <1>3, <1>8, <2>2 DEF Alone, d
    <3>2. CASE p \in RequestsTo(d)
      BY <1>1, <3>1, <3>2 DEF DeliveryInv, NewerAfterReset
    <3>3. CASE p.seq = ep[c].next
      BY <1>1, <3>1, <3>3 DEF DeliveryInv, Numbered
    <3> QED
      BY <1>7, <3>2, <3>3
  <2> QED
    BY <1>1, <2>1, <2>2 DEF NewerAfterReset
<1>14. QuietWhileReset'
  <2>1. ep'[c].reset # None => RequestsTo(c)' = {} /\ RequestsTo(d)' = {}
    <3> SUFFICES ASSUME ep'[c].reset # None PROVE RequestsTo(c)' = {} /\ RequestsTo(d)' = {}
      OBVIOUS
    <3>1. ep'[c].next = ep[c].next /\ RequestsTo(c) = {} /\ RequestsTo(d) = {}
      <4>1. CASE ep'[c].reset = ep[c].reset
        BY <1>1, <1>2, <4>1 DEF DeliveryInv, QuietWhileReset, Asking
      <4>2. CASE ep'[c].reset # ep[c].reset
        BY <1>1, <1>2, <4>2 DEF Marking
      <4> QED
        BY <4>1, <4>2
    <3> QED
      BY <1>6, <1>7, <3>1
  <2>2. ep'[d].reset # None => RequestsTo(c)' = {} /\ RequestsTo(d)' = {}
    <3> SUFFICES ASSUME ep[d].reset # None PROVE RequestsTo(c)' = {} /\ RequestsTo(d)' = {}
      BY <1>3
    <3>1. ep'[c].next = ep[c].next /\ RequestsTo(c) = {} /\ RequestsTo(d) = {}
      BY <1>1, <1>2 DEF DeliveryInv, QuietWhileReset, Asking
    <3> QED
      BY <1>6, <1>7, <3>1
  <2> QED
    BY <1>1, <2>1, <2>2 DEF QuietWhileReset
<1>15. MarkersInOrder'
  <2>1. ep'[c].reset # None => ep'[c].control = ep'[c].reset + 1
    BY <1>1, <1>2, <1>4 DEF DeliveryInv, MarkersInOrder, Marking
  <2>2. ep'[d].reset # None => ep'[d].control = ep'[d].reset + 1
    BY <1>1, <1>3 DEF DeliveryInv, MarkersInOrder
  <2>3. ep'[c].reset = None /\ ep'[c].control > 0 =>
           ep'[d].peer_reset # None /\ ep'[c].control <= ep'[d].peer_reset + 1
    <3> SUFFICES ASSUME ep'[c].reset = None, ep'[c].control > 0
                 PROVE  ep[d].peer_reset # None /\ ep'[c].control <= ep[d].peer_reset + 1
      BY <1>3
    <3>1. CASE ep'[c].control = ep[c].control /\ ep'[c].reset = ep[c].reset
      BY <1>1, <3>1 DEF DeliveryInv, MarkersInOrder, d
    <3>2. CASE /\ ep'[c].control = ep[c].control /\ ep[c].reset # None
               /\ ep[d].peer_reset # None /\ ep[c].reset <= ep[d].peer_reset
      <4>1. ep[c].control = ep[c].reset + 1
        BY <1>1, <3>2 DEF DeliveryInv, MarkersInOrder
      <4> QED
        BY <1>4, <3>2, <4>1
    <3>3. CASE ep'[c].reset = ep[c].control
      BY <1>2, <1>4, <3>3
    <3> QED
      BY <1>2, <3>1, <3>2, <3>3 DEF Marking, d
  <2>4. ep'[d].reset = None /\ ep'[d].control > 0 =>
           ep'[c].peer_reset # None /\ ep'[d].control <= ep'[c].peer_reset + 1
    <3> SUFFICES ASSUME ep[d].reset = None, ep[d].control > 0
                 PROVE  ep'[c].peer_reset # None /\ ep[d].control <= ep'[c].peer_reset + 1
      BY <1>3
    <3>1. ep[c].peer_reset # None /\ ep[d].control <= ep[c].peer_reset + 1
      BY <1>1 DEF DeliveryInv, MarkersInOrder
    <3> QED
      BY <1>2, <1>4, <3>1 DEF Marking
  <2>5. \A p \in Range(wire'[d]) : p \in Resets => p.seq < ep'[c].control
    <3> SUFFICES ASSUME NEW p \in Range(wire'[d]), p \in Resets PROVE p.seq < ep'[c].control
      OBVIOUS
    <3>1. CASE p \in Range(wire[d])
      <4>1. p.seq < ep[c].control /\ p.seq \in Nat
        BY <1>1, <3>1 DEF DeliveryInv, MarkersInOrder, Resets, d
      <4> QED
        BY <1>2, <1>4, <4>1 DEF Marking
    <3> QED
      BY <1>2, <3>1 DEF Marking, d
  <2>6. \A p \in Range(wire'[c]) : p \in Resets => p.seq < ep'[d].control
    BY <1>1, <1>2, <1>3 DEF DeliveryInv, MarkersInOrder, Alone
  <2>7. \A p \in Range(wire'[d]) :
           p \in Acks => ep'[c].peer_reset # None /\ p.seq <= ep'[c].peer_reset
    <3> SUFFICES ASSUME NEW p \in Range(wire'[d]), p \in Acks
                 PROVE  ep'[c].peer_reset # None /\ p.seq <= ep'[c].peer_reset
      OBVIOUS
    <3>1. CASE p \in Range(wire[d])
      <4>1. ep[c].peer_reset # None /\ p.seq <= ep[c].peer_reset /\ p.seq \in Nat
        BY <1>1, <3>1 DEF DeliveryInv, MarkersInOrder, Acks
      <4> QED
        BY <1>2, <1>4, <4>1 DEF Marking
    <3> QED
      BY <1>2, <3>1 DEF Marking, d
  <2>8. \A p \in Range(wire'[c]) :
           p \in Acks => ep'[d].peer_reset # None /\ p.seq <= ep'[d].peer_reset
    BY <1>1, <1>2, <1>3 DEF DeliveryInv, MarkersInOrder, Alone, d
  <2> QED
    BY <1>1, <2>1, <2>2, <2>3, <2>4, <2>5, <2>6, <2>7, <2>8 DEF MarkersInOrder, d
<1>16. ClockedOnce'
  <2>1. \A i, j \in DOMAIN log'[c] : i < j => log'[c][i].seq < log'[c][j].seq
    <3>1. \A i, j \in DOMAIN log[c] : i < j => log[c][i].seq < log[c][j].seq
      BY DEF DeliveryInv, ClockedOnce
    <3>2. CASE log'[c] = log[c]
      BY <3>1, <3>2
    <3>3. CASE log'[c] # log[c]
      BY <1>2, <1>9, <3>1, <3>3, LogGrows
    <3> QED
      BY <3>2, <3>3
  <2>2. \A i, j \in DOMAIN log'[d] : i < j => log'[d][i].seq < log'[d][j].seq
    BY <1>1, <1>2 DEF DeliveryInv, ClockedOnce, Alone, d
  <2> QED
    BY <1>1, <2>1, <2>2 DEF ClockedOnce
<1> QED
  BY <1>2, <1>11, <1>12, <1>13, <1>14, <1>15, <1>16 DEF DeliveryInv

-----------------------------------------------------------------------------
(* The same of the node a handler hands over, and of the history.          *)
NodeAsks(c, n) ==
    /\ \/ n.ep.next = ep[c].next
       \/ /\ n.ep.next = ep[c].next + 1
          /\ \A d \in Consoles : ep[d].reset = None
    /\ \A p \in Range(n.out) \cup ({n.ep.pending} \ {None}) :
          p \in Requests => \/ p \in RequestsTo(Peer(c))
                            \/ p.seq = ep[c].next /\ n.ep.next # ep[c].next

NodeMarks(c, n) ==
    /\ \/ n.ep.control = ep[c].control /\ n.ep.reset = ep[c].reset
       \/ /\ n.ep.control = ep[c].control /\ ep[c].reset # None
          /\ n.ep.reset = None
          /\ ep[Peer(c)].peer_reset # None /\ ep[c].reset <= ep[Peer(c)].peer_reset
       \/ /\ n.ep.control = ep[c].control + 1 /\ n.ep.reset = ep[c].control
          /\ \A d \in Consoles : RequestsTo(d) = {}
          /\ n.ep.next = ep[c].next
    /\ \/ n.ep.peer_reset = ep[c].peer_reset
       \/ /\ n.ep.peer_reset # None
          /\ ep[c].peer_reset = None \/ ep[c].peer_reset <= n.ep.peer_reset
    /\ \A p \in Range(n.out) :
          /\ p \in Resets => p.seq < n.ep.control
          /\ p \in Acks => n.ep.peer_reset # None /\ p.seq <= n.ep.peer_reset

NodeClocks(c, n) ==
    /\ \/ n.ep.deferred \in {ep[c].deferred, None}
       \/ n.ep.deferred.seq < ep[Peer(c)].next
    /\ up'[c] => Tidy(n.ep, Past(c)')
    /\ up'[c] /\ n.ep.served = None =>
          /\ log'[c] = log[c]
          /\ ep[c].served = None \/ RequestsTo(c) = {}

History(c) ==
    /\ log' \in [Consoles -> Seq(Entry)] /\ log'[Peer(c)] = log[Peer(c)]
    /\ \/ log'[c] = log[c]
       \/ \E x \in Entry : /\ log'[c] = Append(log[c], x)
                           /\ x.seq < ep[Peer(c)].next
                           /\ \A s \in Past(c) : s < x.seq

LEMMA RangeOfConcat ==
    ASSUME NEW S, NEW a \in Seq(S), NEW b \in Seq(S)
    PROVE  Range(a \o b) = Range(a) \cup Range(b)
<1>1. /\ DOMAIN a = 1..Len(a) /\ DOMAIN b = 1..Len(b)
      /\ DOMAIN (a \o b) = 1..(Len(a) + Len(b)) /\ Len(a) \in Nat /\ Len(b) \in Nat
      /\ \A i \in 1..(Len(a) + Len(b)) :
            (a \o b)[i] = IF i <= Len(a) THEN a[i] ELSE b[i - Len(a)]
  OBVIOUS
<1>2. ASSUME NEW i \in DOMAIN (a \o b) PROVE (a \o b)[i] \in Range(a) \cup Range(b)
  <2>1. CASE i <= Len(a)
    BY <1>1, <2>1 DEF Range
  <2>2. CASE ~(i <= Len(a))
    <3>1. i - Len(a) \in DOMAIN b
      BY <1>1, <2>2
    <3> QED
      BY <1>1, <2>2, <3>1 DEF Range
  <2> QED
    BY <2>1, <2>2
<1>3. ASSUME NEW i \in DOMAIN a PROVE a[i] \in Range(a \o b)
  <2>1. i \in DOMAIN (a \o b) /\ (a \o b)[i] = a[i]
    BY <1>1
  <2> QED
    BY <2>1 DEF Range
<1>4. ASSUME NEW i \in DOMAIN b PROVE b[i] \in Range(a \o b)
  <2>1. i + Len(a) \in DOMAIN (a \o b) /\ (a \o b)[i + Len(a)] = b[i]
    BY <1>1
  <2> QED
    BY <2>1 DEF Range
<1> QED
  BY <1>2, <1>3, <1>4 DEF Range

LEMMA PublishMoves ==
    ASSUME NEW c \in Consoles, NEW n, Well(n), DeliveryInv,
           NEW unread \in Seq(Packets), Range(unread) \subseteq Range(wire[c]),
           Publish(c, n, unread), History(c),
           NodeAsks(c, n), NodeMarks(c, n), NodeClocks(c, n)
    PROVE  Moves(c)
<1> DEFINE d == Peer(c)
           f == ep'[c]
<1>1. d \in Consoles /\ d # c /\ Peer(d) = c /\ \A x \in Consoles : x = c \/ x = d
  BY SideFacts
<1> HIDE DEF d
<1>2. /\ n.port \in Port /\ Sound(n.port) /\ n.ep \in Endpoint /\ n.out \in Seq(Packets)
      /\ DeliveryTypes
  BY DEF Well, Nodes, DeliveryInv
<1>3. /\ Reset(n.port) \in Port /\ Sound(Reset(n.port))
  BY <1>2, ResetSound DEF Sound
<1>4. DEFINE g == Abandon(n.ep)
             h == [g EXCEPT !.completed = None]
<1>5. /\ h \in Endpoint /\ h.next = n.ep.next /\ h.control = n.ep.control
      /\ h.reset = n.ep.reset /\ h.peer_reset = n.ep.peer_reset
      /\ h.pending = None /\ h.deferred = None
  <2>1. /\ g \in Endpoint /\ g.next = n.ep.next /\ g.control = n.ep.control
        /\ g.reset = n.ep.reset /\ g.peer_reset = n.ep.peer_reset
        /\ g.pending = None /\ g.deferred = None
    BY <1>2, AbandonType
  <2> HIDE DEF g
  <2>2. h \in Endpoint /\ Alike(g, h) /\ h.pending = g.pending
    BY <2>1, CompletedField
  <2> QED
    BY <2>1, <2>2 DEF Alike
<1>6. f = IF n.fault = None THEN n.ep ELSE h
  BY <1>2 DEF Publish, DeliveryTypes
<1> HIDE DEF h
<1>7. /\ f \in Endpoint /\ f.next = n.ep.next /\ f.control = n.ep.control
      /\ f.reset = n.ep.reset /\ f.peer_reset = n.ep.peer_reset
      /\ f.pending \in {n.ep.pending, None} /\ f.deferred \in {n.ep.deferred, None}
  BY <1>2, <1>5, <1>6
<1>8. up[c] /\ up'[c] = (n.fault = None) /\ up'[d] = up[d] /\ up' \in [Consoles -> BOOLEAN]
  BY <1>1, <1>2 DEF Publish, DeliveryTypes
<1>9. up'[c] => f = n.ep
  BY <1>6, <1>8
<1>10. /\ port'[d] = port[d] /\ ep'[d] = ep[d]
       /\ port' \in [Consoles -> Port] /\ Sound(port'[c])
       /\ ep' \in [Consoles -> Endpoint]
  <2>1. /\ port' = [port EXCEPT ![c] = port'[c]] /\ port'[c] \in Port /\ Sound(port'[c])
    BY <1>2, <1>3 DEF Publish, DeliveryTypes
  <2>2. ep' = [ep EXCEPT ![c] = f]
    BY <1>2 DEF Publish, DeliveryTypes
  <2> HIDE DEF f
  <2> QED
    BY <1>1, <1>2, <1>7, <2>1, <2>2 DEF DeliveryTypes
<1>11. /\ wire'[c] = unread /\ wire' \in [Consoles -> Seq(Packets)]
       /\ Range(wire'[d]) \subseteq Range(wire[d]) \cup Range(n.out)
  <2>1. wire[d] \in Seq(Packets) /\ wire[d] \o n.out \in Seq(Packets)
    BY <1>1, <1>2 DEF DeliveryTypes
  <2>2. wire'[c] = unread /\ wire'[d] \in {wire[d], wire[d] \o n.out}
    BY <1>1, <1>2 DEF Publish, DeliveryTypes, d
  <2>3. wire' \in [Consoles -> Seq(Packets)]
    BY <1>1, <1>2, <2>1 DEF Publish, DeliveryTypes, d
  <2>4. Range(wire[d] \o n.out) = Range(wire[d]) \cup Range(n.out)
    BY <1>2, <2>1, RangeOfConcat
  <2> QED
    BY <2>2, <2>3, <2>4
<1>12. DeliveryTypes'
  <2>1. \A x \in Consoles : Sound(port'[x])
    BY <1>1, <1>2, <1>10 DEF DeliveryTypes
  <2> QED
    BY <1>8, <1>10, <1>11, <2>1 DEF DeliveryTypes, History
<1>13. Alone(c)
  BY <1>8, <1>10, <1>11 DEF Alone, History, d
<1>14. Asking(c)
  <2>1. ASSUME NEW p \in Range(wire[d]), p \in Requests PROVE p \in RequestsTo(d)
    BY <2>1 DEF RequestsTo
  <2> QED
    BY <1>7, <1>11, <2>1 DEF NodeAsks, Asking, d
<1>15. Marking(c)
  BY <1>7, <1>11 DEF NodeMarks, Marking, d
<1>16. Clocking(c)
  BY <1>7, <1>9 DEF NodeClocks, Clocking, History
<1> QED
  BY <1>12, <1>13, <1>14, <1>15, <1>16 DEF Moves

-----------------------------------------------------------------------------
(* The steps that leave the history alone: a guest's writes and edges, and *)
(* the reset of a quiet link.                                              *)
LEMMA FreshNode ==
    ASSUME NEW c \in Consoles, DeliveryInv
    PROVE  /\ Well(Node(c)) /\ Node(c).port = port[c] /\ Node(c).ep = ep[c]
           /\ Node(c).out = <<>> /\ Range(Node(c).out) = {} /\ Node(c).fault = None
           /\ wire[c] \in Seq(Packets)
BY DEF DeliveryInv, DeliveryTypes, Node, Well, Nodes, Faults, Range

LEMMA Kinds ==
    /\ Harmless \cap Requests = {} /\ Harmless \cap Resets = {}
    /\ Harmless \cap Acks = {} /\ Requests \cap Resets = {}
    /\ Requests \cap Acks = {} /\ Resets \cap Acks = {}
BY DEF Harmless, Replies, Others_, Requests, Resets, Acks

LEMMA SameHistory ==
    ASSUME NEW c \in Consoles, DeliveryInv, log' = log
    PROVE  History(c) /\ Past(c)' = Past(c)
BY DEF DeliveryInv, DeliveryTypes, History, Past

LEMMA KeepsMoves ==
    ASSUME NEW c \in Consoles, NEW n, DeliveryInv, Keeps(Node(c), n), Act(c, n),
           log' = log
    PROVE  Moves(c)
<1>1. /\ Node(c).ep = ep[c] /\ Range(Node(c).out) = {} /\ wire[c] \in Seq(Packets)
      /\ Peer(c) \in Consoles /\ Peer(Peer(c)) = c
  BY FreshNode, SideFacts
<1>2. Range(n.out) \subseteq Harmless /\ Well(n)
  BY <1>1 DEF Keeps
<1>3. Publish(c, n, wire[c]) /\ up[c] /\ History(c) /\ Past(c)' = Past(c)
  BY SameHistory DEF Act, Publish
<1>4. NodeAsks(c, n)
  <2>1. n.ep.pending # None => n.ep.pending = ep[c].pending
    BY <1>1 DEF Keeps
  <2>2. \A p \in {n.ep.pending} \ {None} : p \in Requests => p \in RequestsTo(Peer(c))
    BY <1>1, <2>1 DEF RequestsTo
  <2> QED
    BY <1>1, <1>2, <2>2, Kinds DEF Keeps, NodeAsks
<1>5. NodeMarks(c, n)
  BY <1>1, <1>2, Kinds DEF Keeps, NodeMarks
<1>6. NodeClocks(c, n)
  <2>1. Tidy(ep[c], Past(c))
    BY <1>3 DEF DeliveryInv, Remembered
  <2>2. n.ep.served = ep[c].served /\ n.ep.deferred = ep[c].deferred
    BY <1>1 DEF Keeps
  <2> QED
    BY <1>3, <2>1, <2>2 DEF NodeClocks, Tidy
<1> QED
  BY <1>1, <1>2, <1>3, <1>4, <1>5, <1>6, PublishMoves

LEMMA AsksMoves ==
    ASSUME NEW c \in Consoles, NEW n, DeliveryInv, Asks(Node(c), n), Act(c, n),
           log' = log, QuietResets
    PROVE  Moves(c)
<1>1. /\ Node(c).ep = ep[c] /\ Range(Node(c).out) = {} /\ wire[c] \in Seq(Packets)
      /\ Peer(c) \in Consoles /\ \A x \in Consoles : x = c \/ x = Peer(c)
      /\ Node(c).fault = None
  BY FreshNode, SideFacts
<1>2. /\ Well(n) /\ n.fault = None /\ n.ep.next = ep[c].next + 1 /\ ep[c].next \in Nat
  BY <1>1 DEF Asks, DeliveryInv, DeliveryTypes, Endpoint
<1>3. Publish(c, n, wire[c]) /\ up[c] /\ History(c) /\ Past(c)' = Past(c)
  BY SameHistory DEF Act, Publish
<1>4. ep'[c] = n.ep
  BY <1>2, <1>3 DEF Publish, DeliveryInv, DeliveryTypes
<1>5. \A d \in Consoles : ep[d].reset = None
  <2>1. ep[Peer(c)].reset = None
    BY <1>2, <1>4 DEF QuietResets
  <2>2. ep[c].reset = None
    BY <1>1 DEF Asks
  <2> QED
    BY <1>1, <2>1, <2>2
<1>6. NodeAsks(c, n)
  BY <1>1, <1>2, <1>5, Kinds DEF Asks, NodeAsks
<1>7. NodeMarks(c, n)
  BY <1>1, <1>2, Kinds DEF Asks, NodeMarks
<1>8. NodeClocks(c, n)
  <2>1. Tidy(ep[c], Past(c))
    BY <1>3 DEF DeliveryInv, Remembered
  <2>2. n.ep.served = ep[c].served /\ n.ep.deferred = ep[c].deferred
    BY <1>1 DEF Asks
  <2> QED
    BY <1>3, <2>1, <2>2 DEF NodeClocks, Tidy
<1> QED
  BY <1>1, <1>2, <1>3, <1>6, <1>7, <1>8, PublishMoves

LEMMA GuestMoves ==
    ASSUME NEW c \in Consoles, DeliveryInv, QuietResets, log' = log, Guest(c)
    PROVE  Moves(c)
<1> DEFINE n == Node(c)
<1>1. Well(n) /\ n.port = port[c] /\ n.port \in Port /\ Sound(n.port)
  BY FreshNode DEF Well, Nodes
<1>2. CASE WriteSB(c)
  <2>1. PICK byte \in GuestBytes[c] :
           Act(c, [Node(c) EXCEPT !.port =
                      WriteData(@, byte, TRUE, ep[c].pending # None)])
    BY <1>2 DEF WriteSB
  <2> DEFINE captured == ep[c].pending # None
             p == WriteData(n.port, byte, TRUE, captured)
  <2>2. byte \in Byte /\ captured \in BOOLEAN
    BY EndpointAssumption DEF Consoles
  <2> HIDE DEF captured
  <2>3. p \in Port /\ Sound(p)
    BY <1>1, <2>2, WriteDataSound DEF Sound
  <2>4. Act(c, [n EXCEPT !.port = p])
    BY <2>1 DEF captured
  <2> HIDE DEF p, n
  <2>5. Keeps(n, [n EXCEPT !.port = p])
    BY <1>1, <2>3, PortKeeps
  <2> QED
    BY <2>4, <2>5, KeepsMoves DEF n
<1>3. CASE WriteSC(c)
  <2>1. PICK sc \in Commands : Act(c, RewriteControl(c, Node(c), sc))
    BY <1>3 DEF WriteSC
  <2>2. sc \in Control
    BY EndpointAssumption
  <2>3. Keeps(Node(c), RewriteControl(c, Node(c), sc))
    BY <1>1, <2>2, RewriteKeeps
  <2> QED
    BY <2>1, <2>3, KeepsMoves
<1>4. CASE Edge(c)
  <2>1. n.port.active /\ Act(c, ClockEdge(c, n))
    BY <1>1, <1>4 DEF Edge, Drives
  <2>2. Keeps(n, ClockEdge(c, n)) \/ Asks(n, ClockEdge(c, n))
    BY <1>1, <2>1, EdgeSteps
  <2> QED
    BY <2>1, <2>2, KeepsMoves, AsksMoves
<1> QED
  BY <1>2, <1>3, <1>4 DEF Guest

LEMMA ResetMoves ==
    ASSUME NEW c \in Consoles, DeliveryInv, QuietResets, log' = log, ResetLink(c)
    PROVE  Moves(c)
<1> DEFINE n == IF Drives(port[c]) THEN ReleaseClock(Node(c)) ELSE Node(c)
           k == n.ep.control
           a == Abandon(n.ep)
           b == [a EXCEPT !.completed = None]
           r == [b EXCEPT !.reset = k]
           t == [r EXCEPT !.reset_retries = 0]
           e == [t EXCEPT !.control = k + 1]
           p == Reset(n.port)
           marker == Packet("reset", k, <<>>)
           o == [n EXCEPT !.port = p, !.ep = e]
           m == Send(o, marker)
<1>1. /\ Well(Node(c)) /\ Node(c).ep = ep[c] /\ Range(Node(c).out) = {}
      /\ Node(c).fault = None /\ wire[c] \in Seq(Packets)
  BY FreshNode
<1>2. Keeps(Node(c), n)
  BY <1>1, ReleaseKeeps, KeepsItself
<1>3. Act(c, m)
  <2>1. k = a.control /\ k = b.control /\ k = r.control /\ k = t.control
    <3>1. n.ep \in Endpoint
      BY <1>2 DEF Keeps, Well, Nodes
    <3> HIDE DEF n
    <3>2. a \in Endpoint /\ a.control = k
      BY <3>1, AbandonType
    <3> HIDE DEF a, k
    <3> QED
      BY <3>2 DEF Endpoint
  <2>2. e = [Abandon(n.ep) EXCEPT !.completed = None, !.reset = n.ep.control,
                                  !.reset_retries = 0, !.control = @ + 1]
    BY <2>1
  <2>3. [n EXCEPT !.port = Reset(@), !.ep = e] = o
    OBVIOUS
  <2> HIDE DEF e
  <2> QED
    BY <2>2, <2>3 DEF ResetLink
<1> HIDE DEF n
<1>4. /\ n.ep \in Endpoint /\ n.port \in Port /\ Sound(n.port) /\ k \in Nat
      /\ k = ep[c].control /\ n.ep.next = ep[c].next
      /\ n.ep.peer_reset = ep[c].peer_reset /\ Range(n.out) \subseteq Harmless
      /\ n.fault = None
  BY <1>1, <1>2 DEF Keeps, Well, Nodes, Endpoint
<1> HIDE DEF k
<1>5. /\ e \in Endpoint /\ e.next = ep[c].next /\ e.served = None /\ e.deferred = None
      /\ e.control = k + 1 /\ e.reset = k /\ e.peer_reset = ep[c].peer_reset
      /\ e.pending = None
  <2>1. /\ a \in Endpoint /\ a.next = ep[c].next /\ a.served = None /\ a.deferred = None
        /\ a.peer_reset = ep[c].peer_reset /\ a.pending = None
    BY <1>4, AbandonType
  <2> HIDE DEF a
  <2>2. b \in Endpoint /\ Alike(a, b) /\ b.pending = a.pending
    BY <2>1, CompletedField
  <2> HIDE DEF b
  <2>3. /\ r \in Endpoint /\ r.next = b.next /\ r.served = b.served
        /\ r.deferred = b.deferred /\ r.reset = k
        /\ r.peer_reset = b.peer_reset /\ r.pending = b.pending
    BY <1>4, <2>2, ResetField
  <2> HIDE DEF r
  <2>4. t \in Endpoint /\ Alike(r, t) /\ t.pending = r.pending
    BY <2>3, ResetRetriesField
  <2> HIDE DEF t
  <2>5. /\ e \in Endpoint /\ e.next = t.next /\ e.served = t.served
        /\ e.deferred = t.deferred /\ e.control = k + 1 /\ e.reset = t.reset
        /\ e.peer_reset = t.peer_reset /\ e.pending = t.pending
    <3>1. k + 1 \in Nat
      BY <1>4
    <3> QED
      BY <2>4, <3>1, SMTT(30) DEF Endpoint
  <2> QED
    BY <2>1, <2>2, <2>3, <2>4, <2>5 DEF Alike
<1> HIDE DEF e
<1>6. p \in Port /\ Sound(p)
  BY <1>4, ResetSound DEF Sound
<1>7. marker \in Resets /\ marker \in Packets /\ marker.seq = k
  BY <1>4, BitSeqFacts, ReplyIsHarmless DEF Packet, Packets
<1> HIDE DEF p, marker
<1>8. Well(o) /\ o.ep = e /\ o.out = n.out /\ o.fault = None
  BY <1>2, <1>4, <1>5, <1>6 DEF Keeps, Well, Nodes
<1> HIDE DEF o
<1>9. Well(m) /\ m.ep = e /\ Range(m.out) = Range(n.out) \cup {marker} /\ m.fault = None
  BY <1>7, <1>8, SendType
<1> HIDE DEF m
<1>10. Publish(c, m, wire[c]) /\ up[c] /\ History(c) /\ Past(c)' = Past(c)
  BY <1>3, SameHistory DEF Act, Publish
<1>11. ep'[c].control # ep[c].control
  <2>1. ep'[c] = e
    BY <1>9, <1>10 DEF Publish, DeliveryInv, DeliveryTypes
  <2> QED
    BY <1>4, <1>5, <2>1
<1>12. \A d \in Consoles : RequestsTo(d) = {}
  <2> SUFFICES ASSUME NEW d \in Consoles, NEW q \in RequestsTo(d) PROVE FALSE
    OBVIOUS
  <2>1. /\ \A x \in Consoles : /\ ep[x].pending = None
                               /\ \A i \in DOMAIN wire[x] : wire[x][i].kind # "request"
    BY <1>11 DEF QuietResets
  <2>2. q \in Range(wire[d]) /\ q.kind = "request"
    BY <2>1, SideFacts DEF RequestsTo, Requests
  <2> QED
    BY <2>1, <2>2 DEF Range
<1>13. NodeAsks(c, m)
  BY <1>4, <1>5, <1>7, <1>9, Kinds DEF NodeAsks
<1>14. NodeMarks(c, m)
  BY <1>4, <1>5, <1>7, <1>9, <1>12, Kinds DEF NodeMarks
<1>15. NodeClocks(c, m)
  BY <1>5, <1>9, <1>12 DEF NodeClocks, Tidy
<1> QED
  BY <1>1, <1>9, <1>10, <1>13, <1>14, <1>15, PublishMoves

-----------------------------------------------------------------------------
(* A poll: what a packet does, followed by the end of the poll. If the     *)
(* port's bits move, the request they move for is newer than all others.   *)
Handled(n, m, q) == NothingNew(n, m) \/ NewRequest(n, m, q) \/ NewReset(n, m, q)

New(n, o) == IF o.port.bits = n.port.bits THEN {} ELSE {o.ep.reply.seq}

Tidied(n, m, o, q, past) ==
    /\ Tidy(o.ep, past \cup New(n, o))
    /\ \A k \in New(n, o) :
          /\ o.ep.reply \in Replies /\ \A s \in past : s < k
          /\ \/ n.ep.deferred # None /\ k = n.ep.deferred.seq
             \/ q \in Requests /\ k = q.seq
    /\ \/ o.ep.deferred \in {n.ep.deferred, None}
       \/ q \in Requests /\ o.ep.deferred = q
    /\ o.ep.served = None =>
          New(n, o) = {} /\ (n.ep.served = None \/ NewReset(n, m, q))

LEMMA PollServes ==
    ASSUME NEW past \in SUBSET Nat, NEW q \in Packets, NEW n, NEW m, NEW o,
           n.ep \in Endpoint, m.ep \in Endpoint, Tidy(n.ep, past),
           Handled(n, m, q), Ended(m, o),
           n.ep.served = None /\ q \in Requests => \A s \in past : s < q.seq
    PROVE  Tidied(n, m, o, q, past)
<1>1. /\ n.ep.served \in Nat \cup {None} /\ m.ep.served \in Nat \cup {None}
      /\ None \notin Nat
      /\ n.ep.deferred \in Requests \cup {None} /\ m.ep.deferred \in Requests \cup {None}
      /\ \A r \in Requests : r.seq \in Nat
      /\ o.ep.served = m.ep.served
  BY EndpointAssumption DEF Endpoint, Requests, Ended
<1>2. CASE NothingNew(n, m)
  <2>1. /\ o.ep.served = n.ep.served /\ m.ep.deferred = n.ep.deferred
        /\ m.port.bits = n.port.bits
    BY <1>1, <1>2 DEF NothingNew
  <2>2. CASE o = m
    BY <1>1, <2>1, <2>2 DEF New, Tidy, Tidied
  <2>3. CASE /\ m.ep.deferred # None /\ o.ep.deferred = None
             /\ o.port.bits = m.port.bits
    BY <1>1, <2>1, <2>3 DEF New, Tidy, Tidied
  <2>4. CASE /\ m.ep.deferred # None /\ o.ep.deferred = None
             /\ Answers(o, m.ep.deferred) /\ o.port.bits # m.port.bits
    <3> DEFINE k == n.ep.deferred.seq
    <3>1. New(n, o) = {k} /\ k \in Nat /\ n.ep.served = k /\ \A s \in past : s < k
      BY <1>1, <2>1, <2>4 DEF New, Answers, Tidy
    <3>2. o.ep.reply \in Replies
      BY <2>4 DEF Answers
    <3> HIDE DEF k
    <3>3. Tidy(o.ep, past \cup {k})
      BY <1>1, <2>1, <2>4, <3>1 DEF Tidy
    <3> QED
      BY <1>1, <2>1, <2>4, <3>1, <3>2, <3>3 DEF k, Tidied
  <2> QED
    BY <2>2, <2>3, <2>4 DEF Ended
<1>3. CASE NewRequest(n, m, q)
  <2>1. q \in Requests /\ q.seq \in Nat /\ o.ep.served = q.seq
    BY <1>1, <1>3 DEF NewRequest
  <2>2. \A s \in past : s < q.seq
    BY <1>1, <1>3, <2>1 DEF NewRequest, Tidy
  <2>3. n.ep.deferred = None
    BY <1>1, <1>3 DEF NewRequest, Tidy
  <2>4. CASE m.ep.deferred = q /\ m.port.bits = n.port.bits /\ o = m
    <3>1. New(n, o) = {} /\ past \cup New(n, o) = past
      BY <2>4 DEF New
    <3>2. o.ep.served = q.seq /\ o.ep.deferred = q
      BY <2>1, <2>4
    <3>3. \A s \in past : s < q.seq /\ s <= q.seq
      BY <2>1, <2>2
    <3>4. Tidy(o.ep, past)
      BY <3>2, <3>3, Zenon DEF Tidy
    <3> QED
      BY <1>1, <2>1, <2>4, <3>1, <3>4 DEF Tidied
  <2>5. CASE /\ m.ep.deferred = q /\ m.port.bits = n.port.bits /\ o.ep.deferred = None
             /\ o.port.bits = m.port.bits
    BY <1>1, <2>1, <2>2, <2>5 DEF New, Tidy, Tidied
  <2>6. CASE /\ m.ep.deferred = q /\ m.port.bits = n.port.bits /\ o.ep.deferred = None
             /\ Answers(o, q) /\ o.port.bits # m.port.bits
    <3>1. New(n, o) = {q.seq}
      BY <2>6 DEF New, Answers
    <3> QED
      BY <1>1, <2>1, <2>2, <2>6, <3>1 DEF Tidy, Answers, Tidied
  <2>7. CASE m.ep.deferred = n.ep.deferred /\ m.port.bits = n.port.bits
    <3>1. o = m
      BY <2>3, <2>7 DEF Ended
    <3> QED
      BY <1>1, <2>1, <2>2, <2>3, <2>7, <3>1 DEF New, Tidy, Tidied
  <2>8. CASE m.ep.deferred = n.ep.deferred /\ Answers(m, q) /\ m.port.bits # n.port.bits
    <3>1. o = m
      BY <2>3, <2>8 DEF Ended
    <3>2. New(n, o) = {q.seq}
      BY <2>8, <3>1 DEF New, Answers
    <3> QED
      BY <1>1, <2>1, <2>2, <2>3, <2>8, <3>1, <3>2 DEF Tidy, Answers, Tidied
  <2> QED
    BY <1>3, <2>4, <2>5, <2>6, <2>7, <2>8 DEF Ended, NewRequest
<1>4. CASE NewReset(n, m, q)
  <2>1. o = m /\ m.port.bits = n.port.bits
    BY <1>4 DEF NewReset, Ended
  <2> QED
    BY <1>1, <1>4, <2>1 DEF NewReset, New, Tidy, Tidied
<1> QED
  BY <1>2, <1>3, <1>4 DEF Handled

\* What Clocks makes of the history.
Records(c) ==
    log' = IF up'[c] /\ port'[c].bits # port[c].bits
             THEN [log EXCEPT ![c] =
                     Append(@, [seq |-> ep'[c].reply.seq,
                                gave |-> ep'[c].reply.bits,
                                holds |-> port'[c].data])]
             ELSE log

LEMMA PollMoves ==
    ASSUME NEW c \in Consoles, DeliveryInv, NEW m, Well(m), NEW o, NEW q \in Packets,
           Handled(Node(c), m, q), Ended(m, o),
           q \in Requests \cup Resets => q \in Range(wire[c]),
           NEW unread \in Seq(Packets), Range(unread) \subseteq Range(wire[c]),
           Publish(c, o, unread), Records(c),
           NodeAsks(c, m), NodeMarks(c, m)
    PROVE  Moves(c)
<1> DEFINE d == Peer(c)
           n == Node(c)
           past == Past(c)
<1>1. /\ d \in Consoles /\ d # c /\ Peer(d) = c /\ \A x \in Consoles : x = c \/ x = d
      /\ Well(n) /\ n.port = port[c] /\ n.ep = ep[c] /\ DeliveryTypes
      /\ None \notin Nat
  BY SideFacts, FreshNode, EndpointAssumption DEF DeliveryInv
<1> HIDE DEF d, n
<1>2. /\ Well(o) /\ n.ep \in Endpoint /\ m.ep \in Endpoint
      /\ o.ep \in Endpoint /\ o.port \in Port
  BY <1>1 DEF Ended, Well, Nodes
<1>3. up[c] /\ (up'[c] => port'[c] = o.port /\ ep'[c] = o.ep)
  BY <1>1 DEF Publish, DeliveryTypes
<1>4. past \in SUBSET Nat
  <2> SUFFICES ASSUME NEW i \in DOMAIN log[c] PROVE log[c][i].seq \in Nat
    BY DEF Past
  <2>1. log[c] \in Seq(Entry)
    BY <1>1 DEF DeliveryTypes
  <2>2. log[c][i] \in Entry
    BY <2>1
  <2> QED
    BY <2>2 DEF Entry
<1>5. Tidy(n.ep, past)
  BY <1>1, <1>3 DEF DeliveryInv, Remembered
<1>6. q \in Requests => q \in RequestsTo(c) /\ q.seq < ep[d].next
  <2>1. q \in Requests => q \in RequestsTo(c)
    BY DEF RequestsTo
  <2> QED
    BY <2>1 DEF DeliveryInv, Numbered, d
<1>7. n.ep.served = None /\ q \in Requests => \A s \in past : s < q.seq
  BY <1>1, <1>3, <1>6 DEF DeliveryInv, NewerAfterReset
<1>8. Handled(n, m, q)
  BY DEF n
<1> HIDE DEF past
<1>9. Tidied(n, m, o, q, past)
  BY <1>2, <1>4, <1>5, <1>7, <1>8, PollServes
<1>10. /\ Tidy(o.ep, past \cup New(n, o))
       /\ \A k \in New(n, o) :
             /\ o.ep.reply \in Replies /\ \A s \in past : s < k
             /\ \/ n.ep.deferred # None /\ k = n.ep.deferred.seq
                \/ q \in Requests /\ k = q.seq
       /\ \/ o.ep.deferred \in {n.ep.deferred, None}
          \/ q \in Requests /\ o.ep.deferred = q
       /\ o.ep.served = None =>
             New(n, o) = {} /\ (n.ep.served = None \/ NewReset(n, m, q))
  BY <1>9 DEF Tidied
<1>11. /\ History(c)
       /\ up'[c] => Past(c)' = past \cup New(n, o)
       /\ up'[c] /\ New(n, o) = {} => log'[c] = log[c]
  <2>1. CASE up'[c] /\ port'[c].bits # port[c].bits
    <3> DEFINE k == o.ep.reply.seq
               x == [seq |-> k, gave |-> o.ep.reply.bits, holds |-> o.port.data]
    <3>1. New(n, o) = {k}
      BY <1>1, <1>3, <2>1 DEF New
    <3>2. /\ o.ep.reply \in Replies /\ \A s \in past : s < k
          /\ \/ n.ep.deferred # None /\ k = n.ep.deferred.seq
             \/ q \in Requests /\ k = q.seq
      BY <1>10, <3>1
    <3>3. k < ep[d].next
      BY <1>1, <1>6, <3>2 DEF DeliveryInv, Numbered, d
    <3>4. x \in Entry /\ x.seq = k
      BY <1>2, <3>2 DEF Entry, Replies, Port
    <3>5. log' = [log EXCEPT ![c] = Append(@, x)]
      BY <1>3, <2>1 DEF Records
    <3> HIDE DEF k, x
    <3>6. /\ log \in [Consoles -> Seq(Entry)] /\ log'[c] = Append(log[c], x)
          /\ log'[d] = log[d] /\ log' \in [Consoles -> Seq(Entry)]
      <4>1. log \in [Consoles -> Seq(Entry)] /\ log[c] \in Seq(Entry)
        BY <1>1 DEF DeliveryTypes
      <4>2. Append(log[c], x) \in Seq(Entry)
        BY <3>4, <4>1
      <4> QED
        BY <1>1, <3>5, <4>1, <4>2
    <3>7. Past(c)' = Past(c) \cup {x.seq}
      BY <1>1, <3>4, <3>6, LogGrows
    <3> QED
      BY <3>1, <3>2, <3>3, <3>4, <3>6, <3>7 DEF History, past, d
  <2>2. CASE ~(up'[c] /\ port'[c].bits # port[c].bits)
    <3>1. log' = log
      BY <2>2 DEF Records
    <3>2. up'[c] => New(n, o) = {}
      BY <1>1, <1>3, <2>2 DEF New
    <3>3. History(c) /\ Past(c)' = Past(c)
      BY <3>1, SameHistory
    <3> QED
      BY <3>1, <3>2, <3>3 DEF past
  <2> QED
    BY <2>1, <2>2
<1>12. NewReset(n, m, q) => RequestsTo(c) = {}
  <2> SUFFICES ASSUME NewReset(n, m, q) PROVE RequestsTo(c) = {}
    OBVIOUS
  <2>1. /\ q \in Resets /\ q \in Range(wire[c]) /\ q.seq \in Nat
        /\ ep[c].peer_reset = None \/ q.seq > ep[c].peer_reset
    BY <1>1 DEF NewReset, Resets
  <2>2. q.seq < ep[d].control
    BY <1>1, <2>1 DEF DeliveryInv, MarkersInOrder
  <2>3. /\ ep[d].control \in Nat /\ ep[c].peer_reset \in Nat \cup {None}
    BY <1>1, <1>2 DEF DeliveryTypes, Endpoint
  <2>4. ep[d].reset # None
    <3> SUFFICES ASSUME ep[d].reset = None PROVE FALSE
      OBVIOUS
    <3>1. ep[d].control > 0
      BY <2>1, <2>2, <2>3
    <3>2. ep[c].peer_reset # None /\ ep[d].control <= ep[c].peer_reset + 1
      BY <1>1, <3>1 DEF DeliveryInv, MarkersInOrder
    <3> QED
      BY <2>1, <2>2, <2>3, <3>2
  <2> QED
    BY <1>1, <2>4 DEF DeliveryInv, QuietWhileReset
<1>13. NodeClocks(c, o)
  <2>1. \/ o.ep.deferred \in {ep[c].deferred, None}
        \/ o.ep.deferred.seq < ep[d].next
    BY <1>1, <1>6, <1>10
  <2> QED
    BY <1>1, <1>10, <1>11, <1>12, <2>1 DEF NodeClocks, d
<1>14. NodeAsks(c, o) /\ NodeMarks(c, o)
  <2>1. /\ o.ep.next = m.ep.next /\ o.ep.control = m.ep.control
        /\ o.ep.reset = m.ep.reset /\ o.ep.peer_reset = m.ep.peer_reset
        /\ o.ep.pending \in {m.ep.pending, None}
        /\ Range(o.out) \subseteq Range(m.out) \cup Harmless
    BY DEF Ended
  <2> QED
    BY <2>1, Kinds DEF NodeAsks, NodeMarks
<1> QED
  BY <1>2, <1>11, <1>13, <1>14, PublishMoves

LEMMA PacketMoves ==
    ASSUME NEW c \in Consoles, DeliveryInv, PollPacket(c), Records(c)
    PROVE  Moves(c)
<1> DEFINE n == Node(c)
           q == Head(wire[c])
           m == Receive(c, n, q)
           o == ServeDeferred(c, m)
<1>1. /\ Well(n) /\ n.ep = ep[c] /\ n.out = <<>> /\ Range(n.out) = {}
      /\ wire[c] \in Seq(Packets) /\ wire[c] # <<>>
      /\ Peer(c) \in Consoles /\ Peer(Peer(c)) = c
      /\ None \notin Nat
  BY FreshNode, SideFacts, EndpointAssumption DEF PollPacket
<1>2. /\ q \in Packets /\ q \in Range(wire[c])
      /\ Tail(wire[c]) \in Seq(Packets) /\ Range(Tail(wire[c])) \subseteq Range(wire[c])
  <2> DEFINE s == wire[c]
  <2>1. s \in Seq(Packets) /\ Len(s) \in Nat /\ Len(s) # 0 /\ DOMAIN s = 1..Len(s)
    BY <1>1
  <2>2. /\ Head(s) = s[1] /\ Tail(s) \in Seq(Packets) /\ Len(Tail(s)) = Len(s) - 1
        /\ \A i \in 1..(Len(s) - 1) : Tail(s)[i] = s[i + 1]
    BY <1>1, <2>1
  <2> HIDE DEF s
  <2>3. Range(Tail(s)) \subseteq Range(s)
    <3> SUFFICES ASSUME NEW i \in DOMAIN Tail(s) PROVE Tail(s)[i] \in Range(s)
      BY DEF Range
    <3>1. i \in 1..(Len(s) - 1) /\ i + 1 \in DOMAIN s
      BY <2>1, <2>2
    <3> QED
      BY <2>2, <3>1 DEF Range
  <2>4. Head(s) \in Packets /\ Head(s) \in Range(s)
    BY <2>1, <2>2 DEF Range
  <2> QED
    BY <2>2, <2>3, <2>4 DEF s
<1>3. Publish(c, o, Tail(wire[c]))
  BY DEF PollPacket
<1> HIDE DEF q, n
<1>4. Received(n, m, q)
  BY <1>1, <1>2, ReceiveSteps
<1> HIDE DEF m
<1>5. Well(m) /\ Ended(m, o) /\ Handled(n, m, q)
  BY <1>4, ServeDeferredSteps DEF Received, Handled
<1> HIDE DEF o
<1>6. NodeAsks(c, m)
  <2>1. m.ep.pending # None => m.ep.pending = ep[c].pending
    BY <1>1, <1>4 DEF Received
  <2>2. \A p \in {m.ep.pending} \ {None} : p \in Requests => p \in RequestsTo(Peer(c))
    BY <1>1, <2>1 DEF RequestsTo
  <2>3. \A p \in Range(m.out) : p \notin Requests
    BY <1>1, <1>4, Kinds DEF Received
  <2> QED
    BY <1>1, <1>4, <2>2, <2>3 DEF Received, NodeAsks
<1>7. NodeMarks(c, m)
  <2>1. m.ep.control = ep[c].control
    BY <1>1, <1>4 DEF Received
  <2>2. \/ m.ep.reset = ep[c].reset
        \/ /\ ep[c].reset # None /\ m.ep.reset = None
           /\ ep[Peer(c)].peer_reset # None /\ ep[c].reset <= ep[Peer(c)].peer_reset
    <3> SUFFICES ASSUME q \in Acks, q.seq = ep[c].reset, m.ep.reset = None
                 PROVE  /\ ep[c].reset # None /\ ep[Peer(c)].peer_reset # None
                        /\ ep[c].reset <= ep[Peer(c)].peer_reset
      BY <1>1, <1>4 DEF Received
    <3>1. q.seq \in Nat
      BY DEF Acks
    <3>2. ep[Peer(c)].peer_reset # None /\ q.seq <= ep[Peer(c)].peer_reset
      BY <1>2 DEF DeliveryInv, MarkersInOrder
    <3> QED
      BY <1>1, <3>1, <3>2
  <2>3. \/ m.ep.peer_reset = ep[c].peer_reset
        \/ /\ m.ep.peer_reset # None
           /\ ep[c].peer_reset = None \/ ep[c].peer_reset <= m.ep.peer_reset
    <3>1. CASE NewReset(n, m, q)
      <4>1. q.seq \in Nat /\ m.ep.peer_reset = q.seq
        BY <3>1 DEF NewReset, Resets
      <4>2. ep[c].peer_reset = None \/ q.seq > ep[c].peer_reset
        BY <1>1, <3>1 DEF NewReset
      <4>3. ep[c].peer_reset \in Nat \cup {None}
        BY DEF DeliveryInv, DeliveryTypes, Endpoint
      <4> QED
        BY <1>1, <4>1, <4>2, <4>3
    <3>2. CASE ~NewReset(n, m, q)
      BY <1>1, <1>5, <3>2 DEF Handled, NothingNew, NewRequest
    <3> QED
      BY <3>1, <3>2
  <2>4. \A p \in Range(m.out) :
           /\ p \notin Resets
           /\ p \in Acks => m.ep.peer_reset # None /\ p.seq <= m.ep.peer_reset
    BY <1>1, <1>4, Kinds DEF Received
  <2> QED
    BY <2>1, <2>2, <2>3, <2>4 DEF NodeMarks
<1> QED
  BY <1>1, <1>2, <1>3, <1>5, <1>6, <1>7, PollMoves DEF n

\* A poll that begins with nothing but the endpoint's own packets.
LEMMA NothingMoves ==
    ASSUME NEW c \in Consoles, DeliveryInv, NEW m, Well(m), NEW o,
           m.ep.next = ep[c].next, m.ep.control = ep[c].control,
           m.ep.reset = ep[c].reset, m.ep.pending = ep[c].pending,
           NothingNew(Node(c), m), Ended(m, o), Act(c, o), Records(c),
           \A p \in Range(m.out) : \/ p \in Harmless
                                   \/ p \in Requests /\ p = ep[c].pending /\ p # None
                                   \/ p \in Resets /\ p.seq < ep[c].control
    PROVE  Moves(c)
<1> DEFINE q == Packet("release", 0, <<>>)
<1>1. /\ q \in Packets /\ q \notin Requests /\ q \notin Resets
      /\ wire[c] \in Seq(Packets) /\ Node(c).ep = ep[c]
      /\ Peer(Peer(c)) = c
  <2>1. q \in Harmless
    BY BitSeqFacts, ReplyIsHarmless
  <2> QED
    BY <2>1, Kinds, FreshNode, SideFacts DEF Packets
<1> HIDE DEF q
<1>2. NodeAsks(c, m)
  <2>1. ep[c].pending # None /\ ep[c].pending \in Requests =>
           ep[c].pending \in RequestsTo(Peer(c))
    BY <1>1 DEF RequestsTo
  <2> QED
    BY <2>1, Kinds DEF NodeAsks
<1>3. NodeMarks(c, m)
  BY <1>1, Kinds DEF NodeMarks, NothingNew
<1>4. Handled(Node(c), m, q) /\ Publish(c, o, wire[c])
  BY DEF Handled, Act
<1> QED
  BY <1>1, <1>2, <1>3, <1>4, PollMoves

LEMMA DeferredMoves ==
    ASSUME NEW c \in Consoles, DeliveryInv, PollDeferred(c) \/ PollExpired(c), Records(c)
    PROVE  Moves(c)
<1> DEFINE n == Node(c)
           q == ep[c].deferred
           e == [n.ep EXCEPT !.deferred = None]
           m == [n EXCEPT !.ep = e]
           packet == Packet("not_ready", q.seq, q.bits)
           o == IF PollDeferred(c) THEN ServeDeferred(c, n) ELSE Reply(m, packet)
<1>1. /\ Well(n) /\ n.ep = ep[c] /\ Range(n.out) = {} /\ n.ep \in Endpoint
      /\ q \in Requests /\ q # None /\ q.seq \in Nat /\ q.bits \in BitSeq
  <2>1. Well(n) /\ n.ep = ep[c] /\ Range(n.out) = {} /\ q # None
    BY FreshNode DEF PollDeferred, PollExpired
  <2>2. n.ep \in Endpoint
    BY <2>1 DEF Well, Nodes
  <2> HIDE DEF n
  <2>3. q \in Requests
    BY <2>1, <2>2 DEF Endpoint
  <2> QED
    BY <2>1, <2>2, <2>3 DEF Requests
<1>2. Act(c, o)
  <2>1. [Node(c) EXCEPT !.ep.deferred = None] = m
    BY <1>1 DEF Well, Nodes
  <2> QED
    BY <2>1 DEF PollDeferred, PollExpired
<1> HIDE DEF n, q
<1>3. Ended(n, o)
  <2>1. Ended(n, ServeDeferred(c, n))
    BY <1>1, ServeDeferredSteps
  <2>2. Ended(n, Reply(m, packet))
    <3>1. /\ e \in Endpoint /\ e.next = n.ep.next /\ e.served = n.ep.served
          /\ e.control = n.ep.control /\ e.reset = n.ep.reset
          /\ e.peer_reset = n.ep.peer_reset /\ e.pending = n.ep.pending
          /\ e.deferred = None
      BY <1>1, DeferredField
    <3> HIDE DEF e
    <3>2. Well(m) /\ m.ep = e /\ m.port = n.port /\ m.out = n.out
      BY <1>1, <3>1 DEF Well, Nodes
    <3>3. packet \in Replies
      BY <1>1, ReplyIsHarmless
    <3> HIDE DEF m, packet
    <3>4. Keeps(m, Reply(m, packet)) /\ Reply(m, packet).port = m.port
      BY <3>2, <3>3, ReplySteps
    <3>5. n.ep.deferred # None
      BY <1>1 DEF q
    <3> QED
      BY <3>1, <3>2, <3>4, <3>5 DEF Ended, Keeps
  <2> QED
    BY <2>1, <2>2
<1> HIDE DEF o
<1>4. NothingNew(n, n)
  BY DEF NothingNew
<1> QED
  BY <1>1, <1>2, <1>3, <1>4, NothingMoves DEF n

LEMMA TimeoutMoves ==
    ASSUME NEW c \in Consoles, DeliveryInv, Records(c),
           Act(c, [Node(c) EXCEPT !.fault = "timeout"])
    PROVE  Moves(c)
<1> DEFINE n == Node(c)
           m == [n EXCEPT !.fault = "timeout"]
<1>1. Well(n) /\ n.ep = ep[c] /\ Range(n.out) = {}
  BY FreshNode
<1> HIDE DEF n
<1>2. Well(m) /\ m.ep = n.ep /\ m.port = n.port /\ m.out = n.out
  BY <1>1 DEF Well, Nodes, Faults
<1>3. Act(c, m)
  BY DEF n
<1> HIDE DEF m
<1>4. NothingNew(n, m) /\ Ended(m, m)
  BY <1>2 DEF NothingNew, Ended
<1> QED
  BY <1>1, <1>2, <1>3, <1>4, NothingMoves DEF n

LEMMA ResendMoves ==
    ASSUME NEW c \in Consoles, DeliveryInv, Records(c),
           NEW e \in Endpoint, Alike(ep[c], e), e.pending = ep[c].pending,
           NEW packet \in Packets,
           \/ packet \in Harmless
           \/ packet \in Requests /\ packet = ep[c].pending /\ packet # None
           \/ packet \in Resets /\ packet.seq < ep[c].control,
           Act(c, ServeDeferred(c, Send([Node(c) EXCEPT !.ep = e], packet)))
    PROVE  Moves(c)
<1> DEFINE n == Node(c)
           a == [n EXCEPT !.ep = e]
           m == Send(a, packet)
           o == ServeDeferred(c, m)
<1>1. Well(n) /\ n.ep = ep[c] /\ Range(n.out) = {}
  BY FreshNode
<1>2. Act(c, o)
  OBVIOUS
<1> HIDE DEF n
<1>3. Well(a) /\ a.ep = e /\ a.port = n.port /\ a.out = n.out
  BY <1>1 DEF Well, Nodes
<1> HIDE DEF a
<1>4. Well(m) /\ m.ep = e /\ m.port = n.port /\ Range(m.out) = {packet}
  <2>1. /\ Well(m) /\ m.port = a.port /\ m.ep = a.ep
        /\ Range(m.out) = Range(a.out) \cup {packet}
    BY <1>3, SendType
  <2> QED
    BY <1>1, <1>3, <2>1
<1> HIDE DEF m
<1>5. Ended(m, o)
  BY <1>4, ServeDeferredSteps
<1> HIDE DEF o
<1>6. NothingNew(n, m)
  BY <1>1, <1>4 DEF NothingNew, Alike
<1> QED
  BY <1>1, <1>2, <1>4, <1>5, <1>6, NothingMoves DEF n, Alike

LEMMA RetryMoves ==
    ASSUME NEW c \in Consoles, DeliveryInv, Records(c),
           RetryRequest(c) \/ RetryCommit(c) \/ RetryReset(c)
    PROVE  Moves(c)
<1> DEFINE n == Node(c)
           timeout == [n EXCEPT !.fault = "timeout"]
           e == ep[c]
           f == [e EXCEPT !.retries = e.retries + 1]
           g == [e EXCEPT !.commit_retries = e.commit_retries + 1]
           h == [e EXCEPT !.reset_retries = e.reset_retries + 1]
<1>1. /\ Well(n) /\ n.ep = e /\ n \in Nodes /\ e \in Endpoint
      /\ e.pending \in Requests \cup {None} /\ e.commit \in Nat \cup {None}
      /\ e.reset \in Nat \cup {None} /\ e.retries + 1 \in Nat
      /\ e.commit_retries + 1 \in Nat /\ e.reset_retries + 1 \in Nat
  <2>1. Well(n) /\ n.ep = e
    BY FreshNode
  <2>2. n \in Nodes /\ e \in Endpoint
    BY <2>1 DEF Well, Nodes
  <2> HIDE DEF e, n
  <2> QED
    BY <2>1, <2>2 DEF Endpoint
<1>2. /\ [n EXCEPT !.ep.retries = @ + 1] = [n EXCEPT !.ep = f]
      /\ [n EXCEPT !.ep.commit_retries = @ + 1] = [n EXCEPT !.ep = g]
      /\ [n EXCEPT !.ep.reset_retries = @ + 1] = [n EXCEPT !.ep = h]
  <2> HIDE DEF n, e
  <2> QED
    BY <1>1 DEF Nodes
<1>3. /\ f \in Endpoint /\ Alike(e, f) /\ f.pending = e.pending
      /\ g \in Endpoint /\ Alike(e, g) /\ g.pending = e.pending
      /\ h \in Endpoint /\ Alike(e, h) /\ h.pending = e.pending
  <2> HIDE DEF e
  <2>1. f \in Endpoint /\ Alike(e, f) /\ f.pending = e.pending
    BY <1>1, RetriesField
  <2>2. g \in Endpoint /\ Alike(e, g) /\ g.pending = e.pending
    BY <1>1, CommitRetriesField
  <2>3. h \in Endpoint /\ Alike(e, h) /\ h.pending = e.pending
    BY <1>1, ResetRetriesField
  <2> QED
    BY <2>1, <2>2, <2>3
<1> HIDE DEF f, g, h
<1>4. CASE Act(c, timeout)
  BY <1>4, TimeoutMoves
<1>5. CASE /\ e.pending # None
           /\ Act(c, ServeDeferred(c, Send([n EXCEPT !.ep = f], e.pending)))
  BY <1>1, <1>3, <1>5, ResendMoves DEF Packets
<1>6. CASE /\ e.commit # None
           /\ Act(c, ServeDeferred(c, Send([n EXCEPT !.ep = g], Packet("commit", e.commit, <<>>))))
  <2>1. Packet("commit", e.commit, <<>>) \in Harmless
    <3>1. e.commit \in Nat
      BY <1>1, <1>6
    <3> HIDE DEF e
    <3> QED
      BY <3>1, BitSeqFacts, ReplyIsHarmless
  <2> QED
    BY <1>3, <1>6, <2>1, ResendMoves DEF Packets
<1>7. CASE /\ e.reset # None
           /\ Act(c, ServeDeferred(c, Send([n EXCEPT !.ep = h], Packet("reset", e.reset, <<>>))))
  <2> DEFINE packet == Packet("reset", e.reset, <<>>)
  <2>1. packet \in Resets /\ packet.seq = e.reset /\ e.reset \in Nat
    <3>1. e.reset \in Nat
      BY <1>1, <1>7
    <3> HIDE DEF e
    <3> QED
      BY <3>1, BitSeqFacts, ReplyIsHarmless DEF Packet
  <2>2. e.control = e.reset + 1
    BY <1>7 DEF DeliveryInv, MarkersInOrder
  <2>3. packet.seq < ep[c].control
    BY <2>1, <2>2
  <2> HIDE DEF packet
  <2>4. Act(c, ServeDeferred(c, Send([Node(c) EXCEPT !.ep = h], packet)))
    BY <1>7 DEF packet
  <2> QED
    BY <1>3, <2>1, <2>3, <2>4, ResendMoves DEF Packets
<1>8. \/ Act(c, timeout)
      \/ /\ e.pending # None
         /\ Act(c, ServeDeferred(c, Send([n EXCEPT !.ep = f], e.pending)))
      \/ /\ e.commit # None
         /\ Act(c, ServeDeferred(c, Send([n EXCEPT !.ep = g], Packet("commit", e.commit, <<>>))))
      \/ /\ e.reset # None
         /\ Act(c, ServeDeferred(c, Send([n EXCEPT !.ep = h], Packet("reset", e.reset, <<>>))))
  BY <1>1, <1>2 DEF RetryRequest, RetryCommit, RetryReset
<1> QED
  BY <1>4, <1>5, <1>6, <1>7, <1>8

-----------------------------------------------------------------------------
(* The two steps that publish no node: the other side is gone, and the     *)
(* channel loses a packet.                                                 *)
LEMMA ClosedMoves ==
    ASSUME NEW c \in Consoles, DeliveryInv, PollClosed(c), Records(c)
    PROVE  Moves(c)
<1> DEFINE d == Peer(c)
           a == Abandon(ep[c])
           e == [a EXCEPT !.completed = None]
           p == Reset(port[c])
<1>1. /\ d \in Consoles /\ d # c /\ Peer(d) = c /\ \A x \in Consoles : x = c \/ x = d
      /\ DeliveryTypes /\ ep[c] \in Endpoint /\ port[c] \in Port /\ Sound(port[c])
  BY SideFacts DEF DeliveryInv, DeliveryTypes
<1> HIDE DEF d
<1>2. /\ e \in Endpoint /\ e.next = ep[c].next /\ e.control = ep[c].control
      /\ e.reset = ep[c].reset /\ e.peer_reset = ep[c].peer_reset
      /\ e.pending = None /\ e.deferred = None
  <2>1. /\ a \in Endpoint /\ a.next = ep[c].next /\ a.control = ep[c].control
        /\ a.reset = ep[c].reset /\ a.peer_reset = ep[c].peer_reset
        /\ a.pending = None /\ a.deferred = None
    BY <1>1, AbandonType
  <2> HIDE DEF a
  <2>2. e \in Endpoint /\ Alike(a, e) /\ e.pending = a.pending
    BY <2>1, CompletedField
  <2> QED
    BY <2>1, <2>2 DEF Alike
<1>3. p \in Port /\ Sound(p)
  BY <1>1, ResetSound DEF Sound
<1>4. /\ port' = [port EXCEPT ![c] = p] /\ ep' = [ep EXCEPT ![c] = e]
      /\ wire' = [wire EXCEPT ![c] = <<>>] /\ up' = [up EXCEPT ![c] = FALSE]
  BY DEF PollClosed
<1> HIDE DEF e, p
<1>5. /\ port'[d] = port[d] /\ ep'[d] = ep[d] /\ up'[d] = up[d] /\ wire'[d] = wire[d]
      /\ port'[c] = p /\ ep'[c] = e /\ ~up'[c] /\ wire'[c] = <<>>
  BY <1>1, <1>4 DEF DeliveryTypes
<1>6. log' = log
  BY <1>5 DEF Records
<1>7. DeliveryTypes'
  <2>1. /\ port' \in [Consoles -> Port] /\ ep' \in [Consoles -> Endpoint]
        /\ wire' \in [Consoles -> Seq(Packets)] /\ up' \in [Consoles -> BOOLEAN]
    BY <1>1, <1>2, <1>3, <1>4 DEF DeliveryTypes
  <2>2. \A x \in Consoles : Sound(port'[x])
    BY <1>1, <1>3, <1>5 DEF DeliveryTypes
  <2> QED
    BY <1>1, <1>6, <2>1, <2>2 DEF DeliveryTypes
<1>8. Alone(c)
  <2>1. Range(<<>>) = {}
    BY DEF Range
  <2> QED
    BY <1>5, <1>6, <2>1 DEF Alone, d
<1>9. Asking(c)
  BY <1>1, <1>2, <1>5 DEF Asking, RequestsTo, d
<1>10. Marking(c)
  BY <1>2, <1>5 DEF Marking, d
<1>11. Clocking(c)
  BY <1>2, <1>5, <1>6 DEF Clocking
<1> QED
  BY <1>7, <1>8, <1>9, <1>10, <1>11 DEF Moves

LEMMA RangeOfRemoveAt ==
    ASSUME NEW S, NEW s \in Seq(S), NEW i \in 1..Len(s)
    PROVE  RemoveAt(s, i) \in Seq(S) /\ Range(RemoveAt(s, i)) \subseteq Range(s)
<1> DEFINE a == SubSeq(s, 1, i - 1)
           b == SubSeq(s, i + 1, Len(s))
<1>1. Len(s) \in Nat /\ DOMAIN s = 1..Len(s)
  OBVIOUS
<1>2. /\ a \in Seq(S) /\ Len(a) = i - 1 /\ \A j \in 1..(i - 1) : a[j] = s[j]
      /\ b \in Seq(S) /\ Len(b) = Len(s) - i /\ \A j \in 1..(Len(s) - i) : b[j] = s[j + i]
  <2>1. a \in Seq(S) /\ Len(a) = i - 1 /\ \A j \in 1..(i - 1) : a[j] = s[j]
    BY <1>1
  <2>2. b \in Seq(S) /\ Len(b) = Len(s) - i
    <3>1. i + 1 \in Int /\ Len(s) \in Int
      BY <1>1
    <3>2. ASSUME NEW j \in (i + 1)..Len(s) PROVE s[j] \in S
      <4>1. j \in 1..Len(s)
        BY <1>1
      <4> QED
        BY <4>1
    <3>3. b \in Seq(S) /\ Len(b) = IF i + 1 <= Len(s) THEN Len(s) - (i + 1) + 1 ELSE 0
      BY <3>1, <3>2, SubSeqProperties
    <3>4. CASE i + 1 <= Len(s)
      BY <1>1, <3>3, <3>4
    <3>5. CASE i = Len(s)
      <4>1. Len(b) = 0 /\ Len(s) - i = 0
        <5>1. ~(i + 1 <= Len(s)) /\ Len(s) - i = 0
          BY <1>1, <3>5
        <5> QED
          BY <3>3, <5>1
      <4> QED
        BY <3>3, <4>1
    <3>6. i + 1 <= Len(s) \/ i = Len(s)
      <4>1. \A l \in Nat : \A k \in 1..l : k + 1 <= l \/ k = l
        OBVIOUS
      <4> QED
        BY <1>1, <4>1, Zenon
    <3> QED
      BY <3>4, <3>5, <3>6
  <2>3. ASSUME NEW j \in 1..(Len(s) - i) PROVE b[j] = s[j + i]
    <3>1. (i + 1) + j - 1 = j + i /\ i + 1 \in Nat /\ j \in 1..(Len(s) - (i + 1) + 1)
      BY <1>1
    <3>2. b[j] = s[(i + 1) + j - 1]
      BY <1>1, <3>1
    <3> QED
      BY <3>1, <3>2
  <2> QED
    BY <2>1, <2>2, <2>3
<1>3. RemoveAt(s, i) = a \o b
  BY DEF RemoveAt
<1> HIDE DEF a, b
<1>4. a \o b \in Seq(S) /\ Range(a \o b) = Range(a) \cup Range(b)
  BY <1>2, RangeOfConcat
<1>5. Range(a) \subseteq Range(s)
  <2> SUFFICES ASSUME NEW j \in DOMAIN a PROVE a[j] \in Range(s)
    BY DEF Range
  <2>1. j \in 1..(i - 1) /\ j \in DOMAIN s
    BY <1>1, <1>2
  <2> QED
    BY <1>2, <2>1 DEF Range
<1>6. Range(b) \subseteq Range(s)
  <2> SUFFICES ASSUME NEW j \in DOMAIN b PROVE b[j] \in Range(s)
    BY DEF Range
  <2>1. j \in 1..(Len(s) - i) /\ j + i \in DOMAIN s
    BY <1>1, <1>2
  <2> QED
    BY <1>2, <2>1 DEF Range
<1> QED
  BY <1>3, <1>4, <1>5, <1>6

LEMMA LosesMoves ==
    ASSUME NEW c \in Consoles, DeliveryInv,
           port' = port, ep' = ep, up' = up, log' = log,
           wire' \in [Consoles -> Seq(Packets)], wire'[Peer(c)] = wire[Peer(c)],
           Range(wire'[c]) \subseteq Range(wire[c])
    PROVE  Moves(c)
<1> DEFINE d == Peer(c)
<1>1. /\ d \in Consoles /\ d # c /\ Peer(d) = c /\ DeliveryTypes
  BY SideFacts DEF DeliveryInv
<1> HIDE DEF d
<1>2. Past(c)' = Past(c)
  BY DEF Past
<1>3. DeliveryTypes' /\ Alone(c)
  BY <1>1 DEF DeliveryTypes, Alone, d
<1>4. Asking(c)
  BY <1>1 DEF Asking, RequestsTo, d
<1>5. Marking(c)
  BY DEF Marking, d
<1>6. Clocking(c)
  BY <1>2 DEF Clocking, DeliveryInv, Remembered, NewerAfterReset
<1> QED
  BY <1>3, <1>4, <1>5, <1>6 DEF Moves

LEMMA LoseMoves ==
    ASSUME NEW c \in Consoles, DeliveryInv, Lose(c), log' = log
    PROVE  Moves(c)
<1>1. /\ Peer(c) \in Consoles /\ Peer(c) # c /\ wire[c] \in Seq(Packets)
      /\ wire \in [Consoles -> Seq(Packets)]
  BY SideFacts DEF DeliveryInv, DeliveryTypes
<1>2. PICK i \in 1..Len(wire[c]) : wire' = [wire EXCEPT ![c] = RemoveAt(@, i)]
  BY DEF Lose
<1>3. RemoveAt(wire[c], i) \in Seq(Packets) /\ Range(RemoveAt(wire[c], i)) \subseteq Range(wire[c])
  BY <1>1, RangeOfRemoveAt
<1>4. /\ wire' \in [Consoles -> Seq(Packets)] /\ wire'[Peer(c)] = wire[Peer(c)]
      /\ Range(wire'[c]) \subseteq Range(wire[c])
  BY <1>1, <1>2, <1>3
<1>5. port' = port /\ ep' = ep /\ up' = up
  BY DEF Lose
<1> QED
  BY <1>4, <1>5, LosesMoves

LEMMA StutterMoves ==
    ASSUME NEW c \in Consoles, DeliveryInv, UNCHANGED deliveryVars
    PROVE  Moves(c)
<1>1. wire' = wire /\ port' = port /\ ep' = ep /\ up' = up /\ log' = log
  BY DEF deliveryVars
<1>2. wire' \in [Consoles -> Seq(Packets)]
  BY <1>1 DEF DeliveryInv, DeliveryTypes
<1> QED
  BY <1>1, <1>2, LosesMoves

-----------------------------------------------------------------------------
LEMMA DeliveryInitial == DeliveryInit => DeliveryInv
<1> SUFFICES ASSUME DeliveryInit PROVE DeliveryInv
  OBVIOUS
<1>1. /\ ep = [c \in Consoles |-> Attached] /\ wire = [c \in Consoles |-> <<>>]
      /\ up = [c \in Consoles |-> TRUE] /\ log = [c \in Consoles |-> <<>>]
  BY DEF DeliveryInit, Init
<1>2. PICK byte \in [Consoles -> UNION {GuestBytes[c] : c \in Consoles}] :
         port = [c \in Consoles |-> PostBoot(byte[c], 0)]
  BY DEF DeliveryInit, Init
<1>3. \A c \in Consoles : byte[c] \in Byte
  <2> SUFFICES ASSUME NEW c \in Consoles PROVE byte[c] \in Byte
    OBVIOUS
  <2>1. PICK d \in Consoles : byte[c] \in GuestBytes[d]
    BY <1>2
  <2> QED
    BY <2>1, EndpointAssumption DEF Consoles
<1>4. \A c \in Consoles : port[c] \in Port /\ Sound(port[c])
  <2> SUFFICES ASSUME NEW c \in Consoles PROVE port[c] \in Port /\ Sound(port[c])
    OBVIOUS
  <2>1. port[c] = PostBoot(byte[c], 0) /\ byte[c] \in Byte
    BY <1>2, <1>3
  <2> DEFINE b == byte[c]
  <2> HIDE DEF b
  <2>2. PostBoot(b, 0) \in Port /\ Sound(PostBoot(b, 0))
    <3>1. b \in Byte /\ 0 \in 0..(NormalPeriod - 1)
      BY <2>1, PortAssumption DEF b
    <3>2. PostBoot(b, 0) \in Port
      BY <3>1, PostBootType
    <3> QED
      BY <3>2 DEF PostBoot, Sound, Stopped, Drives
  <2> QED
    BY <2>1, <2>2 DEF b
<1>5. DeliveryTypes
  <2>1. port \in [Consoles -> Port]
    BY <1>2, <1>4
  <2> QED
    BY <1>1, <1>4, <2>1, AttachedType DEF DeliveryTypes
<1>6. /\ Attached.pending = None /\ Attached.deferred = None /\ Attached.served = None
      /\ Attached.reset = None /\ Attached.control = 0
  BY DEF Attached
<1>7. \A c \in Consoles : /\ ep[c] = Attached /\ RequestsTo(c) = {} /\ Past(c) = {}
                          /\ Range(wire[c]) = {} /\ DOMAIN log[c] = {}
                          /\ Range(wire[Peer(c)]) = {}
  BY <1>1, <1>6, SideFacts DEF RequestsTo, Past, Range
<1>8. Numbered /\ Remembered /\ NewerAfterReset /\ QuietWhileReset
  BY <1>6, <1>7 DEF Numbered, Remembered, NewerAfterReset, QuietWhileReset, Tidy
<1>9. MarkersInOrder
  <2> SUFFICES ASSUME NEW c \in Consoles
               PROVE  /\ ep[c].reset = None /\ ~(ep[c].control > 0)
                      /\ Range(wire[c]) = {} /\ Range(wire[Peer(c)]) = {}
    <3>1. \A c \in Consoles : /\ ep[c].reset = None /\ ~(ep[c].control > 0)
                              /\ \A q \in Range(wire[c]) : FALSE
                              /\ \A q \in Range(wire[Peer(c)]) : FALSE
      OBVIOUS
    <3> QED
      BY <3>1 DEF MarkersInOrder
  <2>1. ep[c] = Attached /\ Range(wire[c]) = {} /\ Range(wire[Peer(c)]) = {}
    BY <1>7
  <2>2. ep[c].reset = None /\ ep[c].control = 0
    BY <1>6, <2>1
  <2> QED
    BY <2>1, <2>2
<1>10. ClockedOnce
  BY <1>7 DEF ClockedOnce
<1> QED
  BY <1>5, <1>8, <1>9, <1>10 DEF DeliveryInv

LEMMA DeliveryStep ==
    ASSUME DeliveryInv, [DeliveryNext /\ QuietResets]_deliveryVars
    PROVE  DeliveryInv'
<1>1. CASE UNCHANGED deliveryVars
  <2>1. Host \in Consoles
    BY DEF Consoles
  <2> QED
    BY <1>1, <2>1, StutterMoves, MovesKeepInv
<1>2. ASSUME NEW c \in Consoles, Clocks(c) PROVE Moves(c)
  <2>1. Poll(c) /\ Records(c)
    BY <1>2 DEF Clocks, Records
  <2> QED
    BY <2>1, PacketMoves, DeferredMoves, ClosedMoves, RetryMoves DEF Poll
<1>3. ASSUME NEW c \in Consoles, QuietResets, Drive(c) \/ Others(c) PROVE Moves(c)
  <2>1. log' = log /\ (Guest(c) \/ ResetLink(c) \/ Lose(c))
    BY <1>3 DEF Drive, Others, Guest
  <2> QED
    BY <1>3, <2>1, GuestMoves, ResetMoves, LoseMoves
<1> QED
  BY <1>1, <1>2, <1>3, MovesKeepInv DEF DeliveryNext

\* Guests and timers that do as they like, resets of a quiet link.
QuietSpec == DeliveryInit /\ [][DeliveryNext /\ QuietResets]_deliveryVars

(* Whatever the guests write, whenever requests are sent again and however *)
(* many packets are lost: if the link is only reset while it is quiet, no  *)
(* request is clocked into a guest twice and none out of order. The side   *)
(* remembers the last request it has served (last_peer_request_sequence_)  *)
(* and answers a duplicate from its cached response; only a reset makes it *)
(* forget, and the reset's own marker and its acknowledgement keep older   *)
(* requests from arriving after that.                                      *)
THEOREM QuietLinkClocksOnce == QuietSpec => []ClockedOnce
<1>1. DeliveryInv /\ [DeliveryNext /\ QuietResets]_deliveryVars => DeliveryInv'
  BY DeliveryStep
<1>2. DeliveryInv => ClockedOnce
  BY DEF DeliveryInv
<1> QED
  BY DeliveryInitial, <1>1, <1>2, PTL DEF QuietSpec

(* The same of the two specifications the runs start from.                 *)
THEOREM LinkClocksOnce == DeliverySpec \/ EarlyRetrySpec => []ClockedOnce
<1>1. DeliveryNext /\ Steady /\ Patient /\ AccurateRetries /\ QuietResets
         => DeliveryNext /\ QuietResets
  OBVIOUS
<1>2. DeliveryNext /\ Steady /\ Patient /\ QuietResets => DeliveryNext /\ QuietResets
  OBVIOUS
<1>3. DeliverySpec => QuietSpec
  BY <1>1, PTL DEF DeliverySpec, QuietSpec
<1>4. EarlyRetrySpec => QuietSpec
  BY <1>2, PTL DEF EarlyRetrySpec, QuietSpec
<1> QED
  BY <1>3, <1>4, QuietLinkClocksOnce
=============================================================================
