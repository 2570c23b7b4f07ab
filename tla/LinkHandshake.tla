---------------------------- MODULE LinkHandshake ----------------------------
(***************************************************************************)
(* How the two ends of a remote link come to trust each other, and how     *)
(* long they go on doing so (src/src/tcp_serial_endpoint.cpp, attach() and *)
(* poll() without the serial packets): the hello in several parts, the     *)
(* digest of both consoles' identity and its acknowledgement, their        *)
(* retransmission, heartbeats, the time limit on silence, Android's        *)
(* suspension, and the frontend that turns an incompatible peer away.      *)
(* A tick is a pass of both frontend loops, each of which polls once.      *)
(***************************************************************************)
EXTENDS Naturals, FiniteSets, SequencesExt

CONSTANTS Host, Join,
          BaseParts,      \* parts of the base hello (5); one more: the profile
          MaxRetries,     \* maximum_handshake_retries
          RetryTicks,     \* both retry intervals, in ticks
          Interval,       \* heartbeat_interval, in ticks
          Silence,        \* heartbeat_timeout, in ticks
          Lossy,          \* the kinds of packets the channel may lose
          MaxWait,        \* bound: ticks between attach() and the connection
          MaxTroubles     \* bound: packets lost, ends that vanish without
                          \* closing and ticks somebody is suspended

VARIABLES alike,    \* what the two consoles have in common
          ep,       \* the endpoints
          wire,     \* packets on their way to each end
          fault,    \* why protocol_fault() closed the link, per end
          gone,     \* ends that vanished: power or network is lost
          joined,   \* the transport has connected the two
          polled,   \* ends that polled since the last tick
          waited, troubles

shakeVars == <<alike, ep, wire, fault, gone, joined, polled, waited, troubles>>

Ends    == {Host, Join}
OtherEnd(c) == IF c = Host THEN Join ELSE Host

ProfilePart == BaseParts
LastPart    == BaseParts

\* attach(): every retransmission is due, nothing is known of the peer.
Attached ==
    [channel   |-> "waiting",
     part      |-> 0,        \* hello_parts_sent_
     said      |-> FALSE,    \* hello_sent_
     retries   |-> 0,        \* handshake_retries_
     hello_in  |-> 0,        \* ticks until next_hello_retry_
     digest_in |-> 0,        \* ticks until next_state_digest_retry_
     known     |-> FALSE,    \* peer_session_id_ is set
     heard     |-> {},       \* hello_parts_received_
     hello     |-> FALSE,    \* peer_hello_seen_
     profile   |-> FALSE,    \* peer_profile_seen_
     compatible |-> TRUE,    \* peer_compatible_
     digest    |-> FALSE,    \* state_digest_sent_
     valid     |-> FALSE,    \* state_digest_valid_
     acked     |-> FALSE,    \* state_digest_acknowledged_
     quiet     |-> 0,        \* ticks since last_peer_activity_
     beat      |-> 0,        \* ticks since last_heartbeat_sent_
     suspended |-> FALSE]

\* The compatibility ID, the profile's modes, the port's state at attach().
ShakeInit ==
    /\ alike \in [id : BOOLEAN, profile : BOOLEAN, state : BOOLEAN]
    /\ ep = [c \in Ends |-> Attached]
    /\ wire = [c \in Ends |-> <<>>]
    /\ fault = [c \in Ends |-> "none"]
    /\ gone = {}
    /\ joined = FALSE
    /\ polled = {}
    /\ waited = 0 /\ troubles = 0

Packet(kind, part) == [kind |-> kind, part |-> part]

\* state_digest() of both ends is the same number.
SameDigest == alike.id /\ alike.state

-----------------------------------------------------------------------------
(* poll() works on a node: the endpoint, what it sends, its fault.         *)
Send(n, packet) == [n EXCEPT !.out = Append(@, packet)]
Fault(n, why)   == [n EXCEPT !.fault = why]

\* The hello starts over until the digest is acknowledged, a few times only.
RetryHello(n) ==
    IF ~(n.ep.said /\ ~n.ep.acked /\ n.ep.hello_in = 0) THEN n
    ELSE IF n.ep.retries >= MaxRetries THEN Fault(n, "handshake")
    ELSE [n EXCEPT !.ep.said = FALSE, !.ep.part = 0, !.ep.retries = @ + 1]

\* One part of the hello per poll.
SayHello(n) ==
    IF n.ep.said THEN n
    ELSE LET part == n.ep.part
             last == part = LastPart
         IN  Send([n EXCEPT !.ep.part = part + 1, !.ep.said = last,
                            !.ep.hello_in = IF last THEN RetryTicks ELSE @],
                  Packet("hello", part))

SendDigestOnce(n) ==
    IF n.ep.hello /\ n.ep.known /\ ~n.ep.digest
      THEN Send([n EXCEPT !.ep.digest = TRUE], Packet("digest", 0))
      ELSE n

SendDigest(n) ==
    IF n.ep.hello /\ n.ep.known /\ (~n.ep.digest \/ ~n.ep.acked)
         /\ n.ep.digest_in = 0
      THEN Send([n EXCEPT !.ep.digest = TRUE, !.ep.digest_in = RetryTicks],
                Packet("digest", 0))
      ELSE n

(* The parts may come in any order and more than once; the profile counts  *)
(* when it is there, whichever comes first.                                *)
HearHello(n, part) ==
    LET heard    == IF part = ProfilePart THEN n.ep.heard
                    ELSE n.ep.heard \union {part}
        complete == heard = 0 .. (BaseParts - 1)
        profile  == n.ep.profile \/ part = ProfilePart
    IN  [n EXCEPT !.ep.heard = heard, !.ep.profile = profile,
                  !.ep.hello = complete,
                  !.ep.compatible =
                      IF complete THEN alike.id /\ (profile => alike.profile)
                      ELSE @]

HearDigest(n) ==
    IF ~SameDigest THEN Fault(n, "mismatch")
    ELSE Send([n EXCEPT !.ep.valid = TRUE], Packet("digest_ack", 0))

Handle(n, packet) ==
    IF n.fault # "none" THEN n
    ELSE IF ~n.ep.known /\ packet.kind # "hello" THEN Fault(n, "no_hello")
    ELSE LET m == [n EXCEPT !.ep.known = TRUE, !.ep.quiet = 0]
         IN  CASE packet.kind = "hello"      -> HearHello(m, packet.part)
               [] packet.kind = "digest"     -> HearDigest(m)
               [] packet.kind = "digest_ack" ->
                    [m EXCEPT !.ep.acked = @ \/ SameDigest]
               [] packet.kind = "heartbeat"  ->
                    Send(m, Packet("heartbeat_ack", 0))
               [] packet.kind = "heartbeat_ack" -> m

\* Silence is judged after what has arrived was handled.
CheckSilence(n) ==
    IF n.ep.quiet >= Silence THEN Fault(n, "silence") ELSE n

BeatForBoth(n) ==
    IF n.ep.beat >= Interval
      THEN Send([n EXCEPT !.ep.beat = 0, !.ep.quiet = 0], Packet("heartbeat", 0))
      ELSE n

Beat(n) ==
    IF n.ep.beat >= Interval
      THEN Send([n EXCEPT !.ep.beat = 0], Packet("heartbeat", 0))
      ELSE n

\* poll() takes all that has arrived, packet by packet.
Received(n, packets) ==
    LET h[i \in 0..Len(packets)] ==
            IF i = 0 THEN n ELSE Handle(h[i - 1], packets[i])
    IN  h[Len(packets)]

\* The rest of poll() is skipped once a fault was raised.
Unless(n, m) == IF n.fault # "none" THEN n ELSE m

PollOpen(c) ==
    LET start    == [ep |-> [ep[c] EXCEPT !.channel = "open"],
                     out |-> <<>>, fault |-> "none"]
        retried  == RetryHello(start)
        spoken   == Unless(retried, SendDigest(SayHello(retried)))
        received == Unless(spoken, Received(spoken, wire[c]))
        checked  == Unless(received, CheckSilence(received))
    IN  Unless(checked, Beat(checked))

\* An end that has a connection to look after.
Alive(c) == joined /\ c \notin gone /\ ep[c].channel # "closed"

\* Nothing reaches an end that vanished.
Carried(c, packets) == IF OtherEnd(c) \in gone THEN <<>> ELSE packets

(* The channel's poll() accepts or completes the connection, and fails     *)
(* once the peer has closed its end; protocol_fault() closes this one.     *)
Poll(c) ==
    /\ Alive(c) /\ ~ep[c].suspended /\ c \notin polled
    /\ polled' = polled \union {c}
    /\ IF ep[OtherEnd(c)].channel = "closed"
         THEN /\ ep' = [ep EXCEPT ![c].channel = "closed"]
              /\ wire' = [wire EXCEPT ![c] = <<>>]
              /\ UNCHANGED fault
         ELSE LET n == PollOpen(c)
                  channel == IF n.fault = "none" THEN "open" ELSE "closed"
              IN  /\ ep' = [ep EXCEPT ![c] = [n.ep EXCEPT !.channel = channel]]
                  /\ wire' = [wire EXCEPT ![c] = <<>>,
                                          ![OtherEnd(c)] = Carried(c, @ \o n.out)]
                  /\ fault' = [fault EXCEPT ![c] = n.fault]
    /\ UNCHANGED <<alike, gone, joined, waited, troubles>>

\* The frontend's loop stops a session whose peer it cannot play with.
TurnAway(c) ==
    /\ c \notin gone /\ ep[c].channel = "open"
    /\ ep[c].hello /\ ~ep[c].compatible
    /\ ep' = [ep EXCEPT ![c].channel = "closed"]
    /\ wire' = [wire EXCEPT ![c] = <<>>]
    /\ UNCHANGED <<alike, fault, gone, joined, polled, waited, troubles>>

-----------------------------------------------------------------------------
(* The joiner's connection reaches the host. Until then each end has been  *)
(* attached since it began to listen or to connect.                        *)
Link ==
    /\ ~joined
    /\ joined' = TRUE
    /\ UNCHANGED <<alike, ep, wire, fault, gone, polled, waited, troubles>>

Trouble == troubles < MaxTroubles /\ troubles' = troubles + 1

Down(n)      == IF n > 0 THEN n - 1 ELSE 0
Up(n, limit) == IF n < limit THEN n + 1 ELSE n

Passed(e) == [e EXCEPT !.hello_in = Down(@), !.digest_in = Down(@),
                        !.quiet = Up(@, Silence), !.beat = Up(@, Interval)]

Sleepers == {c \in Ends \ gone : ep[c].suspended}

(* Who runs has polled in the tick that ends; who sleeps or is gone has    *)
(* not. Before the connection the host is attached; the joiner, once it is,*)
(* stays so.                                                               *)
PassTick ==
    /\ \A c \in Ends \ (Sleepers \union polled) : ~Alive(c)
    /\ IF joined THEN UNCHANGED waited
       ELSE waited < MaxWait /\ waited' = waited + 1
    /\ IF Sleepers = {} THEN UNCHANGED troubles
       ELSE Trouble
    /\ \E attached \in {{Host}, Ends} :
          /\ ep[Join].quiet > 0 => Join \in attached
          /\ ep' = [c \in Ends |-> IF Alive(c) \/ (~joined /\ c \in attached)
                                  THEN Passed(ep[c]) ELSE ep[c]]
    /\ polled' = {}
    /\ UNCHANGED <<alike, wire, fault, gone, joined>>

\* Android's activity goes to the background and comes back.
Suspend(c) ==
    /\ c \in polled \ gone /\ ~ep[c].suspended /\ troubles < MaxTroubles
    /\ ep' = [ep EXCEPT ![c].suspended = TRUE]
    /\ UNCHANGED <<alike, wire, fault, gone, joined, polled, waited, troubles>>

Resume(c) ==
    /\ ep[c].suspended
    /\ ep' = [ep EXCEPT ![c].suspended = FALSE]
    /\ UNCHANGED <<alike, wire, fault, gone, joined, polled, waited, troubles>>

Vanish(c) ==
    /\ c \notin gone /\ Trouble
    /\ gone' = gone \union {c}
    /\ wire' = [wire EXCEPT ![c] = <<>>]
    /\ UNCHANGED <<alike, ep, fault, joined, polled, waited>>

Lose(c) ==
    /\ Trouble
    /\ \E i \in DOMAIN wire[c] :
          /\ wire[c][i].kind \in Lossy
          /\ wire' = [wire EXCEPT ![c] = RemoveAt(@, i)]
    /\ UNCHANGED <<alike, ep, fault, gone, joined, polled, waited>>

ShakeNext ==
    \/ Link \/ PassTick
    \/ \E c \in Ends : \/ Poll(c) \/ TurnAway(c) \/ Suspend(c)
                       \/ Resume(c) \/ Vanish(c) \/ Lose(c)

HandshakeSpec == ShakeInit /\ [][ShakeNext]_shakeVars

(* The loop of an end that runs polls again and again, time passes, a      *)
(* connection that was asked for comes about, a sleeper wakes up and the   *)
(* frontend acts on what it sees.                                          *)
FairHandshakeSpec ==
    /\ HandshakeSpec
    /\ WF_shakeVars(Link) /\ WF_shakeVars(PassTick)
    /\ \A c \in Ends : /\ []<>(Alive(c) => c \in polled)
                        /\ WF_shakeVars(Resume(c)) /\ WF_shakeVars(TurnAway(c))

-----------------------------------------------------------------------------
(* The limits of a link in proportion: silence is judged after more than   *)
(* the wait for the peer, a heartbeat and what every trouble costs, and    *)
(* the hello is repeated for longer than the digest and its                *)
(* acknowledgement take, each trouble costing one retry. No part of the    *)
(* hello is lost, as on a stream. In sixtieths of a second the code's      *)
(* heartbeat is 60, its time limit 300, its retry 15, with 24 retries of a *)
(* hello of 5 parts and the profile.                                       *)
Limits ==
    /\ Host # Join
    /\ BaseParts \in Nat \ {0} /\ MaxRetries \in Nat /\ RetryTicks \in Nat \ {0}
    /\ Interval \in Nat \ {0} /\ Silence \in Nat /\ MaxWait \in Nat /\ MaxTroubles \in Nat
    /\ "hello" \notin Lossy
    /\ MaxWait + Interval + (Interval + 1) * MaxTroubles < Silence
    /\ BaseParts + 3 + (RetryTicks + 3) * MaxTroubles
         < (MaxRetries + 1) * (RetryTicks + BaseParts)

Alike == alike.id /\ alike.profile /\ alike.state

(* Two consoles that can play together, neither of which disappears, are   *)
(* never parted by the handshake or the heartbeat: not by one lost digest, *)
(* acknowledgement or heartbeat, a tick of suspension, nor by the time it  *)
(* took them to connect.                                                   *)
AlikeStayTogether == Alike /\ gone = {} => \A c \in Ends : fault[c] = "none"

(* Both ends of a link between alike consoles come to be ready, also when  *)
(* a digest, an acknowledgement or a heartbeat was lost, unless one of them*)
(* vanishes. A lost part of the hello is another matter: the end that lacks*)
(* it acknowledges the digest all the same, and its peer repeats no hello  *)
(* any more (tcp_serial_endpoint.cpp:540).                                 *)
AlikeBecomeReady ==
    Alike ~> (gone # {} \/ \A c \in Ends : ep[c].hello /\ ep[c].valid /\ ep[c].acked)

(* An end that vanishes does not leave the other connected to nothing.     *)
SilenceEnds ==
    \A c \in Ends : c \in gone ~> (OtherEnd(c) \in gone \/ ep[OtherEnd(c)].channel = "closed")
=============================================================================
