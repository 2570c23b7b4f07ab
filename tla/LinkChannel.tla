------------------------------ MODULE LinkChannel ------------------------------
(***************************************************************************)
(* A packet channel over a byte stream (src/src/tcp_link_channel.cpp, and  *)
(* in the same words src/src/bluetooth_link_channel.cpp on Windows) with   *)
(* the codec that frames its packets (src/src/link_packet_codec.cpp): the  *)
(* host's end, the joiner's end and the stream between them. A packet is   *)
(* its payload; a frame is a header of two bytes, a payload of two and a   *)
(* checksum of one. One connection exists at a time.                       *)
(***************************************************************************)
EXTENDS Naturals, SequencesExt

CONSTANTS Host, Join,   \* the two ends
          Packets,      \* payloads: pairs of bytes
          MaxQueued,    \* maximum_queued_packets
          Pieces,       \* bound: the lengths in which bytes go out and arrive
          MaxPackets,   \* bound: packets that one of the ends sends
          MaxJoins,     \* bound: connections attempted
          MaxDamage     \* bound: bytes changed on their way

VARIABLES
    chan,      \* an end's own data
    listener,  \* listener_ is open
    backlog,   \* a connection waits there to be accepted
    flow,      \* the bytes on their way to an end
    accepted,  \* packets that send() took
    joins, damage

chanVars == <<chan, listener, backlog, flow, accepted, joins, damage>>

Ends == {Host, Join}
Other(e) == CHOOSE o \in Ends : o # e

\* An end whose socket and buffers are gone.
Blank(state) ==
    [state |-> state, socket |-> "none", unsent |-> <<>>, buffer |-> <<>>, packets |-> <<>>]

ChannelInit ==
    /\ chan = [e \in Ends |-> Blank("disconnected")]
    /\ listener = FALSE /\ backlog = FALSE
    /\ flow = [e \in Ends |-> <<>>]
    /\ accepted = [e \in Ends |-> 0]
    /\ joins = 0 /\ damage = 0

-----------------------------------------------------------------------------
(* The codec.                                                              *)
Symbols == {"G", "B", "c", "d", "?"} \union UNION {{p[1], p[2]} : p \in Packets}
WireSize == 5
MaxBuffered == MaxQueued * WireSize
Checksum(payload) == IF payload = <<"G", "B">> THEN "c" ELSE "d"
Encode(payload) == <<"G", "B">> \o payload \o <<Checksum(payload)>>

\* decode(): the payload has to be one that is sent (the type is known).
Decodes(frame) == \E p \in Packets : frame = Encode(p)
Payload(frame) == SubSeq(frame, 3, 4)
FirstFrame(bytes) == SubSeq(bytes, 1, WireSize)
After(bytes, n) == SubSeq(bytes, n + 1, Len(bytes))

HeadersIn(bytes) ==
    {i \in 1..(Len(bytes) - 1) : bytes[i] = "G" /\ bytes[i + 1] = "B"}

PastBadFrame(bytes) == After(bytes, WireSize)

\* A damaged frame may hide the header of the next one.
PastBad(bytes) == Tail(bytes)

MoreThanComplete(bytes) == Len(bytes) > WireSize

Complete(bytes) == Len(bytes) >= WireSize

\* A trailing G may be the first half of a header.
KeepSplitHeader(bytes) == IF bytes # <<>> /\ Last(bytes) = "G" THEN <<"G">> ELSE <<>>

DecodeStream[bytes \in Seq(Symbols), packets \in Seq(Packets)] ==
    LET headers == HeadersIn(bytes)
        result(buffer, ok) == [buffer |-> buffer, packets |-> packets, ok |-> ok]
    IN  IF Len(bytes) < 2 THEN result(bytes, TRUE)
        ELSE IF headers = {} THEN result(KeepSplitHeader(bytes), TRUE)
        ELSE IF 1 \notin headers THEN DecodeStream[After(bytes, Min(headers) - 1), packets]
        ELSE IF ~Complete(bytes) THEN result(bytes, TRUE)
        ELSE IF ~Decodes(FirstFrame(bytes)) THEN DecodeStream[PastBad(bytes), packets]
        ELSE IF Len(packets) >= MaxQueued THEN result(bytes, FALSE)
        ELSE DecodeStream[After(bytes, WireSize), Append(packets, Payload(bytes))]

-----------------------------------------------------------------------------
(* The connection, as the system keeps it.                                 *)
Attached(e) == chan[e].socket = "open" \/ (e = Host /\ backlog)
Live == Attached(Host) /\ Attached(Join)

\* End e lets go of its connection: what it has not read is lost, and what
\* it sent last may be.
Hangs(e) ==
    \E rest \in {flow[Other(e)], <<>>} : flow' = [flow EXCEPT ![e] = <<>>, ![Other(e)] = rest]

Fail(e) ==
    /\ chan' = [chan EXCEPT ![e] = Blank("failed")]
    /\ Hangs(e)
    /\ UNCHANGED backlog

Establish ==
    /\ chan[Join].socket = "trying" /\ listener /\ ~Attached(Host)
    /\ chan' = [chan EXCEPT ![Join].socket = "open"]
    /\ backlog' = TRUE
    /\ flow' = [e \in Ends |-> <<>>]
    /\ UNCHANGED <<listener, accepted, joins, damage>>

Refuse ==
    /\ chan[Join].socket = "trying" /\ ~listener
    /\ chan' = [chan EXCEPT ![Join].socket = "refused"]
    /\ UNCHANGED <<listener, backlog, flow, accepted, joins, damage>>

Disturb(e) ==
    /\ damage < MaxDamage /\ Live
    /\ \E i \in DOMAIN flow[e] : flow' = [flow EXCEPT ![e][i] = "?"]
    /\ damage' = damage + 1
    /\ UNCHANGED <<chan, listener, backlog, accepted, joins>>

-----------------------------------------------------------------------------
(* The operations of an end.                                               *)
Close(e) ==
    /\ chan[e].state # "disconnected"
    /\ chan' = [chan EXCEPT ![e] = Blank("disconnected")]
    /\ Hangs(e)
    /\ listener' = (listener /\ e # Host) /\ backlog' = (backlog /\ e # Host)
    /\ UNCHANGED <<accepted, joins, damage>>

Listen ==
    /\ \/ listener' = TRUE  /\ chan' = [chan EXCEPT ![Host] = Blank("listening")]
       \/ listener' = FALSE /\ chan' = [chan EXCEPT ![Host] = Blank("failed")]
    /\ Hangs(Host)
    /\ backlog' = FALSE
    /\ joins < MaxJoins /\ joins' = joins + 1
    /\ UNCHANGED <<accepted, damage>>

Connect ==
    /\ chan' = [chan EXCEPT ![Join] = [Blank("connecting") EXCEPT !.socket = "trying"]]
          \/ chan' = [chan EXCEPT ![Join] = Blank("failed")]
    /\ Hangs(Join)
    /\ joins < MaxJoins /\ joins' = joins + 1
    /\ UNCHANGED <<listener, backlog, accepted, damage>>

Parts(bytes) == {Min({n, Len(bytes)}) : n \in Pieces}

\* The first n bytes that end e holds go out; to an end that is gone they
\* go unnoticed.
Sent(e, n) == IF Live THEN flow[Other(e)] \o SubSeq(chan[e].unsent, 1, n) ELSE flow[Other(e)]

\* flush_send_queue() and receive_available() of a connected end.
Traffic(e) ==
    \/ \E n \in Parts(chan[e].unsent), k \in Parts(flow[e]) :
          LET stream == chan[e].buffer \o SubSeq(flow[e], 1, k)
              read == DecodeStream[stream, chan[e].packets]
          IN  IF Len(stream) > MaxBuffered \/ ~read.ok THEN Fail(e)
              ELSE /\ chan' = [chan EXCEPT ![e].state = "connected", ![e].socket = "open",
                                 ![e].unsent = After(@, n),
                                 ![e].buffer = read.buffer, ![e].packets = read.packets]
                   /\ flow' = [flow EXCEPT ![e] = After(@, k), ![Other(e)] = Sent(e, n)]
                   /\ backlog' = (backlog /\ e # Host)
    \/ /\ ~Attached(Other(e))   \* the end of the stream, or an error
       /\ Fail(e)

\* The first half of poll() leads to a connection, or not.
Poll(e) ==
    /\ UNCHANGED <<listener, accepted, joins, damage>>
    /\ \/ chan[e].state = "connected" /\ Traffic(e)
       \/ /\ chan[e].state = "listening" /\ backlog
          /\ \/ Traffic(e)
             \/ /\ backlog' = FALSE    \* the accepted socket is of no use
                /\ Hangs(e) /\ UNCHANGED chan
       \/ chan[e].state = "connecting" /\ chan[e].socket = "open" /\ Traffic(e)
       \/ chan[e].state = "connecting" /\ chan[e].socket = "refused" /\ Fail(e)

\* send(): what is held is flushed before and after the packet is added. A
\* packet that does not fit behind what is left is not taken.
Send(e) ==
    /\ chan[e].state = "connected"
    /\ accepted[e] < MaxPackets /\ accepted[Other(e)] = 0
    /\ UNCHANGED <<listener, joins, damage>>
    /\ \/ /\ ~Attached(Other(e))
          /\ Fail(e) /\ UNCHANGED accepted
       \/ \E p \in Packets, n \in Parts(chan[e].unsent) :
             LET held == After(chan[e].unsent, n)
                 all  == chan[e].unsent \o Encode(p)
             IN  \/ /\ Len(held) > MaxBuffered - WireSize
                    /\ chan' = [chan EXCEPT ![e].unsent = held]
                    /\ flow' = [flow EXCEPT ![Other(e)] = Sent(e, n)]
                    /\ UNCHANGED <<backlog, accepted>>
                 \/ \E m \in Parts(all) :
                       /\ m >= n /\ Len(held) <= MaxBuffered - WireSize
                       /\ chan' = [chan EXCEPT ![e].unsent = After(all, m)]
                       /\ flow' = IF Live THEN [flow EXCEPT ![Other(e)] = @ \o SubSeq(all, 1, m)]
                                  ELSE flow
                       /\ accepted' = [accepted EXCEPT ![e] = @ + 1]
                       /\ UNCHANGED backlog

Receive(e) ==
    /\ UNCHANGED <<listener, backlog, flow, accepted, joins, damage>>
    /\ chan[e].packets # <<>>
    /\ chan' = [chan EXCEPT ![e].packets = Tail(@)]

ChannelNext ==
    \/ Establish \/ Refuse \/ Listen \/ Connect
    \/ \E e \in Ends : Close(e) \/ Poll(e) \/ Send(e) \/ Receive(e) \/ Disturb(e)

\* Each frontend polls its channel and takes its packets in every frame.
FairChannelSpec ==
    /\ ChannelInit /\ [][ChannelNext]_chanVars
    /\ \A e \in Ends : WF_chanVars(Poll(e)) /\ WF_chanVars(Receive(e))

-----------------------------------------------------------------------------
(* What is still to come, and what the channel promises of it.             *)
\* The intact packets in a stretch of bytes, wherever they begin.
Whole[bytes \in Seq(Symbols)] ==
    LET begins(i) == /\ i + WireSize <= Len(bytes) + 1 /\ bytes[i] = "G"
                     /\ Decodes(SubSeq(bytes, i, i + WireSize - 1))
        starts == SelectSeq([i \in DOMAIN bytes |-> i], begins)
    IN  [k \in DOMAIN starts |-> Payload(After(bytes, starts[k] - 1))]

Pending(e) ==
    LET behind == IF Live THEN chan[Other(e)].unsent ELSE <<>>
    IN  IF ~Attached(e) THEN <<>>
        ELSE chan[e].packets \o Whole[chan[e].buffer \o flow[e] \o behind]

\* However the stream is split into reads and writes, and whatever damaged
\* bytes stand before it, a packet that send() accepted is received exactly
\* once and in order unless the connection ends; frames that are not what
\* was sent are never received.
Fifo == INSTANCE LinkFifo WITH pending <- [e \in Ends |-> Pending(e)], live <- Live
ImplementsFifo == Fifo!FifoSpec

\* What was sent to a connected end does not stay in a buffer: it is received,
\* or the connection ends.
EverythingArrives ==
    \A e \in Ends :
        chan[e].state = "connected" /\ Pending(e) # <<>> ~> Pending(e) = <<>>

=============================================================================
