---------------------------- MODULE MCLinkSession ----------------------------
(***************************************************************************)
(* Two ways to watch over a link, one after another in one run: the local  *)
(* session (LinkSession) and the handshake and heartbeats of a remote one  *)
(* (LinkHandshake). `subject` is the one a behaviour is about, and the     *)
(* other stays as it is first. Of the local session's data one guest byte  *)
(* of two bits is enough.                                                  *)
(***************************************************************************)
EXTENDS LinkSession, LinkHandshake

CONSTANTS one, two, none, host, join

VARIABLE subject

MCBytes == { <<1, 1>> }
MCProbe == <<1, 1>>
MCDmg   == {FALSE}
MCTicks == {1, 2}

\* One packet after the hello may be lost.
MCAnswers == {"digest", "digest_ack", "heartbeat", "heartbeat_ack"}

\* The hypothesis of the theorem about AlikeStayTogether.
ASSUME HandshakeLimits == Limits

LinkInit ==
    /\ subject \in {"session", "handshake"}
    /\ SessionInit
    /\ subject # "session" => \A c \in Consoles : port[c] = PostBoot(<<1, 1>>, 0)
    /\ ShakeInit
    /\ subject # "handshake" => ~alike.id /\ ~alike.profile /\ ~alike.state

LinkNext ==
    /\ UNCHANGED subject
    /\ \/ /\ subject = "session" /\ SessionNext
          /\ UNCHANGED shakeVars
       \/ /\ subject = "handshake" /\ ShakeNext
          /\ UNCHANGED sessionVars

\* The fairness of FairSessionSpec and of FairHandshakeSpec.
LinkSpec ==
    /\ LinkInit
    /\ [][LinkNext]_<<subject, sessionVars, shakeVars>>
    /\ WF_sessionVars(subject = "session" /\ Advance)
    /\ WF_shakeVars(subject = "handshake" /\ Link)
    /\ WF_shakeVars(subject = "handshake" /\ PassTick)
    /\ \A c \in Ends :
          /\ []<>(Alive(c) => c \in polled)
          /\ WF_shakeVars(subject = "handshake" /\ Resume(c))
          /\ WF_shakeVars(subject = "handshake" /\ TurnAway(c))
=============================================================================
