--------------------------- MODULE RemoteReconnect ---------------------------
(***************************************************************************)
(* The front end's remote session: how it is started, lost, reconnected    *)
(* and stopped, frame by frame                                             *)
(* (src/apps/sdl/remote_link_controller.cpp, emulation_session.cpp,        *)
(* remote_link_session.hpp), with as much of the endpoint and its channel  *)
(* as decides about a failure (src/src/tcp_serial_endpoint.cpp,            *)
(* tcp_link_channel.cpp).  What the packets say is in LinkEndpoint.        *)
(***************************************************************************)
EXTENDS Naturals

CONSTANT MaxAttempts   \* automatic reconnects

ASSUME AttemptsAssumption == MaxAttempts \in Nat \ {0}

VARIABLES
    at,          \* what the frontend's loop does next
    enabled, hosting, reported,
    attempts,    \* automatic_retry_attempts
    retry_at,    \* next_automatic_retry
    poll_at,     \* next_pending_poll
    channel,     \* the active channel's state
    attached,    \* the endpoint has its port and its channel
    mismatch,    \* the peer's hello was seen and is not compatible
    during,      \* failure_during_transfer_
    transfer,    \* the port's transfer_active()
    linked,      \* remote_transport_connected, of this frame
    tries,       \* history: reconnects since the user acted or a peer was there
    interrupted  \* history: a poll found the link lost in a transfer

session  == <<enabled, hosting, reported, attempts, retry_at, poll_at>>
endpoint == <<channel, attached, mismatch, during, transfer>>
history  == <<tries, interrupted>>
vars     == <<at, session, endpoint, linked, history>>

Dead     == {"failed", "disconnected"}
Channels == {"listening", "connecting", "connected"} \cup Dead

\* A time point that is not set, in the future, or reached. A reconnect is
\* seconds away, and the loop polls every 25 ms: one poll comes before.
Deadline == {"none", "later", "now"}
RetryDeadline == Deadline \cup {"seconds"}

Control == {"reject", "report", "reconnect", "stop", "start", "retry"}
Lost    == enabled /\ channel \in Dead

Init ==
    /\ at = "reject" /\ linked = FALSE
    /\ enabled = FALSE /\ hosting = FALSE /\ reported = FALSE
    /\ attempts = 0 /\ retry_at = "none" /\ poll_at = "none"
    /\ channel = "disconnected" /\ attached = FALSE
    /\ mismatch = FALSE /\ during = FALSE /\ transfer = FALSE
    /\ tries = 0 /\ interrupted = FALSE

-----------------------------------------------------------------------------
\* attach() and detach(); both forget the peer.
Attach(yes) ==
    /\ attached' = yes
    /\ mismatch' = FALSE /\ during' = FALSE

\* reset_link(), after which a Gen I game's handshake may be armed again.
ResetPort == transfer' \in BOOLEAN

Fresh == /\ reported' = FALSE
         /\ attempts' = 0 /\ retry_at' = "none" /\ poll_at' = "none"

UserActed == tries' = 0 /\ interrupted' = FALSE

Idle(now, then) == at = now /\ at' = then

(* stop_remote_link_session: detach() resets the port it had.              *)
Stopped ==
    /\ enabled' = FALSE /\ channel' = "disconnected"
    /\ transfer' = (transfer /\ ~attached)
    /\ Attach(FALSE) /\ Fresh
    /\ UNCHANGED <<hosting, linked>>

\* listen() fails or listens, connect() may also be finished at once.
Opened(host) ==
    channel' \in IF host THEN {"listening"} ELSE {"connecting", "connected"}

(* start_remote_link_session.  The announcement on the LAN comes last.     *)
Started(host) ==
    /\ Fresh
    /\ \/ /\ Opened(host) /\ Attach(TRUE) /\ ResetPort
          /\ enabled' = TRUE /\ hosting' = host
       \/ /\ channel' = "failed" /\ Attach(FALSE) /\ ResetPort
          /\ enabled' = FALSE /\ UNCHANGED hosting
       \/ /\ host /\ channel' = "disconnected" /\ Attach(FALSE)
          /\ transfer' = FALSE
          /\ enabled' = FALSE /\ hosting' = host
    /\ UNCHANGED linked

(* retry_remote_link_session, with the attempts and the deadline its caller*)
(* has set: they stay when the channel cannot be opened, or the host not   *)
(* announced, which leaves the endpoint detached.                          *)
Retried(count, deadline) ==
    /\ ResetPort
    /\ \/ /\ Opened(hosting) /\ Attach(TRUE) /\ Fresh
       \/ /\ channel' = "failed" /\ Attach(TRUE)
          /\ attempts' = count /\ retry_at' = deadline
          /\ UNCHANGED <<reported, poll_at>>
       \/ /\ hosting /\ channel' = "listening" /\ Attach(FALSE)
          /\ attempts' = count /\ retry_at' = deadline
          /\ poll_at' = "none" /\ UNCHANGED reported
    /\ UNCHANGED <<enabled, hosting, linked>>

-----------------------------------------------------------------------------
(* process_remote_link_requests, block by block.                           *)
Reject ==
    /\ Idle("reject", "report")
    /\ IF enabled /\ mismatch
         THEN Stopped /\ UserActed
         ELSE UNCHANGED <<session, endpoint, linked, history>>

Report ==
    /\ Idle("report", "reconnect")
    /\ reported' = (reported \/ (enabled /\ channel = "failed"))
    /\ UNCHANGED <<enabled, hosting, attempts, retry_at, poll_at, endpoint,
                   linked, history>>

MayReconnect == Lost /\ ~during /\ attempts < MaxAttempts

PlanRetryEachFrame ==
    /\ Idle("reconnect", "stop")
    /\ MayReconnect /\ retry_at # "now"
    /\ retry_at' = "seconds"
    /\ UNCHANGED <<enabled, hosting, reported, attempts, poll_at, endpoint,
                   linked, history>>

PlanRetry ==
    /\ Idle("reconnect", "stop")
    /\ MayReconnect /\ retry_at = "none"
    /\ retry_at' = "seconds"
    /\ UNCHANGED <<enabled, hosting, reported, attempts, poll_at, endpoint,
                   linked, history>>

AutoRetry ==
    /\ Idle("reconnect", "stop")
    /\ MayReconnect /\ retry_at = "now"
    /\ Retried(attempts + 1, "seconds")
    /\ tries' = IF channel' = "connected" THEN 0
                ELSE IF tries > MaxAttempts THEN tries ELSE tries + 1
    /\ UNCHANGED interrupted

NoRetry ==
    /\ Idle("reconnect", "stop")
    /\ MayReconnect => retry_at \in {"seconds", "later"}
    /\ UNCHANGED <<session, endpoint, linked, history>>

\* Requests of the menus and shortcuts, in the order they are looked at.
NoRequest ==
    /\ \/ Idle("stop", "start") \/ Idle("start", "retry") \/ Idle("retry", "poll")
    /\ UNCHANGED <<session, endpoint, linked, history>>

Stop ==
    /\ Idle("stop", "start")
    /\ enabled
    /\ Stopped /\ UserActed

Start ==
    /\ Idle("start", "retry")
    /\ \E host \in BOOLEAN : Started(host)
    /\ UserActed

ManualRetry ==
    /\ Idle("retry", "poll")
    /\ enabled
    /\ Retried(0, "none") /\ UserActed

-----------------------------------------------------------------------------
(* LinkSerialEndpoint::poll, as far as a failure is concerned.             *)
CleanUpKeepingPort == during' = transfer /\ UNCHANGED <<transfer, mismatch>>

CleanUp == during' = transfer /\ transfer' = FALSE /\ UNCHANGED mismatch

Nothing == UNCHANGED <<channel, during, transfer, mismatch>>

\* What channel_->poll() makes of a channel.
Polled(state) ==
    CASE state = "listening"  -> {"listening", "connected"}
      [] state = "connecting" -> {"connecting", "connected", "failed"}
      [] state = "connected"  -> {"connected", "failed"}
      [] OTHER                -> {state}

\* A connected poll: packets move the transfer on, show who the peer is, or
\* are a protocol fault; a send that fails is left to the next poll.
Talk ==
    \/ /\ channel' \in {"connected", "failed"}
       /\ transfer' \in {transfer, FALSE}
       /\ mismatch' \in {mismatch, TRUE}
       /\ UNCHANGED during
    \/ channel' = "disconnected" /\ CleanUp

EndpointPoll ==
    /\ UNCHANGED attached
    /\ IF ~attached THEN Nothing
       ELSE \E state \in Polled(channel) :
              IF state = "connected" THEN Talk
              ELSE /\ channel' = state
                   /\ IF state \in Dead THEN CleanUp
                      ELSE UNCHANGED <<during, transfer, mismatch>>

\* A peer that is there at last, or a link found lost with a byte half way.
Observe ==
    /\ tries' = IF channel # "connected" /\ channel' = "connected" THEN 0
                ELSE tries
    /\ interrupted' = \/ interrupted
                      \/ channel = "connected" /\ during'

(* RemoteLinkSession::poll.  An endpoint that needs no poll is left alone. *)
SessionPoll ==
    /\ Idle("poll", "run")
    /\ \/ /\ enabled /\ channel # "connected" /\ poll_at # "later"
          /\ poll_at' = "later" /\ EndpointPoll
          /\ retry_at' = IF retry_at = "seconds" THEN "later" ELSE retry_at
       \/ /\ enabled /\ channel = "connected"
          /\ EndpointPoll /\ UNCHANGED <<poll_at, retry_at>>
       \/ /\ \/ ~enabled
             \/ channel # "connected" /\ poll_at = "later"
             \/ channel = "connected" /\ ~transfer
          /\ UNCHANGED <<poll_at, retry_at, endpoint>>
    /\ Observe
    /\ linked' = (enabled /\ channel' = "connected")
    /\ UNCHANGED <<enabled, hosting, reported, attempts>>

-----------------------------------------------------------------------------
(* The frame that is emulated.  The guest arms and abandons transfers, an  *)
(* edge it clocks is sent.                                                 *)
Guest ==
    /\ at = "run" /\ transfer' \in BOOLEAN
    /\ UNCHANGED <<at, session, channel, attached, mismatch, during, linked,
                   history>>

SendFails ==
    /\ at = "run" /\ attached /\ channel = "connected" /\ transfer
    /\ channel' = "failed"
    /\ UNCHANGED <<at, session, attached, mismatch, during, transfer, linked,
                   history>>

RunPoll ==
    /\ at = "run" /\ linked
    /\ EndpointPoll /\ Observe
    /\ UNCHANGED <<at, session, linked>>

\* A frame that began with a connected peer ends with a poll.
EndFrame ==
    /\ Idle("run", "reject")
    /\ IF linked THEN EndpointPoll ELSE UNCHANGED endpoint
    /\ Observe
    /\ UNCHANGED <<session, linked>>

RetryDue == /\ retry_at = "later" /\ retry_at' = "now"
            /\ UNCHANGED <<at, enabled, hosting, reported, attempts, poll_at,
                           endpoint, linked, history>>

PollDue == /\ poll_at = "later" /\ poll_at' = "now"
           /\ UNCHANGED <<at, enabled, hosting, reported, attempts, retry_at,
                          endpoint, linked, history>>

-----------------------------------------------------------------------------
Requests == NoRequest \/ Stop \/ Start \/ ManualRetry

Loop == \/ Reject \/ Report \/ PlanRetry \/ AutoRetry \/ NoRetry
        \/ Requests \/ SessionPoll \/ EndFrame

Next == Loop \/ Guest \/ SendFails \/ RunPoll \/ RetryDue \/ PollDue

Spec == Init /\ [][Next]_vars

\* The program's loop turns, and time passes, for as long as it runs.
FairSpec ==
    /\ Spec
    /\ WF_vars(Loop) /\ WF_vars(RetryDue) /\ WF_vars(PollDue)

-----------------------------------------------------------------------------
TypeOK ==
    /\ at \in Control \cup {"poll", "run"}
    /\ enabled \in BOOLEAN /\ hosting \in BOOLEAN /\ reported \in BOOLEAN
    /\ attached \in BOOLEAN /\ mismatch \in BOOLEAN /\ during \in BOOLEAN
    /\ transfer \in BOOLEAN /\ linked \in BOOLEAN /\ interrupted \in BOOLEAN
    /\ attempts \in 0..MaxAttempts /\ tries \in 0..(MaxAttempts + 1)
    /\ retry_at \in RetryDeadline /\ poll_at \in Deadline
    /\ channel \in Channels

(* Whatever fails half way, a start, a retry, an announcement: a session   *)
(* that is off holds no open channel and no port, and one that is on has   *)
(* its port, but for a host that could not be announced again.             *)
NothingIsOrphaned ==
    /\ ~enabled => ~attached /\ channel \in Dead
    /\ enabled => attached \/ channel = "listening"

(* The loss the user was told of is over before bytes can flow again, and  *)
(* the next one will be told anew.                                         *)
ConnectedIsNotReported == enabled /\ channel = "connected" => ~reported

(* A game that armed its port on a dead link gets it back: the clean-up of *)
(* poll() returns it to its own timeout instead of freezing it at SC=80.   *)
Frozen == enabled /\ attached /\ channel \in Dead /\ transfer
PortIsReleased == Frozen ~> ~Frozen

(* A loss with no transfer going on is not left alone while attempts are   *)
(* left, unless the user keeps retrying by hand: a short outage is         *)
(* recovered from without anybody's help.                                  *)
QuietLossIsRetried == []<>~MayReconnect \/ []<><<ManualRetry>>_vars

(* The documented cap: a peer that stays away is tried three times.        *)
AtMostThreeReconnects == tries <= MaxAttempts

(* As documented, a link that failed in a transfer is not reconnected but  *)
(* by the user.                                                            *)
InterruptedWaitsForUser == [][interrupted => ~AutoRetry]_vars
=============================================================================
