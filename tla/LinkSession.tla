----------------------------- MODULE LinkSession -----------------------------
(***************************************************************************)
(* A local two-console session (src/src/link_session.cpp and               *)
(* src/src/link_scheduler.cpp) with the frontend that owns it              *)
(* (src/apps/sdl/link_controller.cpp, emulation_session.cpp). One frame is *)
(* one call of advance(): the balanced scheduler steps whichever console   *)
(* is behind until both reach the target, then the watchdog compares the   *)
(* progress of the two ports with the frame before. The user and the       *)
(* automatic retry act between two frames.                                 *)
(***************************************************************************)
EXTENDS SerialCable, Integers

CONSTANTS Slice,         \* target_cycles of one advance()
          Timeout,       \* timeout_cycles_ of the watchdog
          MaxTransfers,  \* bound: bytes a console completes per session
          LongestStep    \* the longest bus cycle

ASSUME SessionAssumption ==
    /\ Slice \in Nat \ {0}
    /\ Timeout \in Nat \ {0}
    /\ MaxTransfers \in Nat
    /\ LongestStep \in Nat \ {0}
    /\ Ticks \subseteq 1..LongestStep

VARIABLES state,        \* state_
          completed,    \* transfers_completed_ of each port
          slicing,      \* inside advance()
          ran,          \* BalancedAdvanceResult: cycles run in this slice
          watch,        \* the LinkWatchdog
          auto_retried  \* automatic_local_retry_used

sessionVars == <<port, plugged, owner, state, completed, slicing, ran, watch,
                 auto_retried>>

Total(count) == count[First] + count[Second]

Transferring == \E c \in Consoles : port[c].active

\* The sum advance() hands to the watchdog.
Progress == Total(completed) + port[First].bits + port[Second].bits

Fresh(progress) == [stalled |-> 0, marker |-> progress, timed_out |-> FALSE]

NoCycles == [c \in Consoles |-> 0]

SessionInit ==
    /\ Init
    /\ state = "disconnected"
    /\ completed = NoCycles
    /\ slicing = FALSE
    /\ ran = NoCycles
    /\ watch = Fresh(0)
    /\ auto_retried = FALSE

-----------------------------------------------------------------------------
(* advance(): guarded by active(), one instruction of one console at a     *)
(* time. A console is stepped when it is not ahead of the other.           *)
Scheduler == INSTANCE LinkScheduler

BeginSlice ==
    /\ state = "connected"
    /\ Scheduler!Begin
    /\ UNCHANGED <<port, plugged, owner, state, completed, watch, auto_retried>>

\* A port that has shifted its last bit counts one transfer.
Counted ==
    completed' = [c \in Consoles |->
                    IF port[c].active /\ port'[c].bits = ByteBits
                      THEN completed[c] + 1 ELSE completed[c]]

RunCycle(c) ==
    /\ \E clocks \in Ticks : Tick(c, clocks) /\ Scheduler!Step(c, clocks)
    /\ Counted
    /\ UNCHANGED <<state, watch, auto_retried>>

\* The register access at the end of an instruction.
AccessRegister(c) ==
    /\ Scheduler!Turn(c)
    /\ WriteSB(c) \/ (completed[c] < MaxTransfers /\ WriteSC(c))
    /\ UNCHANGED <<state, completed, slicing, ran, watch, auto_retried>>

ObservedPerSlice(active, progress) ==
    LET stalled == IF active /\ progress = watch.marker THEN Slice ELSE 0
    IN  IF watch.timed_out THEN watch
        ELSE [stalled |-> stalled, marker |-> progress,
              timed_out |-> active /\ stalled >= Timeout]

(* observe(): a timed-out watchdog stays timed out.                        *)
Observed(active, progress) ==
    LET stalled == IF active /\ progress = watch.marker
                     THEN watch.stalled + Slice ELSE 0
    IN  IF watch.timed_out THEN watch
        ELSE [stalled |-> stalled, marker |-> progress,
              timed_out |-> active /\ stalled >= Timeout]

EndSlice ==
    /\ Scheduler!End
    /\ watch' = Observed(Transferring, Progress)
    /\ state' = IF watch'.timed_out THEN "timed_out" ELSE state
    /\ UNCHANGED <<port, plugged, owner, completed, auto_retried>>

-----------------------------------------------------------------------------
(* start(): a fresh cable, counters and watchdog.                          *)
Start ==
    /\ ~slicing
    /\ state = "disconnected"
    /\ StartHandshake \/ StartAsIs
    /\ completed' = NoCycles
    /\ watch' = Fresh(0)
    /\ state' = "connected"
    /\ auto_retried' = FALSE
    /\ UNCHANGED <<slicing, ran>>

Stop ==
    /\ ~slicing
    /\ state # "disconnected"
    /\ Disconnect
    /\ watch' = Fresh(0)
    /\ state' = "disconnected"
    /\ auto_retried' = FALSE
    /\ UNCHANGED <<completed, slicing, ran>>

(* retry() detaches, resets both ports, attaches again and resets the      *)
(* watchdog; the frontend then writes the probe of a Gen I game, or resets *)
(* the ports once more, and clears the counters.                           *)
Probing(p) ==
    WriteControl(WriteData(p, ProbeByte, TRUE, FALSE),
                 [start |-> TRUE, internal |-> FALSE, fast |-> FALSE],
                 TRUE, FALSE, TRUE)

RetryWithOldWatchdog ==
    /\ ~slicing
    /\ state # "disconnected"
    /\ port' = [c \in Consoles |-> Reset(port[c])]
    /\ plugged' = TRUE
    /\ owner' = Nobody
    /\ completed' = NoCycles
    /\ state' = "connected"
    /\ UNCHANGED <<slicing, ran, watch>>

RetryMidByte ==
    /\ ~slicing
    /\ state # "disconnected"
    /\ watch' = Fresh(Total(completed))
    /\ completed' = NoCycles
    /\ state' = "connected"
    /\ UNCHANGED <<port, plugged, owner, slicing, ran>>

Retry ==
    /\ ~slicing
    /\ state # "disconnected"
    /\ \/ port' = [c \in Consoles |-> Probing(Reset(port[c]))]
       \/ port' = [c \in Consoles |-> Reset(port[c])]
    /\ plugged' = TRUE
    /\ owner' = Nobody
    /\ watch' = Fresh(Total(completed))
    /\ completed' = NoCycles
    /\ state' = "connected"
    /\ UNCHANGED <<slicing, ran>>

ManualRetry == Retry /\ auto_retried' = FALSE

AutomaticRetry ==
    /\ state = "timed_out"
    /\ ~auto_retried
    /\ Retry
    /\ auto_retried' = TRUE

-----------------------------------------------------------------------------
Advance == BeginSlice \/ EndSlice \/ \E c \in Consoles : RunCycle(c)

SessionNext ==
    \/ Advance
    \/ \E c \in Consoles : AccessRegister(c)
    \/ Start \/ Stop \/ ManualRetry \/ AutomaticRetry

SessionSpec == SessionInit /\ [][SessionNext]_sessionVars

\* The frontend calls advance() every frame and a call runs to its end.
FairSessionSpec == SessionSpec /\ WF_sessionVars(Advance)

-----------------------------------------------------------------------------
(* Whoever asks the session gets the state of the cable and the watchdog:  *)
(* it is disconnected exactly when the cable is out, and timed out exactly *)
(* when the watchdog has fired.                                            *)
SessionMatchesCable ==
    /\ state = "disconnected" <=> ~plugged
    /\ state = "timed_out" <=> watch.timed_out

(* The alarm is never a false one: while the session is timed out a        *)
(* transfer is armed and still as far as when the watchdog last looked.    *)
AlarmIsReal ==
    state = "timed_out" =>
        Transferring /\ Progress = watch.marker /\ watch.stalled >= Timeout

(* Every retry starts from a byte boundary nobody drives.                  *)
RetryFromBoundary ==
    [][ state = "timed_out" /\ state' = "connected" =>
          /\ owner' = Nobody
          /\ \A c \in Consoles : port'[c].bits = 0 /\ ~Drives(port'[c]) ]_sessionVars

(* An armed transfer that never moves another bit is not left hanging: the *)
(* watchdog ends the wait, or the guest or the user does.                  *)
StuckIsNoticed ==
    ~ /\ <>[](state = "connected" /\ Transferring)
      /\ <>[][ /\ \A c \in Consoles : port'[c].bits = port[c].bits
              /\ ~ManualRetry ]_sessionVars
=============================================================================
