------------------------------- MODULE MCFrontend -------------------------------
(***************************************************************************)
(* The components of the front end that are checked on their own, one      *)
(* after another in one run: `subject` is the component a behaviour is     *)
(* about, and the others stay as they are first.                           *)
(***************************************************************************)
EXTENDS CartridgeBattery, RemoteReconnect, Updater, InputMovie

VARIABLE subject

\* A button held for one of two frames.
MCTimelines == {<<TRUE, FALSE>>, <<FALSE, TRUE>>}

frontendVars == <<batteryVars, vars, updVars, movieVars>>

Subjects == {"battery", "reconnect", "updater", "movie"}

FrontendInit ==
    /\ subject \in Subjects
    /\ BatteryInit /\ Init /\ MovieInit
    /\ UpdInit   /\ (subject # "updater" => platform = "posix" /\ settings = "none")

FrontendNext ==
    /\ UNCHANGED subject
    /\ \/ /\ subject = "battery" /\ BatteryNext /\ KeptBeforeReset
          /\ UNCHANGED <<vars, updVars, movieVars>>
       \/ /\ subject = "reconnect" /\ Next
          /\ UNCHANGED <<batteryVars, updVars, movieVars>>
       \/ /\ subject = "updater" /\ UpdNext
          /\ UNCHANGED <<batteryVars, vars, movieVars>>
       \/ /\ subject = "movie" /\ MovieNext
          /\ UNCHANGED <<batteryVars, vars, updVars>>

\* The fairness of the session's loop; of the others nothing is demanded.
FrontendSpec ==
    /\ FrontendInit
    /\ [][FrontendNext]_<<subject, frontendVars>>
    /\ WF_vars(subject = "reconnect" /\ Loop)
    /\ WF_vars(subject = "reconnect" /\ RetryDue)
    /\ WF_vars(subject = "reconnect" /\ PollDue)
=============================================================================
