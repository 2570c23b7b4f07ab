-------------------------------- MODULE Updater --------------------------------
(***************************************************************************)
(* The desktop's own update: the frontend's loop, the worker that fetches  *)
(* and verifies the archive (src/apps/sdl/update_checker.cpp), and the     *)
(* helper that installs it once the frontend is gone (its shell script, or *)
(* src/apps/sdl/windows_updater.cpp). Files are abstracted to whose        *)
(* content they hold; any of the programs may be killed between its steps. *)
(***************************************************************************)
EXTENDS Naturals

CONSTANTS MaxDownloads,  \* bound: updates the user agrees to
          MaxKills      \* bound: programs killed or steps failing in between

VARIABLES
    platform,   \* "posix" or "windows"
    app,        \* the frontend: "idle", "downloading", "leaving" or "gone"
    worker,     \* the step the download thread is at
    cancelled,  \* cancel_requested
    escaped,    \* update_cancel_requested, until the loop looks
    result,     \* what the thread has left for take_result()
    fetched,    \* the temporary file
    archive,
    staging,
    helper,     \* the step the helper is at
    program,    \* the installation's program files
    settings,   \* the installation's settings.ini
    backup,     \* settings.ini.user
    had,        \* had_settings
    downloads, kills,
    timely,     \* history: the cancel came before the thread's last look at it
    original    \* history: the settings file the user had

disk   == <<fetched, archive, staging, program, settings, backup>>
bounds  == <<downloads, kills>>
updVars == <<platform, app, worker, cancelled, escaped, result, disk, helper, had,
             bounds, timely, original>>

UpdInit ==
    /\ platform \in {"posix", "windows"}
    /\ app = "idle" /\ worker = "none" /\ cancelled = FALSE /\ escaped = FALSE
    /\ result = "none"
    /\ fetched = "none" /\ archive = "none" /\ staging = "none"
    /\ helper = "none" /\ program = "old"
    /\ settings \in {"user", "none"} /\ original = settings
    /\ backup = "none" /\ had = FALSE
    /\ downloads = 0 /\ kills = 0 /\ timely = FALSE

-----------------------------------------------------------------------------
(* The frontend's loop.                                                    *)
\* offer_update() is answered with yes, and the download starts.
Accept ==
    /\ app = "idle" /\ program # "new" /\ downloads < MaxDownloads
    /\ app' = "downloading" /\ worker' = "fetch"
    /\ cancelled' = FALSE /\ escaped' = FALSE /\ result' = "none" /\ timely' = FALSE
    /\ downloads' = downloads + 1
    /\ UNCHANGED <<platform, disk, helper, had, kills, original>>

Escape ==
    /\ app = "downloading" /\ ~escaped /\ ~cancelled
    /\ escaped' = TRUE
    /\ UNCHANGED <<platform, app, worker, cancelled, result, disk, helper, had, bounds,
                   timely, original>>

Cancel ==
    /\ app = "downloading" /\ escaped
    /\ escaped' = FALSE /\ cancelled' = TRUE
    /\ timely' = (worker \in {"fetch", "store", "verify"})
    /\ UNCHANGED <<platform, app, worker, result, disk, helper, had, bounds, original>>

\* take_result(), and launch_update_installer(), which may fail.
TakeResult ==
    /\ app = "downloading" /\ ~escaped /\ result # "none"
    /\ worker' = "none" /\ result' = "none"
    /\ \/ app' = "idle" /\ UNCHANGED helper
       \/ result = "update" /\ app' = "leaving" /\ helper' = "wait"
    /\ UNCHANGED <<platform, cancelled, escaped, disk, had, bounds, timely, original>>

\* The installer goes on once the process is gone.
Leave ==
    /\ app = "leaving" /\ app' = "gone"
    /\ UNCHANGED <<platform, worker, cancelled, escaped, result, disk, helper, had, bounds,
                   timely, original>>

-----------------------------------------------------------------------------
(* The download thread.                                                    *)
Working == <<platform, app, escaped, program, settings, backup, staging, helper, had, bounds,
             cancelled, timely, original>>

\* The archive may be cut short or altered on its way.
Fetch ==
    /\ worker = "fetch"
    /\ \/ worker' = "store" /\ fetched' \in {"release", "other"}
       \/ worker' = "discard" /\ UNCHANGED fetched
    /\ UNCHANGED <<Working, result, archive>>

\* The end of download_public_file().
Store ==
    /\ worker = "store"
    /\ fetched' = "none"
    /\ IF cancelled THEN worker' = "discard" /\ UNCHANGED archive
       ELSE worker' = "verify" /\ archive' = fetched
    /\ UNCHANGED <<Working, result>>

\* The thread's last look at the request to cancel; the hashing comes after it.
VerifyAtOnce ==
    /\ worker = "verify" /\ worker' = "hash"
    /\ UNCHANGED <<Working, result, fetched, archive>>

Verify ==
    /\ worker = "verify"
    /\ worker' = IF cancelled THEN "discard" ELSE "hash"
    /\ UNCHANGED <<Working, result, fetched, archive>>

\* verify_asset(): while the archive is hashed the loop goes on.
Hash ==
    /\ worker = "hash"
    /\ worker' = IF archive = "release" THEN "publish" ELSE "discard"
    /\ UNCHANGED <<Working, result, fetched, archive>>

Discard ==
    /\ worker = "discard"
    /\ archive' = "none" /\ worker' = "fail"
    /\ UNCHANGED <<Working, result, fetched>>

\* Under the lock: complete_.
Publish ==
    /\ worker \in {"publish", "fail"} /\ result = "none"
    /\ result' = IF worker = "publish" THEN "update" ELSE "error"
    /\ worker' = "ended"
    /\ UNCHANGED <<Working, fetched, archive>>

-----------------------------------------------------------------------------
(* The helper, step by step; each of them ends it when it fails.           *)
Helping == <<platform, app, worker, cancelled, escaped, result, fetched, bounds, timely, original>>

CheckArchive ==
    /\ helper = "wait" /\ app = "gone"
    /\ helper' = IF archive = "release" THEN "extract" ELSE "none"
    /\ UNCHANGED <<Helping, archive, staging, program, settings, backup, had>>

Extract ==
    /\ helper = "extract" /\ helper' = "backup"
    /\ staging' = archive
    /\ UNCHANGED <<Helping, archive, program, settings, backup, had>>

BackUp ==
    /\ helper = "backup" /\ helper' = "copy"
    /\ had' = (settings # "none")
    /\ backup' = IF settings # "none" THEN settings ELSE backup
    /\ UNCHANGED <<Helping, archive, staging, program, settings>>

\* File by file: first some of them, settings.ini of the package among them.
BeginCopy ==
    /\ helper = "copy" /\ helper' = "copying"
    /\ program' = "mixed"
    /\ settings' \in {settings, "packaged"}
    /\ UNCHANGED <<Helping, archive, staging, backup, had>>

EndCopy ==
    /\ helper = "copying" /\ helper' = "restore"
    /\ program' = "new" /\ settings' = "packaged"
    /\ UNCHANGED <<Helping, archive, staging, backup, had>>

KeepPackaged ==
    /\ helper = "restore" /\ helper' = "restart"
    /\ settings' = IF had THEN settings ELSE "none"
    /\ UNCHANGED <<Helping, archive, staging, program, backup, had>>

\* Only the script removes the packaged settings of a user without.
Restore ==
    /\ helper = "restore" /\ helper' = "restart"
    /\ settings' = IF had THEN backup
                   ELSE IF platform = "posix" THEN "none" ELSE settings
    /\ UNCHANGED <<Helping, archive, staging, program, backup, had>>

\* The Windows helper clears up; both start the new program.
Restart ==
    /\ helper = "restart" /\ helper' = "none"
    /\ app' = "idle"
    /\ IF platform = "windows"
         THEN archive' = "none" /\ staging' = "none" /\ backup' = "none"
         ELSE UNCHANGED <<archive, staging, backup>>
    /\ UNCHANGED <<platform, worker, cancelled, escaped, result, fetched, program, settings,
                   had, bounds, timely, original>>

-----------------------------------------------------------------------------
(* Failures: a helper that is killed or whose step fails, a frontend that  *)
(* is killed with its thread. The user starts what is installed.           *)
KillHelper ==
    /\ kills < MaxKills /\ kills' = kills + 1
    /\ helper \notin {"none", "restart"} /\ helper' = "none"
    /\ UNCHANGED <<platform, app, worker, cancelled, escaped, result, disk, had, downloads,
                   timely, original>>

KillApp ==
    /\ kills < MaxKills /\ kills' = kills + 1
    /\ app \in {"idle", "downloading"} /\ app' = "gone"
    /\ worker' = "none" /\ result' = "none" /\ cancelled' = FALSE /\ escaped' = FALSE
    /\ UNCHANGED <<platform, disk, helper, had, downloads, timely, original>>

Launch ==
    /\ app = "gone" /\ helper = "none"
    /\ app' = "idle"
    /\ UNCHANGED <<platform, worker, cancelled, escaped, result, disk, helper, had, bounds,
                   timely, original>>

Thread   == Fetch \/ Store \/ Verify \/ Hash \/ Discard \/ Publish
Frontend == Cancel \/ TakeResult \/ Leave
Helper   == CheckArchive \/ Extract \/ BackUp \/ BeginCopy \/ EndCopy \/ Restore \/ Restart

UpdNext == Accept \/ Escape \/ Frontend \/ Thread \/ Helper \/ KillHelper \/ KillApp \/ Launch

UpdSpec == UpdInit /\ [][UpdNext]_updVars

-----------------------------------------------------------------------------
(* A download that is cancelled before its thread looks at the request for *)
(* the last time (line 680) is never installed, whatever the result that   *)
(* the loop, or the thread, has at hand by then. Nobody looks after that:  *)
(* one that is cancelled while its archive is hashed is installed.         *)
CancelHolds == [][app' = "leaving" => app = "leaving" \/ ~timely]_updVars

(* "automatic updates preserve an existing packaged settings file": as    *)
(* long as no helper was killed half way, the new program starts with the  *)
(* settings the user had.                                                  *)
PreservesSettings ==
    [][helper = "restart" /\ helper' = "none" /\ original = "user" /\ kills = 0
          => settings' = original]_updVars
=============================================================================
