---------------------------- MODULE Frontend_proofs ----------------------------
(***************************************************************************)
(* The front end's safety for every value of the constants: the updater's  *)
(* promises about a cancelled download and about the user's settings, the  *)
(* battery and its clock against what BatteryMemory promises, the remote   *)
(* session's attempts and resources, the inputs of recorded movies, and    *)
(* the handshake and heartbeat of a remote link.                           *)
(***************************************************************************)
EXTENDS RemoteReconnect, Updater, CartridgeBattery, InputMovie, LinkHandshake,
        SequenceTheorems, Iteration

(***************************************************************************)
(* The updater. What the download thread has not yet left for the frontend *)
(* it has not published. The flag of a download cancelled in time stands   *)
(* until the thread has looked at it for the last time; the thread then    *)
(* goes straight to discarding it, never to the hashing or beyond.         *)
(***************************************************************************)
Fetching == {"fetch", "store", "verify"}

CancelKept ==
    /\ worker \in Fetching \cup {"hash", "publish", "discard", "fail"} => result = "none"
    /\ timely => worker \notin {"hash", "publish"} /\ result # "update"
    /\ timely /\ worker \in Fetching => cancelled

LEMMA CancelInit == UpdInit => CancelKept
  BY DEF UpdInit, CancelKept, Fetching

LEMMA CancelStep ==
    ASSUME CancelKept, [UpdNext]_updVars
    PROVE  CancelKept'
<1> USE DEF CancelKept, Fetching
<1>1. CASE Accept
  BY <1>1 DEF Accept
<1>2. CASE Escape
  BY <1>2 DEF Escape
<1>3. CASE Cancel
  BY <1>3 DEF Cancel
<1>4. CASE TakeResult
  BY <1>4 DEF TakeResult
<1>5. CASE Leave
  BY <1>5 DEF Leave
<1>6. CASE Fetch
  BY <1>6 DEF Fetch, Working
<1>7. CASE Store
  BY <1>7 DEF Store, Working
<1>8. CASE Verify
  BY <1>8 DEF Verify, Working
<1>14. CASE Hash
  BY <1>14 DEF Hash, Working
<1>9. CASE Discard
  BY <1>9 DEF Discard, Working
<1>10. CASE Publish
  BY <1>10 DEF Publish, Working
<1>11. CASE Helper
  BY <1>11 DEF Helper, CheckArchive, Extract, BackUp, BeginCopy, EndCopy, Restore,
               Restart, Helping
<1>12. CASE KillHelper \/ KillApp \/ Launch
  BY <1>12 DEF KillHelper, KillApp, Launch
<1>13. CASE UNCHANGED updVars
  BY <1>13 DEF updVars
<1> QED
  BY <1>1, <1>2, <1>3, <1>4, <1>5, <1>6, <1>7, <1>8, <1>9, <1>10, <1>11, <1>12, <1>13,
     <1>14
  DEF UpdNext, Frontend, Thread

(* The frontend leaves for an installation only with an update at hand, so *)
(* never for one that was cancelled before the thread's last look.         *)
THEOREM UpdaterCancelHolds == UpdSpec => CancelHolds
<1>1. CancelKept /\ [UpdNext]_updVars
        => [app' = "leaving" => app = "leaving" \/ ~timely]_updVars
  <2> SUFFICES ASSUME CancelKept, UpdNext, app' = "leaving", app # "leaving"
               PROVE  ~timely
    OBVIOUS
  <2>1. CASE TakeResult
    BY <2>1 DEF TakeResult, CancelKept
  <2>2. CASE ~TakeResult
    BY <2>2 DEF UpdNext, Frontend, Thread, Helper, Accept, Escape, Cancel, Leave, Fetch,
       Store, Verify, Hash, Discard, Publish, CheckArchive, Extract, BackUp, BeginCopy, EndCopy,
       Restore, Restart, KillHelper, KillApp, Launch, Working, Helping
  <2> QED
    BY <2>1, <2>2
<1> QED
  BY CancelInit, CancelStep, <1>1, PTL DEF UpdSpec, CancelHolds

(* A helper at work has the installation to itself; and the settings of a  *)
(* user who has some are in place but for the copying, and from the backup *)
(* on in the backup too, as long as no program was killed.                 *)
SettingsKept ==
    /\ kills \in Nat
    /\ helper # "none" => app \in {"leaving", "gone"}
    /\ kills = 0 /\ original = "user" =>
         /\ helper \notin {"copying", "restore"} => settings = "user"
         /\ helper \in {"copy", "copying", "restore"} => had /\ backup = "user"

LEMMA SettingsInit == UpdInit => SettingsKept
  BY DEF UpdInit, SettingsKept

LEMMA SettingsStep ==
    ASSUME SettingsKept, [UpdNext]_updVars
    PROVE  SettingsKept'
<1> USE DEF SettingsKept, disk, bounds
<1>1. CASE Escape
  BY <1>1 DEF Escape
<1>16. CASE Cancel
  BY <1>16 DEF Cancel
<1>17. CASE Leave
  BY <1>17 DEF Leave
<1>13. CASE TakeResult
  BY <1>13 DEF TakeResult
<1>14. CASE Thread
  BY <1>14 DEF Thread, Fetch, Store, Verify, Hash, Discard, Publish, Working
<1>15. CASE Launch
  BY <1>15 DEF Launch
<1>2. CASE Accept
  BY <1>2 DEF Accept
<1>3. CASE CheckArchive
  BY <1>3 DEF CheckArchive, Helping
<1>4. CASE Extract
  BY <1>4 DEF Extract, Helping
<1>5. CASE BackUp
  BY <1>5 DEF BackUp, Helping
<1>6. CASE BeginCopy
  BY <1>6 DEF BeginCopy, Helping
<1>7. CASE EndCopy
  BY <1>7 DEF EndCopy, Helping
<1>8. CASE Restore
  BY <1>8 DEF Restore, Helping
<1>9. CASE Restart
  BY <1>9 DEF Restart
<1>10. CASE KillHelper
  BY <1>10 DEF KillHelper
<1>11. CASE KillApp
  BY <1>11 DEF KillApp
<1>12. CASE UNCHANGED updVars
  BY <1>12 DEF updVars
<1> QED
  BY <1>1, <1>2, <1>3, <1>4, <1>5, <1>6, <1>7, <1>8, <1>9, <1>10, <1>11, <1>12,
     <1>13, <1>14, <1>15, <1>16, <1>17
  DEF UpdNext, Frontend, Helper

(* A helper that nobody killed restarts the program with the settings the  *)
(* user had.                                                               *)
THEOREM UpdaterPreservesSettings == UpdSpec => PreservesSettings
<1>1. SettingsKept /\ SettingsKept' /\ [UpdNext]_updVars
        => [helper = "restart" /\ helper' = "none" /\ original = "user" /\ kills = 0
              => settings' = original]_updVars
  <2> SUFFICES ASSUME SettingsKept, UpdNext, helper = "restart", helper' = "none",
                      original = "user", kills = 0
               PROVE  settings' = "user"
    OBVIOUS
  <2>1. settings = "user"
    BY DEF SettingsKept
  <2>2. CASE Restart
    BY <2>1, <2>2 DEF Restart
  <2>3. CASE ~Restart
    BY <2>1, <2>3 DEF UpdNext, Frontend, Thread, Helper, Accept, Escape, Cancel, Leave,
       TakeResult, Fetch, Store, Verify, Hash, Discard, Publish, CheckArchive, Extract, BackUp,
       BeginCopy, EndCopy, Restore, KillHelper, KillApp, Launch, Working, Helping, disk
  <2> QED
    BY <2>2, <2>3
<1> QED
  BY SettingsInit, SettingsStep, <1>1, PTL DEF UpdSpec, PreservesSettings

-----------------------------------------------------------------------------
(* The battery: clocks, cores and files.                                   *)

(* Records with fields replaced, a set of records at a time.               *)
LEMMA ClockWith ==
    ASSUME NEW e \in Clocks, NEW t \in 0..(Period - 1), NEW k \in BOOLEAN
    PROVE  [e EXCEPT !.time = t, !.carry = k] = [time |-> t, halted |-> e.halted, carry |-> k]
<1> DEFINE f == [e EXCEPT !.time = t, !.carry = k]
<1>1. f \in Clocks /\ f.time = t /\ f.halted = e.halted /\ f.carry = k
  BY DEF Clocks
<1> HIDE DEF f
<1>2. f = [time |-> f.time, halted |-> f.halted, carry |-> f.carry]
  BY <1>1 DEF Clocks
<1> QED
  BY <1>1, <1>2 DEF f

LEMMA ClockSetTime ==
    ASSUME NEW e \in Clocks, NEW t \in 0..(Period - 1)
    PROVE  /\ [e EXCEPT !.time = t] \in Clocks /\ [e EXCEPT !.time = t].time = t
           /\ [e EXCEPT !.time = t].halted = e.halted
           /\ [e EXCEPT !.time = t].carry = e.carry
  BY DEF Clocks

LEMMA ClockSetControl ==
    ASSUME NEW e \in Clocks, NEW h \in BOOLEAN, NEW k \in BOOLEAN
    PROVE  [e EXCEPT !.halted = h, !.carry = k] \in Clocks
  BY DEF Clocks

\* A core, field by field.
IsCore(c, ram, ram_dirty, rtc, last, rtc_dirty) ==
    /\ c \in Cartridges /\ c.ram = ram /\ c.ram_dirty = ram_dirty
    /\ c.rtc = rtc /\ c.last = last /\ c.rtc_dirty = rtc_dirty

LEMMA CoreWithRam ==
    ASSUME NEW c \in Cartridges, NEW v \in Contents, NEW d \in BOOLEAN
    PROVE  IsCore([c EXCEPT !.ram = v, !.ram_dirty = d], v, d, c.rtc, c.last, c.rtc_dirty)
  BY DEF Cartridges, IsCore

LEMMA CoreRamClean ==
    ASSUME NEW c \in Cartridges
    PROVE  IsCore([c EXCEPT !.ram_dirty = FALSE], c.ram, FALSE, c.rtc, c.last, c.rtc_dirty)
  BY DEF Cartridges, IsCore

LEMMA CoreWithRtc ==
    ASSUME NEW c \in Cartridges, NEW r \in Clocks
    PROVE  IsCore([c EXCEPT !.rtc = r, !.rtc_dirty = TRUE], c.ram, c.ram_dirty, r, c.last, TRUE)
  BY DEF Cartridges, IsCore

LEMMA CoreRtcClean ==
    ASSUME NEW c \in Cartridges
    PROVE  IsCore([c EXCEPT !.rtc_dirty = FALSE], c.ram, c.ram_dirty, c.rtc, c.last, FALSE)
  BY DEF Cartridges, IsCore

LEMMA CoreUpdated ==
    ASSUME NEW c \in Cartridges, NEW r \in Clocks, NEW t \in 0..Horizon, NEW d \in BOOLEAN
    PROVE  IsCore([c EXCEPT !.rtc = r, !.last = t, !.rtc_dirty = d], c.ram, c.ram_dirty, r, t, d)
  BY DEF Cartridges, IsCore

\* What the assumptions on the constants say.
LEMMA Sentinels ==
    /\ Period \in Nat \ {0} /\ Horizon \in Nat /\ Blank \in Contents
    /\ Torn # None /\ Torn \notin Contents /\ None \notin Contents
    /\ Torn \notin ClockFiles /\ None \notin ClockFiles
    /\ None \notin Cartridges /\ None \notin SavedStates
  BY HorizonAssumption, BatteryAssumption DEF Battery!Sizes

(* A clock some seconds on is one; and a second more is a second later.    *)
LEMMA ElapsedOn ==
    ASSUME NEW rtc \in Clocks, NEW n \in Nat
    PROVE  /\ Elapsed(rtc, n) \in Clocks
           /\ Elapsed(rtc, 0) = rtc
           /\ Elapsed(rtc, n + 1) = Battery!Later(Elapsed(rtc, n), 1)
<1>1. rtc.time \in 0..(Period - 1) /\ rtc.halted \in BOOLEAN /\ rtc.carry \in BOOLEAN
      /\ Period \in Nat \ {0}
  BY Sentinels DEF Clocks
<1>2. CASE rtc.halted
  BY <1>2 DEF Elapsed, Battery!Later
<1>3. CASE ~rtc.halted
  <2> DEFINE At(t) == [time |-> (rtc.time + t) % Period, halted |-> FALSE,
                       carry |-> rtc.carry \/ rtc.time + t >= Period]
             total == rtc.time + n
             time == total % Period
             carry == rtc.carry \/ total >= Period
             later == (time + 1) % Period
             late == carry \/ time + 1 >= Period
             more == rtc.carry \/ total + 1 >= Period
             e == [time |-> time, halted |-> FALSE, carry |-> carry]
  <2>1. \A t : Elapsed(rtc, t) = At(t)
    BY <1>3 DEF Elapsed
  <2>2. total \in Nat /\ rtc.time + (n + 1) = total + 1 /\ rtc.time + 0 = rtc.time
    BY <1>1
  <2>3. time \in 0..(Period - 1) /\ rtc.time % Period = rtc.time
    BY <1>1, <2>2
  <2>4. /\ (total + 1) % Period = IF time + 1 = Period THEN 0 ELSE time + 1
        /\ later = IF (time % Period) + 1 = Period THEN 0 ELSE (time % Period) + 1
        /\ time % Period = time
    <3>1. time % Period = time
      BY <1>1, <2>3
    <3>2. time \in Nat
      BY <1>1, <2>3
    <3>3. (total + 1) % Period = IF (total % Period) + 1 = Period THEN 0 ELSE (total % Period) + 1
      <4> HIDE DEF total
      <4> QED BY <1>1, <2>2, ModNext, Zenon
    <3>4. (time + 1) % Period = IF (time % Period) + 1 = Period THEN 0 ELSE (time % Period) + 1
      <4> HIDE DEF time
      <4> QED BY <1>1, <3>2, ModNext, Zenon
    <3> QED
      BY <3>1, <3>3, <3>4, Zenon
  <2>5. late = more
    <3>1. CASE total < Period
      <4>1. time = total
        BY <1>1, <2>2, <3>1
      <4> HIDE DEF time
      <4> QED
        BY <1>1, <2>2, <3>1, <4>1
    <3>2. CASE total >= Period
      BY <1>1, <2>2, <3>2
    <3> QED
      BY <1>1, <2>2, <3>1, <3>2
  <2>6. Elapsed(rtc, n) = e
    BY <2>1
  <2>7. Elapsed(rtc, n + 1) = [time |-> (total + 1) % Period, halted |-> FALSE, carry |-> more]
    BY <2>1, <2>2, Zenon
  <2>8. Elapsed(rtc, 0) = [time |-> rtc.time, halted |-> FALSE, carry |-> rtc.carry]
    <3> DEFINE k == rtc.carry \/ rtc.time + 0 >= Period
    <3>1. k = rtc.carry
      BY <1>1, <2>2
    <3>2. Elapsed(rtc, 0) = [time |-> (rtc.time + 0) % Period, halted |-> FALSE, carry |-> k]
      BY <2>1
    <3> HIDE DEF k
    <3> QED
      BY <2>2, <2>3, <3>1, <3>2
  <2>9. Battery!Later(e, 1) = [e EXCEPT !.time = later, !.carry = late]
    <3>1. ~e.halted /\ e.time = time /\ e.carry = carry
      OBVIOUS
    <3> HIDE DEF e, time, carry
    <3> QED
      BY <3>1, Zenon DEF Battery!Later
  <2>10. carry \in BOOLEAN /\ more \in BOOLEAN /\ later \in 0..(Period - 1)
    BY <1>1, <2>3, <2>4
  <2>11. later = (total + 1) % Period
    BY <2>4
  <2>12. rtc = [time |-> rtc.time, halted |-> FALSE, carry |-> rtc.carry]
    BY <1>3 DEF Clocks
  <2> HIDE DEF At, total, time, carry, later, late, more
  <2>13. e \in Clocks /\ e.halted = FALSE
    BY <2>3, <2>10 DEF Clocks
  <2>14. [e EXCEPT !.time = later, !.carry = more]
           = [time |-> later, halted |-> e.halted, carry |-> more]
    <3> HIDE DEF e
    <3> QED BY <2>10, <2>13, ClockWith
  <2>15. Battery!Later(e, 1) = Elapsed(rtc, n + 1)
    BY <2>5, <2>7, <2>9, <2>11, <2>13, <2>14
  <2> QED
    BY <2>6, <2>8, <2>12, <2>13, <2>15
<1> QED
  BY <1>2, <1>3
-----------------------------------------------------------------------------
(* The invariant.  No clock was updated later than now; what the files do  *)
(* not hold is marked in the core, while it plays and while it is flushed; *)
(* and a core that waits to replace the running one holds the same memory, *)
(* and the same time.                                                      *)
Times ==
    /\ BatteryTypeOK
    /\ core # None => core.last <= now
    /\ replacement # None => replacement.last <= now
    /\ clk \notin {None, Torn} => clk.last <= now
    /\ pc # "run" => core # None
    /\ replacement # None => core # None /\ pc # "run"

Marked ==
    core # None => /\ sav # Torn => RamKept \/ core.ram_dirty
                   /\ clk \notin {None, Torn} => RtcKept \/ core.rtc_dirty

Replaces ==
    replacement # None =>
        /\ replacement.ram = core.ram
        /\ sav # Torn => RamKept
        /\ RtcAt(replacement.rtc, replacement.last) = RtcAt(core.rtc, core.last)
        /\ clk # Torn => RtcKept

BatteryInv == Times /\ Marked /\ Replaces

BatteryStep == BatteryNext /\ KeptBeforeReset

(* What is known of the records of a state that has its types.             *)
Known ==
    /\ now \in Nat
    /\ core # None =>
         /\ core.ram \in Contents /\ core.ram_dirty \in BOOLEAN /\ core.rtc \in Clocks
         /\ core.last \in 0..now /\ core.rtc_dirty \in BOOLEAN
         /\ now - core.last \in Nat /\ RtcAt(core.rtc, core.last) \in Clocks
    /\ replacement # None =>
         /\ replacement.ram \in Contents /\ replacement.rtc \in Clocks
         /\ replacement.last \in 0..now /\ now - replacement.last \in Nat
         /\ RtcAt(replacement.rtc, replacement.last) \in Clocks
    /\ clk \notin {None, Torn} =>
         /\ clk.rtc \in Clocks /\ clk.last \in 0..now /\ now - clk.last \in Nat
         /\ RtcAt(clk.rtc, clk.last) \in Clocks
    /\ state # None => state.ram \in Contents /\ state.rtc \in Clocks

LEMMA TimesKnown == ASSUME Times PROVE Known
<1> USE DEF Times, BatteryTypeOK
<1>1. now \in Nat
  BY Sentinels
<1>2. ASSUME core # None
      PROVE  /\ core.ram \in Contents /\ core.ram_dirty \in BOOLEAN /\ core.rtc \in Clocks
             /\ core.last \in 0..now /\ core.rtc_dirty \in BOOLEAN
             /\ now - core.last \in Nat
  BY <1>1, <1>2 DEF Cartridges
<1>3. ASSUME replacement # None
      PROVE  /\ replacement.ram \in Contents /\ replacement.rtc \in Clocks
             /\ replacement.last \in 0..now /\ now - replacement.last \in Nat
  BY <1>1, <1>3 DEF Cartridges
<1>4. ASSUME clk \notin {None, Torn}
      PROVE  clk.rtc \in Clocks /\ clk.last \in 0..now /\ now - clk.last \in Nat
  BY <1>1, <1>4 DEF ClockFiles
<1>5. ASSUME state # None
      PROVE  state.ram \in Contents /\ state.rtc \in Clocks
  BY <1>5 DEF SavedStates
<1>6. ASSUME NEW rtc \in Clocks, NEW last, now - last \in Nat
      PROVE  RtcAt(rtc, last) \in Clocks
  BY <1>6, ElapsedOn DEF RtcAt
<1> QED
  BY <1>1, <1>2, <1>3, <1>4, <1>5, <1>6 DEF Known

(* A core as its fields say is one.                                        *)
LEMMA CoreFields ==
    ASSUME NEW ram \in Contents, NEW d \in BOOLEAN, NEW rtc \in Clocks,
           NEW last \in 0..Horizon, NEW e \in BOOLEAN
    PROVE  LET c == [ram |-> ram, ram_dirty |-> d, rtc |-> rtc, last |-> last, rtc_dirty |-> e]
           IN  c \in Cartridges /\ c # None
  BY Sentinels DEF Cartridges

Same(c, d) == c.ram = d.ram /\ c.ram_dirty = d.ram_dirty

(* Bringing a core up to date changes its time at no moment.               *)
LEMMA UpdatedOn ==
    ASSUME Times, core # None
    PROVE  LET c == UpdateRtc(core)
           IN  /\ c \in Cartridges /\ c # None /\ Same(c, core)
               /\ c.last = now /\ c.rtc = RtcAt(core.rtc, core.last)
               /\ RtcAt(c.rtc, c.last) = c.rtc
               /\ core.rtc_dirty => c.rtc_dirty
<1> DEFINE r == RtcAt(core.rtc, core.last)
           d == core.rtc_dirty \/ (now # core.last /\ ~core.rtc.halted)
           c == UpdateRtc(core)
<1>1. /\ now \in Nat /\ core.ram \in Contents /\ core.ram_dirty \in BOOLEAN
      /\ core.rtc_dirty \in BOOLEAN /\ r \in Clocks
  BY TimesKnown DEF Known
<1>2. core \in Cartridges /\ now \in 0..Horizon /\ core.rtc.halted \in BOOLEAN
  <2>1. core.rtc \in Clocks
    BY TimesKnown DEF Known
  <2> QED
    BY <2>1 DEF Times, BatteryTypeOK, Clocks
<1>3. d \in BOOLEAN
  OBVIOUS
<1> HIDE DEF r, d
<1>4. c = [core EXCEPT !.rtc = r, !.last = now, !.rtc_dirty = d]
  BY <1>2, Zenon DEF UpdateRtc, r, d
<1>5. now - now = 0
  BY <1>1
<1>6. RtcAt(r, now) = r
  BY <1>1, <1>5, ElapsedOn, Zenon DEF RtcAt
<1>7. core.rtc_dirty => d
  BY DEF d
<1> HIDE DEF c
<1> HIDE DEF c
<1>8. IsCore(c, core.ram, core.ram_dirty, r, now, d)
  BY <1>1, <1>2, <1>3, <1>4, CoreUpdated, Zenon
<1>9. c # None
  BY <1>8, Sentinels DEF IsCore
<1> QED
  BY <1>6, <1>7, <1>8, <1>9, Zenon DEF c, r, Same, IsCore
(* Whatever the game and the save states do to the core.                   *)
LEMMA AccessKeeps ==
    ASSUME BatteryInv, now' = now, sav' = sav, clk' = clk, pc' = pc, after' = after,
           replacement' = replacement, Running,
           state' \in SavedStates \cup {None},
           core' \in Cartridges, core' # None, core'.last <= now,
           sav # Torn => sav = core'.ram \/ (sav = None /\ core'.ram = Blank) \/ core'.ram_dirty,
           clk \notin {None, Torn} =>
               RtcAt(clk.rtc, clk.last) = Elapsed(core'.rtc, now - core'.last) \/ core'.rtc_dirty
    PROVE  BatteryInv'
<1>1. Times'
  BY DEF BatteryInv, Times, BatteryTypeOK, Running
<1>2. Marked'
  BY DEF Marked, RamKept, RtcKept, RtcAt
<1>3. replacement' = None
  BY DEF BatteryInv, Times, Running
<1>4. Replaces'
  BY <1>3 DEF Replaces
<1> QED
  BY <1>1, <1>2, <1>4 DEF BatteryInv

LEMMA GameKeeps ==
    ASSUME BatteryInv,
           \/ LatchRtc
           \/ \E v \in Contents : WriteRam(v)
           \/ \E t \in 0..(Period - 1) : WriteRtcTime(t)
           \/ \E halted \in BOOLEAN : WriteRtcControl(halted, FALSE)
    PROVE  BatteryInv'
<1>1. PICK c : Access(c) /\ c \in Cartridges /\ c # None /\ c.last <= now
               /\ (Same(c, core) \/ c.ram_dirty \/ (c.ram = core.ram /\ c.ram_dirty = core.ram_dirty))
               /\ (c.rtc_dirty \/ (/\ Elapsed(c.rtc, now - c.last) = RtcAt(core.rtc, core.last)
                                   /\ core.rtc_dirty => c.rtc_dirty))
  <2> DEFINE u == UpdateRtc(core)
  <2>1. /\ Times /\ core # None /\ now \in 0..Horizon /\ Known
        /\ core \in Cartridges /\ core.last <= now
    BY TimesKnown DEF BatteryInv, LatchRtc, WriteRam, WriteRtcTime, WriteRtcControl, WriteRtc,
       Access, Running, Times, BatteryTypeOK
  <2>2. /\ u \in Cartridges /\ u # None /\ Same(u, core) /\ u.last = now
        /\ u.rtc = RtcAt(core.rtc, core.last) /\ RtcAt(u.rtc, u.last) = u.rtc
        /\ core.rtc_dirty => u.rtc_dirty
    BY <2>1, UpdatedOn
  <2> HIDE DEF u
  <2>3. CASE LatchRtc
    <3>1. Access(u)
      BY <2>3 DEF LatchRtc, u
    <3> QED
      BY <2>1, <2>2, <3>1 DEF RtcAt, Known
  <2>4. ASSUME NEW v \in Contents, WriteRam(v)
        PROVE  \E c : /\ Access(c) /\ c \in Cartridges /\ c # None /\ c.last <= now
                      /\ Same(c, core) \/ c.ram_dirty
                      /\ Elapsed(c.rtc, now - c.last) = RtcAt(core.rtc, core.last)
                      /\ core.rtc_dirty => c.rtc_dirty
    <3> DEFINE d == core.ram_dirty \/ core.ram # v
               c == [core EXCEPT !.ram = v, !.ram_dirty = d]
    <3>1. core.ram_dirty \in BOOLEAN /\ d \in BOOLEAN
      BY <2>1 DEF Cartridges
    <3>2. d \/ (v = core.ram /\ d = core.ram_dirty)
      BY <3>1
    <3>3. Access(c)
      BY <2>4, Zenon DEF WriteRam
    <3> HIDE DEF d
    <3>4. IsCore(c, v, d, core.rtc, core.last, core.rtc_dirty)
      BY <2>1, <3>1, CoreWithRam, Zenon
    <3> HIDE DEF c
    <3>5. c # None
      BY <3>4, Sentinels DEF IsCore
    <3> QED
      BY <2>1, <3>2, <3>3, <3>4, <3>5 DEF RtcAt, Same, IsCore
  <2>5. ASSUME NEW rtc \in Clocks, WriteRtc(rtc)
        PROVE  \E c : /\ Access(c) /\ c \in Cartridges /\ c # None /\ c.last <= now
                      /\ Same(c, core) /\ c.rtc_dirty
    <3> DEFINE c == [u EXCEPT !.rtc = rtc, !.rtc_dirty = TRUE]
    <3>1. Access(c)
      BY <2>5, Zenon DEF WriteRtc, u
    <3>2. IsCore(c, u.ram, u.ram_dirty, rtc, u.last, TRUE)
      BY <2>2, CoreWithRtc
    <3> HIDE DEF c
    <3>3. c # None
      BY <3>2, Sentinels DEF IsCore
    <3> QED
      BY <2>1, <2>2, <3>1, <3>2, <3>3 DEF Same, IsCore
  <2>6. ASSUME NEW t \in 0..(Period - 1), WriteRtcTime(t)
        PROVE  \E rtc \in Clocks : WriteRtc(rtc)
    <3>1. [u.rtc EXCEPT !.time = t] \in Clocks
      BY <2>1, <2>2, ClockSetTime DEF Known
    <3> QED
      BY <2>6, <3>1 DEF WriteRtcTime, u
  <2>7. ASSUME NEW halted \in BOOLEAN, WriteRtcControl(halted, FALSE)
        PROVE  \E rtc \in Clocks : WriteRtc(rtc)
    <3>1. [u.rtc EXCEPT !.halted = halted, !.carry = FALSE] \in Clocks
      BY <2>1, <2>2, ClockSetControl DEF Known
    <3> QED
      BY <2>7, <3>1 DEF WriteRtcControl, u
  <2> QED
    BY <2>3, <2>4, <2>5, <2>6, <2>7
<1>2. /\ core' = c /\ now' = now /\ sav' = sav /\ clk' = clk /\ pc' = pc /\ after' = after
      /\ replacement' = replacement /\ state' = state /\ Running
  BY <1>1 DEF Access, Disk, Session
<1>3. sav # Torn => sav = c.ram \/ (sav = None /\ c.ram = Blank) \/ c.ram_dirty
  BY <1>1, <1>2 DEF BatteryInv, Marked, RamKept, Running, Same
<1>4. clk \notin {None, Torn} =>
          RtcAt(clk.rtc, clk.last) = Elapsed(c.rtc, now - c.last) \/ c.rtc_dirty
  BY <1>1, <1>2 DEF BatteryInv, Marked, RtcKept, Running
<1>5. state' \in SavedStates \cup {None}
  BY <1>2 DEF BatteryInv, Times, BatteryTypeOK
<1> QED
  BY <1>1, <1>2, <1>3, <1>4, <1>5, AccessKeeps

LEMMA StatesKeep ==
    ASSUME BatteryInv, SaveState \/ LoadState
    PROVE  BatteryInv'
<1>1. /\ Times /\ core # None /\ now \in 0..Horizon /\ Known /\ core \in Cartridges
      /\ state \in SavedStates \cup {None} /\ Running
  BY TimesKnown DEF BatteryInv, SaveState, LoadState, Access, Running, Times, BatteryTypeOK
<1>2. CASE SaveState
  <2> DEFINE u == UpdateRtc(core)
  <2>1. /\ u \in Cartridges /\ u # None /\ Same(u, core) /\ u.last = now
        /\ u.rtc = RtcAt(core.rtc, core.last) /\ RtcAt(u.rtc, u.last) = u.rtc
        /\ core.rtc_dirty => u.rtc_dirty
    BY <1>1, UpdatedOn
  <2>2. /\ core' = u /\ state' = [ram |-> core.ram, rtc |-> u.rtc] /\ now' = now
        /\ sav' = sav /\ clk' = clk /\ pc' = pc /\ after' = after
        /\ replacement' = replacement
    BY <1>2 DEF SaveState, Disk, Session
  <2> HIDE DEF u
  <2>3. state' \in SavedStates
    BY <1>1, <2>1, <2>2 DEF SavedStates, Cartridges
  <2>4. sav # Torn => sav = u.ram \/ (sav = None /\ u.ram = Blank) \/ u.ram_dirty
    BY <1>1, <2>1 DEF BatteryInv, Marked, RamKept, Same
  <2>5. clk \notin {None, Torn} =>
            RtcAt(clk.rtc, clk.last) = Elapsed(u.rtc, now - u.last) \/ u.rtc_dirty
    BY <1>1, <2>1 DEF BatteryInv, Marked, RtcKept, RtcAt
  <2> QED
    BY <1>1, <2>1, <2>2, <2>3, <2>4, <2>5, AccessKeeps
<1>3. CASE LoadState
  <2> DEFINE c == Restored(state)
  <2>1. /\ core' = c /\ now' = now /\ sav' = sav /\ clk' = clk /\ pc' = pc /\ after' = after
        /\ replacement' = replacement /\ state' = state /\ state # None
    BY <1>3 DEF LoadState, Access, Disk, Session
  <2>2. state.ram \in Contents /\ state.rtc \in Clocks /\ now \in Nat
    BY <1>1, <2>1 DEF Known
  <2>3. c = [ram |-> state.ram, ram_dirty |-> TRUE, rtc |-> state.rtc, last |-> now,
             rtc_dirty |-> TRUE]
    BY DEF Restored
  <2>4. c.ram_dirty /\ c.rtc_dirty /\ c.last <= now
    BY <2>2, <2>3
  <2>5. c \in Cartridges /\ c # None
    BY <1>1, <2>2, <2>3, CoreFields, Zenon
  <2> HIDE DEF c
  <2> QED
    BY <1>1, <2>1, <2>4, <2>5, AccessKeeps
<1> QED
  BY <1>2, <1>3
(* The host's clock goes on: every clock that runs goes on with it.        *)
LEMMA SecondKeeps ==
    ASSUME BatteryInv, Second
    PROVE  /\ BatteryInv'
           /\ core # None => RtcAt(core.rtc, core.last)'
                               = Battery!Later(RtcAt(core.rtc, core.last), 1)
           /\ clk \notin {None, Torn} => RtcAt(clk.rtc, clk.last)'
                               = Battery!Later(RtcAt(clk.rtc, clk.last), 1)
<1>1. /\ Known /\ Times /\ now \in 0..Horizon /\ now < Horizon /\ now' = now + 1
      /\ core' = core /\ sav' = sav /\ clk' = clk /\ state' = state
      /\ replacement' = replacement /\ pc' = pc /\ after' = after
  BY TimesKnown DEF BatteryInv, Second, Disk, Session, Times, BatteryTypeOK
<1>2. ASSUME NEW rtc \in Clocks, NEW last \in 0..now
      PROVE  Elapsed(rtc, now' - last) = Battery!Later(Elapsed(rtc, now - last), 1)
  <2>1. now' - last = (now - last) + 1 /\ now - last \in Nat
    BY <1>1
  <2> QED
    BY <2>1, ElapsedOn
<1>3. core # None => RtcAt(core.rtc, core.last)'
                       = Battery!Later(RtcAt(core.rtc, core.last), 1)
  BY <1>1, <1>2 DEF RtcAt, Known
<1>4. clk \notin {None, Torn} => RtcAt(clk.rtc, clk.last)'
                       = Battery!Later(RtcAt(clk.rtc, clk.last), 1)
  BY <1>1, <1>2 DEF RtcAt, Known
<1>5. replacement # None => RtcAt(replacement.rtc, replacement.last)'
                       = Battery!Later(RtcAt(replacement.rtc, replacement.last), 1)
  BY <1>1, <1>2 DEF RtcAt, Known
<1>6. Times'
  <2>1. Horizon \in Nat
    BY Sentinels
  <2>2. now' \in 0..Horizon
    BY <1>1, <2>1
  <2>3. \A k \in 0..now : k <= now'
    BY <1>1
  <2> QED
    BY <1>1, <2>2, <2>3 DEF Times, BatteryTypeOK, Known
<1>7. core # None /\ RtcKept => RtcKept'
  BY <1>1, <1>3, <1>4 DEF RtcKept
<1>8. RamKept' = RamKept
  BY <1>1 DEF RamKept
<1>9. Marked'
  BY <1>1, <1>7, <1>8 DEF BatteryInv, Marked
<1>10. Replaces'
  BY <1>1, <1>3, <1>5, <1>7, <1>8 DEF BatteryInv, Replaces, Times
<1> QED
  BY <1>3, <1>4, <1>6, <1>9, <1>10 DEF BatteryInv

(* What a new core reads from the files.                                   *)
LEMMA LoadsWhatIsKept ==
    ASSUME Times, NEW c \in Loads
    PROVE  /\ c \in Cartridges /\ c # None /\ c.last = now /\ clk # Torn
           /\ sav # Torn => sav = c.ram \/ (sav = None /\ c.ram = Blank)
           /\ RtcAt(c.rtc, c.last) = c.rtc
           /\ c.rtc = IF clk = None THEN FreshClock ELSE RtcAt(clk.rtc, clk.last)
<1> DEFINE rtc == IF clk = None THEN FreshClock ELSE RtcAt(clk.rtc, clk.last)
           ram == IF sav = Torn THEN Contents
                  ELSE IF sav = None THEN {Blank} ELSE {sav}
<1>1. clk # Torn /\ now \in 0..Horizon /\ Known
  BY TimesKnown DEF Loads, Times, BatteryTypeOK
<1>2. rtc \in Clocks
  <2>1. FreshClock \in Clocks
    BY Sentinels DEF FreshClock, Clocks
  <2> QED
    BY <1>1, <2>1 DEF Known
<1>3. PICK v \in ram : c = [ram |-> v, ram_dirty |-> FALSE, rtc |-> rtc, last |-> now,
                            rtc_dirty |-> FALSE]
  BY <1>1 DEF Loads
<1>4. v \in Contents
  BY Sentinels DEF Times, BatteryTypeOK
<1>5. sav # Torn => sav = v \/ (sav = None /\ v = Blank)
  OBVIOUS
<1> HIDE DEF rtc, ram
<1>6. c \in Cartridges /\ c # None
  BY <1>1, <1>2, <1>3, <1>4, CoreFields
<1>7. now - now = 0
  BY <1>1
<1>8. RtcAt(rtc, now) = rtc
  BY <1>2, <1>7, ElapsedOn DEF RtcAt
<1> QED
  BY <1>1, <1>3, <1>5, <1>6, <1>8 DEF rtc

LEMMA OpenKeeps ==
    ASSUME BatteryInv, Open
    PROVE  BatteryInv'
<1>1. /\ Times /\ core = None /\ core' \in Loads /\ now' = now /\ sav' = sav /\ clk' = clk
      /\ state' = state /\ replacement' = replacement /\ pc' = pc /\ after' = after
  BY DEF Open, Disk, Session, BatteryInv
<1>2. /\ core' \in Cartridges /\ core' # None /\ core'.last = now /\ clk # Torn
      /\ sav # Torn => sav = core'.ram \/ (sav = None /\ core'.ram = Blank)
      /\ RtcAt(core'.rtc, core'.last) = core'.rtc
      /\ core'.rtc = IF clk = None THEN FreshClock ELSE RtcAt(clk.rtc, clk.last)
  BY <1>1, LoadsWhatIsKept
<1>3. pc = "run" /\ replacement = None /\ now \in Nat
  BY <1>1 DEF Times, BatteryTypeOK
<1>4. Times'
  BY <1>1, <1>2, <1>3 DEF Times, BatteryTypeOK
<1>5. Marked'
  BY <1>1, <1>2 DEF Marked, RamKept, RtcKept, RtcAt
<1>6. Replaces'
  BY <1>1, <1>3 DEF Replaces
<1> QED
  BY <1>4, <1>5, <1>6 DEF BatteryInv

LEMMA LeavesKeep ==
    ASSUME BatteryInv, (Reset /\ RamKept /\ RtcKept) \/ Close \/ Flush
    PROVE  BatteryInv'
<1>1. /\ Times /\ core # None /\ now' = now /\ core' = core /\ sav' = sav /\ clk' = clk
      /\ state' = state /\ pc = "run" /\ replacement = None
      /\ now \in Nat
  BY DEF Reset, Close, Flush, Running, Disk, BatteryInv, Times, BatteryTypeOK
<1>2. Marked'
  BY <1>1 DEF BatteryInv, Marked, RamKept, RtcKept, RtcAt
<1>3. CASE Close \/ Flush
  <2>1. replacement' = None /\ pc' = "flush" /\ after' \in {"play", "close"}
    BY <1>1, <1>3 DEF Close, Flush
  <2> QED
    BY <1>1, <1>2, <2>1 DEF BatteryInv, Times, BatteryTypeOK, Replaces
<1>4. CASE Reset /\ RamKept /\ RtcKept
  <2>1. replacement' \in Loads /\ pc' = "flush" /\ after' = "swap"
    BY <1>4 DEF Reset
  <2>2. /\ replacement' \in Cartridges /\ replacement' # None /\ replacement'.last = now
        /\ clk # Torn
        /\ sav # Torn => sav = replacement'.ram \/ (sav = None /\ replacement'.ram = Blank)
        /\ RtcAt(replacement'.rtc, replacement'.last) = replacement'.rtc
        /\ replacement'.rtc = IF clk = None THEN FreshClock ELSE RtcAt(clk.rtc, clk.last)
    BY <1>1, <2>1, LoadsWhatIsKept
  <2>3. /\ core.ram \in Contents /\ clk \notin {None, Torn}
        /\ RtcAt(clk.rtc, clk.last) = RtcAt(core.rtc, core.last)
    BY <1>1, <1>4, TimesKnown DEF Known, RtcKept
  <2>4. replacement'.ram = core.ram /\ sav # Torn
    <3>1. replacement'.ram \in Contents
      BY <2>2 DEF Cartridges
    <3> QED
      BY <1>4, <2>2, <2>3, <3>1, Sentinels DEF RamKept
  <2>5. Times'
    BY <1>1, <2>1, <2>2 DEF Times, BatteryTypeOK
  <2>6. Replaces'
    BY <1>1, <1>4, <2>2, <2>3, <2>4 DEF Replaces, RamKept, RtcKept, RtcAt
  <2> QED
    BY <1>2, <2>5, <2>6 DEF BatteryInv
<1> QED
  BY <1>3, <1>4
(* A flush: the core it writes stays as it is but for its marks, and a     *)
(* mark is only taken off when its file holds what the core holds.         *)
FlushOn ==
    /\ now' = now /\ replacement' = replacement /\ state' = state /\ after' = after
    /\ pc \in {"flush", "ram", "rtc_update", "rtc"}
    /\ pc' \in {"ram", "rtc_update", "rtc", "flushed"}
    /\ core # None
    /\ core' \in Cartridges /\ core' # None /\ core'.last <= now
    /\ core'.ram = core.ram
    /\ RtcAt(core'.rtc, core'.last) = RtcAt(core.rtc, core.last)
    /\ \/ sav' = sav /\ core'.ram_dirty = core.ram_dirty
       \/ sav' = Torn
       \/ sav' = core.ram
    /\ \/ clk' = clk /\ (core.rtc_dirty => core'.rtc_dirty)
       \/ clk' = Torn
       \/ /\ clk' \in ClockFiles /\ clk'.last <= now
          /\ RtcAt(clk'.rtc, clk'.last) = RtcAt(core.rtc, core.last)
    /\ sav' = sav \/ clk' = clk

LEMMA FlushOnKeeps ==
    ASSUME BatteryInv, FlushOn
    PROVE  BatteryInv'
<1>1. /\ Times /\ now \in Nat /\ core.ram \in Contents /\ Torn # None
      /\ Torn \notin ClockFiles /\ None \notin ClockFiles /\ Torn \notin Contents
      /\ None \notin Contents
  BY TimesKnown, Sentinels DEF BatteryInv, Known, FlushOn
<1>2. Times'
  BY <1>1 DEF FlushOn, Times, BatteryTypeOK
<1>3. sav # Torn => RamKept \/ core.ram_dirty
  BY DEF BatteryInv, Marked, FlushOn
<1>4. clk \notin {None, Torn} => RtcKept \/ core.rtc_dirty
  BY DEF BatteryInv, Marked, FlushOn
<1>5. sav' # Torn => RamKept' \/ core'.ram_dirty
  BY <1>3, <1>1 DEF FlushOn, RamKept
<1>6. clk \in {None, Torn} \/ RtcKept <=>
        clk \in {None, Torn} \/ RtcAt(clk.rtc, clk.last) = RtcAt(core.rtc, core.last)
  BY DEF RtcKept
<1>7. RtcKept' <=> /\ clk' \notin {None, Torn}
                   /\ Elapsed(clk'.rtc, now - clk'.last) = RtcAt(core.rtc, core.last)
  BY DEF RtcKept, FlushOn, RtcAt
<1>8. clk' \notin {None, Torn} => RtcKept' \/ core'.rtc_dirty
  <2>1. CASE clk' = clk /\ (core.rtc_dirty => core'.rtc_dirty)
    BY <1>4, <1>6, <1>7, <2>1 DEF RtcAt
  <2>2. CASE /\ clk' \in ClockFiles /\ clk'.last <= now
             /\ RtcAt(clk'.rtc, clk'.last) = RtcAt(core.rtc, core.last)
    BY <1>7, <2>2 DEF RtcAt
  <2> QED
    BY <2>1, <2>2 DEF FlushOn
<1>9. Marked'
  BY <1>5, <1>8 DEF Marked
<1>10. ASSUME replacement # None
       PROVE  /\ replacement.ram = core.ram
              /\ sav # Torn => RamKept
              /\ RtcAt(replacement.rtc, replacement.last) = RtcAt(core.rtc, core.last)
              /\ clk # Torn => RtcKept
  BY <1>10 DEF BatteryInv, Replaces
<1>11. ASSUME replacement # None
       PROVE  /\ replacement'.ram = core'.ram
              /\ sav' # Torn => RamKept'
              /\ RtcAt(replacement.rtc, replacement.last)' = RtcAt(core.rtc, core.last)'
              /\ clk' # Torn => RtcKept'
  <2>1. replacement'.ram = core'.ram
    BY <1>10, <1>11 DEF FlushOn
  <2>2. sav' # Torn => RamKept'
    BY <1>10, <1>11, <1>1 DEF FlushOn, RamKept
  <2>3. RtcAt(replacement.rtc, replacement.last)' = RtcAt(core.rtc, core.last)'
    BY <1>10, <1>11 DEF FlushOn, RtcAt
  <2>4. clk' # Torn => RtcKept'
    <3>1. CASE clk' = clk
      BY <1>10, <1>11, <1>6, <1>7, <3>1 DEF RtcAt, RtcKept
    <3>2. CASE /\ clk' \in ClockFiles /\ clk'.last <= now
               /\ RtcAt(clk'.rtc, clk'.last) = RtcAt(core.rtc, core.last)
      BY <1>1, <1>7, <3>2 DEF RtcAt
    <3> QED
      BY <3>1, <3>2 DEF FlushOn
  <2> QED
    BY <2>1, <2>2, <2>3, <2>4
<1>12. Replaces'
  <2>1. replacement' = replacement
    BY DEF FlushOn
  <2> QED
    BY <1>11, <2>1 DEF Replaces
<1> QED
  BY <1>2, <1>9, <1>12 DEF BatteryInv

LEMMA FlushSteps ==
    ASSUME Times, FlushBattery
    PROVE  FlushOn
<1>1. core # None /\ Known /\ core \in Cartridges /\ now \in 0..Horizon
      /\ Times /\ core.last <= now
  <2>1. pc # "run"
    BY DEF FlushBattery, OpenRam, StoreRam, OpenRtc, StoreRtc, FlushFails, FlushStep
  <2> QED
    BY <2>1, TimesKnown DEF Times, BatteryTypeOK
<1> DEFINE u == UpdateRtc(core)
<1>2. /\ u \in Cartridges /\ u # None /\ Same(u, core) /\ u.last = now
      /\ u.rtc = RtcAt(core.rtc, core.last) /\ RtcAt(u.rtc, u.last) = u.rtc
      /\ core.rtc_dirty => u.rtc_dirty
  BY <1>1, UpdatedOn
<1>3. now <= now
  BY <1>1
<1>4. CASE OpenRam
  <2>1. core' = core /\ clk' = clk
        /\ (sav' = sav \/ sav' = Torn)
        /\ pc = "flush" /\ pc' \in {"ram", "rtc_update"}
        /\ now' = now /\ replacement' = replacement /\ state' = state /\ after' = after
    BY <1>4 DEF OpenRam, FlushStep
  <2> QED
    BY <1>1, <2>1 DEF FlushOn
<1>5. CASE StoreRam
  <2> DEFINE c == [core EXCEPT !.ram_dirty = FALSE]
  <2>1. IsCore(c, core.ram, FALSE, core.rtc, core.last, core.rtc_dirty)
    BY <1>1, CoreRamClean, Zenon
  <2>2. core' = c /\ clk' = clk /\ sav' = core.ram
        /\ pc = "ram" /\ pc' = "rtc_update"
        /\ now' = now /\ replacement' = replacement /\ state' = state /\ after' = after
    BY <1>5 DEF StoreRam, FlushStep
  <2> HIDE DEF c
  <2>3. c # None
    BY <2>1, Sentinels DEF IsCore
  <2>4. RtcAt(core'.rtc, core'.last) = RtcAt(core.rtc, core.last)
    BY <2>1, <2>2 DEF IsCore
  <2> QED
    BY <1>1, <2>1, <2>2, <2>3, <2>4 DEF FlushOn, IsCore
<1>6. CASE OpenRtc
  <2>1. core' = u /\ sav' = sav
        /\ (clk' = clk \/ clk' = Torn)
        /\ pc = "rtc_update" /\ pc' \in {"rtc", "flushed"}
        /\ now' = now /\ replacement' = replacement /\ state' = state /\ after' = after
    BY <1>6 DEF OpenRtc, FlushStep
  <2> HIDE DEF u
  <2> QED
    BY <1>1, <1>2, <1>3, <2>1 DEF FlushOn, Same
<1>7. CASE StoreRtc
  <2> DEFINE c == [core EXCEPT !.rtc_dirty = FALSE]
  <2>1. IsCore(c, core.ram, core.ram_dirty, core.rtc, core.last, FALSE)
    BY <1>1, CoreRtcClean, Zenon
  <2>2. core' = c /\ sav' = sav /\ clk' = [rtc |-> core.rtc, last |-> core.last]
        /\ pc = "rtc" /\ pc' = "flushed"
        /\ now' = now /\ replacement' = replacement /\ state' = state /\ after' = after
    BY <1>7 DEF StoreRtc, FlushStep
  <2> HIDE DEF c
  <2>3. c # None
    BY <2>1, Sentinels DEF IsCore
  <2>4. RtcAt(core'.rtc, core'.last) = RtcAt(core.rtc, core.last)
    BY <2>1, <2>2 DEF IsCore
  <2>5. clk' \in ClockFiles /\ clk'.rtc = core.rtc /\ clk'.last = core.last
    BY <1>1, <2>2 DEF ClockFiles, Cartridges
  <2> QED
    BY <1>1, <2>1, <2>2, <2>3, <2>4, <2>5 DEF FlushOn, IsCore
<1>8. CASE FlushFails
  <2>1. /\ core' = core \/ core' = u
        /\ pc \in {"flush", "ram", "rtc_update", "rtc"} /\ pc' = "flushed"
        /\ sav' = sav /\ clk' = clk
        /\ now' = now /\ replacement' = replacement /\ state' = state /\ after' = after
    BY <1>8 DEF FlushFails, FlushStep, Disk
  <2> HIDE DEF u
  <2> QED
    BY <1>1, <1>2, <1>3, <2>1 DEF FlushOn, Same
<1> QED
  BY <1>4, <1>5, <1>6, <1>7, <1>8 DEF FlushBattery

LEMMA EndsKeep ==
    ASSUME BatteryInv, Flushed \/ Crash
    PROVE  BatteryInv'
<1>1. /\ Times /\ core # None /\ now' = now /\ sav' = sav /\ clk' = clk /\ state' = state
      /\ replacement' = None /\ pc' = "run" /\ after' = "play"
      /\ core' \in {None, core, replacement}
      /\ core' = replacement => replacement = None \/ after = "swap"
  BY DEF Flushed, Crash, Disk, BatteryInv, Times, BatteryTypeOK
<1>2. Times'
  BY <1>1 DEF Times, BatteryTypeOK
<1>3. Replaces'
  BY <1>1 DEF Replaces
<1>4. ASSUME core' = None PROVE Marked'
  BY <1>4 DEF Marked
<1>5. ASSUME core' = core PROVE Marked'
  BY <1>1, <1>5 DEF BatteryInv, Marked, RamKept, RtcKept, RtcAt
<1>6. ASSUME core' = replacement, replacement # None PROVE Marked'
  BY <1>1, <1>6 DEF BatteryInv, Replaces, Marked, RamKept, RtcKept, RtcAt
<1>7. Marked'
  BY <1>1, <1>4, <1>5, <1>6
<1> QED
  BY <1>2, <1>3, <1>7 DEF BatteryInv

LEMMA BatteryInitInv == BatteryInit => BatteryInv
  BY Sentinels DEF BatteryInit, BatteryInv, Times, BatteryTypeOK, Marked, Replaces

LEMMA BatteryStepInv ==
    ASSUME BatteryInv, [BatteryStep]_batteryVars
    PROVE  BatteryInv'
<1>1. CASE UNCHANGED batteryVars
  BY <1>1 DEF batteryVars, BatteryInv, Times, BatteryTypeOK, Marked, Replaces, RamKept,
              RtcKept, RtcAt
<1>2. CASE FlushBattery
  BY <1>2, FlushSteps, FlushOnKeeps DEF BatteryInv
<1>3. CASE Reset /\ KeptBeforeReset
  BY <1>3, LeavesKeep DEF KeptBeforeReset
<1> QED
  BY <1>1, <1>2, <1>3, SecondKeeps, GameKeeps, StatesKeep, OpenKeeps, LeavesKeep, EndsKeep
  DEF BatteryStep, BatteryNext

LEMMA BatteryInvariant == SavedSpec => []BatteryInv
  BY BatteryInitInv, BatteryStepInv, PTL DEF SavedSpec, BatteryStep

(* Nothing that the files do not hold is forgotten: it stays marked for    *)
(* the next flush, whatever was written, restored, half flushed or waited. *)
THEOREM BatteryNothingForgotten == SavedSpec => []NothingForgotten
<1>1. BatteryInv => NothingForgotten
  BY DEF BatteryInv, Marked, NothingForgotten, Running
<1> QED
  BY <1>1, BatteryInvariant, PTL

-----------------------------------------------------------------------------
(* The battery of the abstract specification, step by step: what it sees   *)
(* of the core, of the .rtc file and of the save state.                    *)
Console ==
    IF core = None THEN None
    ELSE [ram |-> core.ram, clock |-> RtcAt(core.rtc, core.last)]
KeptClock == IF clk \in {None, Torn} THEN clk ELSE RtcAt(clk.rtc, clk.last)
Saved     == IF state = None THEN None ELSE [ram |-> state.ram, clock |-> state.rtc]

LEMMA Sets ==
    /\ Battery!Clocks = Clocks /\ Battery!FreshClock = FreshClock
    /\ Battery!Memories = [ram : Contents, clock : Clocks]
    /\ None \notin Battery!Memories /\ None \notin Clocks /\ Torn \notin Clocks
  BY BatteryAssumption DEF Battery!Sizes, Battery!Clocks, Clocks, Battery!FreshClock, FreshClock,
     Battery!Memories

LEMMA ConsoleIs ==
    ASSUME Times
    PROVE  /\ core # None => /\ Console = [ram |-> core.ram,
                                           clock |-> RtcAt(core.rtc, core.last)]
                             /\ Console \in Battery!Memories /\ Console # None
           /\ core = None => Console = None
           /\ KeptClock \in Clocks \/ KeptClock \in {None, Torn}
           /\ KeptClock \in {None, Torn} <=> clk \in {None, Torn}
<1>1. Known
  BY TimesKnown
<1>2. core # None => Console \in Battery!Memories
  BY <1>1, Sets DEF Known, Console
<1> QED
  BY <1>1, <1>2, Sets DEF Known, Console, KeptClock

(* What the mapped steps leave alone.                                      *)
LEMMA SameTime ==
    ASSUME now' = now
    PROVE  /\ clk' = clk => KeptClock' = KeptClock
           /\ core' = core => Console' = Console
           /\ state' = state => Saved' = Saved
           /\ core' # None => Console' = [ram |-> core'.ram,
                                          clock |-> RtcAt(core'.rtc, core'.last)]
           /\ clk' \notin {None, Torn} => KeptClock' = RtcAt(clk'.rtc, clk'.last)
           /\ clk' \in {None, Torn} => KeptClock' = clk'
  BY DEF KeptClock, Console, Saved, RtcAt

LEMMA SecondMaps ==
    ASSUME BatteryInv, Second
    PROVE  Battery!Second
<1>1. /\ Times /\ core' = core /\ clk' = clk /\ sav' = sav /\ state' = state
  BY DEF Second, Disk, Session, BatteryInv
<1>2. Console' = IF Console # None
                   THEN [Console EXCEPT !.clock = Battery!Later(@, 1)] ELSE Console
  <2>1. CASE core = None
    BY <1>1, <2>1 DEF Console
  <2>2. CASE core # None
    <3> DEFINE r == RtcAt(core.rtc, core.last)
               l == Battery!Later(r, 1)
               m == [ram |-> core.ram, clock |-> r]
    <3>1. Console = m /\ Console # None
      BY <1>1, <2>2, ConsoleIs
    <3>2. Console' = [ram |-> core.ram, clock |-> l]
      BY <1>1, <2>2, SecondKeeps DEF Console
    <3> HIDE DEF r
    <3>3. [m EXCEPT !.clock = Battery!Later(@, 1)] = [ram |-> core.ram, clock |-> l]
      OBVIOUS
    <3> QED
      BY <3>1, <3>2, <3>3
  <2> QED
    BY <2>1, <2>2
<1>3. KeptClock' = IF KeptClock \in {Torn, None} THEN KeptClock ELSE Battery!Later(KeptClock, 1)
  <2>1. KeptClock \in {None, Torn} <=> clk \in {None, Torn}
    BY <1>1, ConsoleIs
  <2> QED
    BY <1>1, <2>1, SecondKeeps DEF KeptClock
<1>4. Saved' = Saved
  BY <1>1 DEF Saved
<1> QED
  BY <1>1, <1>2, <1>3, <1>4 DEF Battery!Second, Battery!On, Console, KeptClock, Saved

\* Steps that the battery does not see.
Unseen == Console' = Console /\ sav' = sav /\ KeptClock' = KeptClock /\ Saved' = Saved

LEMMA FlushMaps ==
    ASSUME BatteryInv, FlushOn
    PROVE  Battery!KeepRam \/ Battery!KeepClock \/ Unseen
<1>1. /\ Times /\ core # None /\ core' # None /\ now' = now /\ state' = state
      /\ Console = [ram |-> core.ram, clock |-> RtcAt(core.rtc, core.last)]
      /\ Console # None
  BY ConsoleIs DEF BatteryInv, FlushOn
<1>2. Console' = Console /\ Saved' = Saved
  BY <1>1, SameTime DEF FlushOn
<1>3. CASE clk' = clk
  <2>1. KeptClock' = KeptClock
    BY <1>1, <1>3, SameTime
  <2>2. sav' = sav \/ sav' \in {Torn, Console.ram}
    BY <1>1 DEF FlushOn
  <2> QED
    BY <1>1, <1>2, <2>1, <2>2
    DEF Unseen, Battery!KeepRam, Battery!On, Console, KeptClock, Saved
<1>4. CASE sav' = sav /\ clk' # clk
  <2>1. KeptClock' \in {Torn, Console.clock}
    <3>1. CASE clk' = Torn
      BY <1>1, <3>1, SameTime
    <3>2. CASE clk' \in ClockFiles /\ RtcAt(clk'.rtc, clk'.last) = RtcAt(core.rtc, core.last)
      BY <1>1, <3>2, Sentinels, SameTime
    <3> QED
      BY <1>4, <3>1, <3>2 DEF FlushOn
  <2> QED
    BY <1>1, <1>2, <1>4, <2>1 DEF Battery!KeepClock, Battery!On, Console, KeptClock, Saved
<1> QED
  BY <1>3, <1>4 DEF FlushOn

LEMMA CoreIsMemory ==
    Times /\ core # None => core.ram \in Contents /\ RtcAt(core.rtc, core.last) \in Clocks
  BY TimesKnown DEF Known

LEMMA OpenMaps ==
    ASSUME BatteryInv, BatteryInv', now' = now, sav' = sav, clk' = clk, state' = state,
           core' # None,
           sav # Torn => sav = core'.ram \/ (sav = None /\ core'.ram = Blank),
           clk # Torn => RtcAt(core'.rtc, core'.last) = IF clk = None THEN FreshClock
                                                        ELSE RtcAt(clk.rtc, clk.last)
    PROVE  Battery!Start
<1>1. Times /\ Times'
  BY DEF BatteryInv
<1>2. /\ Console' = [ram |-> core'.ram, clock |-> RtcAt(core'.rtc, core'.last)]
      /\ KeptClock' = KeptClock /\ Saved' = Saved
  BY SameTime
<1>3. Console' \in Battery!Memories
  <2>2. (core # None => core.ram \in Contents /\ RtcAt(core.rtc, core.last) \in Clocks)'
    BY <1>1, CoreIsMemory, PTL
  <2>3. core'.ram \in Contents /\ RtcAt(core'.rtc, core'.last) \in Clocks
    BY <2>2 DEF RtcAt
  <2> QED
    BY <1>2, <2>3, Sets
<1>4. Console'.ram = core'.ram /\ Console'.clock = RtcAt(core'.rtc, core'.last)
  BY <1>2
<1>5. sav \in Contents => Console'.ram = sav
  BY <1>4, Sentinels
<1>6. core'.ram # None
  BY <1>3, <1>4, Sets, Sentinels
<1>7. sav = None => Console'.ram = Blank
  BY <1>4, <1>6, Sentinels
<1>8. KeptClock \in Clocks => Console'.clock = KeptClock
  BY <1>1, <1>4, ConsoleIs, Sets DEF KeptClock
<1>9. KeptClock = None => Console'.clock = FreshClock
  BY <1>1, <1>4, ConsoleIs, Sets, Sentinels DEF KeptClock
<1> QED
  BY <1>2, <1>3, <1>5, <1>7, <1>8, <1>9, Sets
  DEF Battery!Start, Console, KeptClock, Saved

(* The game's accesses, as the battery sees them.                          *)
LEMMA RamMaps ==
    ASSUME BatteryInv, NEW v \in Contents, WriteRam(v)
    PROVE  Battery!Game
<1> DEFINE d == core.ram_dirty \/ core.ram # v
           c == [core EXCEPT !.ram = v, !.ram_dirty = d]
<1>1. /\ Times /\ core # None /\ core \in Cartridges /\ Console # None
      /\ Console = [ram |-> core.ram, clock |-> RtcAt(core.rtc, core.last)]
  BY ConsoleIs DEF BatteryInv, WriteRam, Access, Running, Times, BatteryTypeOK
<1>2. d \in BOOLEAN
  BY <1>1 DEF Cartridges
<1>3. core' = c /\ now' = now /\ clk' = clk /\ sav' = sav /\ state' = state
  <2>1. Access(c)
    BY Zenon DEF WriteRam
  <2> HIDE DEF c
  <2> QED
    BY <2>1 DEF Access, Disk
<1> HIDE DEF d
<1>4. IsCore(c, v, d, core.rtc, core.last, core.rtc_dirty)
  BY <1>1, <1>2, CoreWithRam, Zenon
<1> HIDE DEF c
<1>5. core' # None
  BY <1>3, <1>4, Sentinels DEF IsCore
<1>6. /\ Console' = [ram |-> v, clock |-> RtcAt(core.rtc, core.last)]
      /\ KeptClock' = KeptClock /\ Saved' = Saved
  BY <1>3, <1>4, <1>5, SameTime DEF IsCore, RtcAt
<1>7. Console' = [Console EXCEPT !.ram = v]
  BY <1>1, <1>6
<1> QED
  BY <1>1, <1>3, <1>6, <1>7
  DEF Battery!Game, Battery!WriteRam, Battery!On, Console, KeptClock, Saved

LEMMA RtcMaps ==
    ASSUME BatteryInv, NEW rtc \in Clocks, WriteRtc(rtc)
    PROVE  /\ Console # None /\ Console.clock = UpdateRtc(core).rtc
           /\ Console.clock \in Clocks /\ Console = [ram |-> core.ram, clock |-> Console.clock]
           /\ Console' = [ram |-> core.ram, clock |-> rtc]
           /\ sav' = sav /\ KeptClock' = KeptClock /\ Saved' = Saved
<1> DEFINE u == UpdateRtc(core)
           c == [u EXCEPT !.rtc = rtc, !.rtc_dirty = TRUE]
<1>1. /\ Times /\ core # None /\ Console # None
      /\ Console = [ram |-> core.ram, clock |-> RtcAt(core.rtc, core.last)]
  BY ConsoleIs DEF BatteryInv, WriteRtc, Access, Running
<1>2. /\ u \in Cartridges /\ Same(u, core) /\ u.last = now
      /\ u.rtc = RtcAt(core.rtc, core.last)
  BY <1>1, UpdatedOn
<1>3. Access(c)
  BY Zenon DEF WriteRtc
<1>4. core' = c /\ now' = now /\ clk' = clk /\ sav' = sav /\ state' = state
  <2> HIDE DEF c
  <2> QED
    BY <1>3 DEF Access, Disk
<1> HIDE DEF u
<1>5. IsCore(c, u.ram, u.ram_dirty, rtc, u.last, TRUE)
  BY <1>2, CoreWithRtc, Zenon
<1> HIDE DEF c
<1>6. core' # None /\ core'.ram = core.ram /\ core'.rtc = rtc /\ core'.last = now
  BY <1>2, <1>4, <1>5, Sentinels DEF IsCore, Same
<1>7. now \in Nat /\ RtcAt(core.rtc, core.last) \in Clocks
  BY <1>1, TimesKnown DEF Known
<1>8. Elapsed(rtc, now - now) = rtc
  <2>1. now - now = 0
    BY <1>7
  <2> QED
    BY <2>1, ElapsedOn
<1>9. /\ Console' = [ram |-> core.ram, clock |-> rtc]
      /\ KeptClock' = KeptClock /\ Saved' = Saved
  BY <1>4, <1>6, <1>8, SameTime DEF RtcAt
<1> QED
  BY <1>1, <1>2, <1>4, <1>7, <1>9 DEF u

Memory(ram, clock) == [ram |-> ram, clock |-> clock]
TimeSet(clock, t) == [clock EXCEPT !.time = t]
ControlSet(clock, h, k) == [clock EXCEPT !.halted = h, !.carry = k]
WithTime(m, t) == [m EXCEPT !.clock.time = t]
WithControl(m, h, k) == [m EXCEPT !.clock.halted = h, !.clock.carry = k]

LEMMA MemoryClock ==
    ASSUME NEW ram \in Contents, NEW clock \in Clocks
    PROVE  /\ \A t \in 0..(Period - 1) :
                WithTime(Memory(ram, clock), t) = Memory(ram, TimeSet(clock, t))
           /\ \A h, k \in BOOLEAN :
                WithControl(Memory(ram, clock), h, k) = Memory(ram, ControlSet(clock, h, k))
<1> DEFINE m == Memory(ram, clock)
<1>0. m = [ram |-> ram, clock |-> clock]
  BY DEF Memory
<1> HIDE DEF m
<1>1. ASSUME NEW c, NEW f, f = [m EXCEPT !.clock = c]
      PROVE  f = [ram |-> ram, clock |-> c]
  BY <1>0, <1>1
<1>2. ASSUME NEW t \in 0..(Period - 1)
      PROVE  [m EXCEPT !.clock.time = t] = [ram |-> ram, clock |-> [clock EXCEPT !.time = t]]
  <2>1. [m EXCEPT !.clock.time = t] = [m EXCEPT !.clock = [m.clock EXCEPT !.time = t]]
    OBVIOUS
  <2>2. m.clock = clock
    BY <1>0
  <2> QED
    BY <1>1, <2>1, <2>2
<1>3. ASSUME NEW h \in BOOLEAN, NEW k \in BOOLEAN
      PROVE  [m EXCEPT !.clock.halted = h, !.clock.carry = k]
               = [ram |-> ram, clock |-> [clock EXCEPT !.halted = h, !.carry = k]]
  <2>1. [m EXCEPT !.clock.halted = h] = [m EXCEPT !.clock = [m.clock EXCEPT !.halted = h]]
    OBVIOUS
  <2>2. m.clock = clock
    BY <1>0
  <2> DEFINE n == [m EXCEPT !.clock.halted = h]
             c == [clock EXCEPT !.halted = h]
  <2>3. n = [ram |-> ram, clock |-> c]
    BY <1>1, <2>1, <2>2
  <2>4. [n EXCEPT !.clock.carry = k] = [n EXCEPT !.clock = [n.clock EXCEPT !.carry = k]]
    OBVIOUS
  <2>5. [n EXCEPT !.clock = [c EXCEPT !.carry = k]]
          = [ram |-> ram, clock |-> [c EXCEPT !.carry = k]]
    <3> HIDE DEF n, c
    <3> QED
      BY <2>3
  <2>6. n.clock = c
    BY <2>3
  <2>7. [n EXCEPT !.clock.carry = k] = [ram |-> ram, clock |-> [c EXCEPT !.carry = k]]
    BY <2>4, <2>5, <2>6
  <2> QED
    BY <2>7
<1> QED
  BY <1>2, <1>3 DEF m, Memory, WithTime, WithControl, TimeSet, ControlSet

LEMMA TimeMaps ==
    ASSUME BatteryInv, NEW t \in 0..(Period - 1), WriteRtcTime(t)
    PROVE  Battery!Game
<1> DEFINE clock == UpdateRtc(core).rtc
           rtc == [clock EXCEPT !.time = t]
<1>1. WriteRtc(rtc)
  BY DEF WriteRtcTime
<1>2. Times /\ core # None
  BY DEF BatteryInv, WriteRtcTime, WriteRtc, Access, Running
<1>3. clock \in Clocks /\ core.ram \in Contents
  BY <1>2, UpdatedOn, TimesKnown DEF Known
<1> HIDE DEF clock
<1>4. rtc \in Clocks
  BY <1>3, ClockSetTime
<1> HIDE DEF rtc
<1>5. /\ Console # None /\ Console = [ram |-> core.ram, clock |-> clock]
      /\ Console' = [ram |-> core.ram, clock |-> rtc]
      /\ sav' = sav /\ KeptClock' = KeptClock /\ Saved' = Saved
  BY <1>1, <1>4, RtcMaps DEF clock
<1>6. Console' = [Console EXCEPT !.clock.time = t]
  <2>1. WithTime(Memory(core.ram, clock), t) = Memory(core.ram, TimeSet(clock, t))
    BY <1>3, MemoryClock, Zenon
  <2> QED
    BY <1>5, <2>1 DEF WithTime, Memory, TimeSet, rtc
<1> QED
  BY <1>5, <1>6
  DEF Battery!Game, Battery!SetTime, Battery!On, Console, KeptClock, Saved

LEMMA ControlMaps ==
    ASSUME BatteryInv, NEW h \in BOOLEAN, WriteRtcControl(h, FALSE)
    PROVE  Battery!Game
<1> DEFINE clock == UpdateRtc(core).rtc
           rtc == [clock EXCEPT !.halted = h, !.carry = FALSE]
<1>1. WriteRtc(rtc)
  BY DEF WriteRtcControl
<1>2. Times /\ core # None
  BY DEF BatteryInv, WriteRtcControl, WriteRtc, Access, Running
<1>3. clock \in Clocks /\ core.ram \in Contents
  BY <1>2, UpdatedOn, TimesKnown DEF Known
<1> HIDE DEF clock
<1>4. rtc \in Clocks
  BY <1>3, ClockSetControl
<1> HIDE DEF rtc
<1>5. /\ Console # None /\ Console = [ram |-> core.ram, clock |-> clock]
      /\ Console' = [ram |-> core.ram, clock |-> rtc]
      /\ sav' = sav /\ KeptClock' = KeptClock /\ Saved' = Saved
  BY <1>1, <1>4, RtcMaps DEF clock
<1>6. Console' = [Console EXCEPT !.clock.halted = h, !.clock.carry = FALSE]
  <2>1. FALSE \in BOOLEAN
    OBVIOUS
  <2>2. WithControl(Memory(core.ram, clock), h, FALSE)
          = Memory(core.ram, ControlSet(clock, h, FALSE))
    BY <1>3, <2>1, MemoryClock, Zenon
  <2> QED
    BY <1>5, <2>2 DEF WithControl, Memory, ControlSet, rtc
<1> QED
  BY <1>5, <1>6
  DEF Battery!Game, Battery!SetControl, Battery!On, Console, KeptClock, Saved

LEMMA StatesMap ==
    ASSUME BatteryInv, SaveState \/ LoadState
    PROVE  Battery!SaveState \/ Battery!LoadState
<1>1. /\ Times /\ core # None /\ Known /\ Console # None
      /\ Console = [ram |-> core.ram, clock |-> RtcAt(core.rtc, core.last)]
  BY ConsoleIs, TimesKnown DEF BatteryInv, SaveState, LoadState, Access, Running
<1>2. CASE SaveState
  <2> DEFINE u == UpdateRtc(core)
  <2>1. /\ u \in Cartridges /\ u # None /\ Same(u, core) /\ u.last = now
        /\ u.rtc = RtcAt(core.rtc, core.last) /\ RtcAt(u.rtc, u.last) = u.rtc
    BY <1>1, UpdatedOn
  <2>2. /\ core' = u /\ state' = [ram |-> core.ram, rtc |-> u.rtc] /\ now' = now
        /\ sav' = sav /\ clk' = clk
    BY <1>2 DEF SaveState, Disk
  <2> HIDE DEF u
  <2>3. state' \in SavedStates /\ state' # None
    BY <1>1, <2>1, <2>2, Sentinels DEF SavedStates, Known
  <2>4. Saved' = Console
    <3>1. Saved' = [ram |-> state'.ram, clock |-> state'.rtc]
      BY <2>3 DEF Saved
    <3> QED
      BY <1>1, <2>1, <2>2, <3>1
  <2>5. Console' = Console /\ KeptClock' = KeptClock
    BY <1>1, <2>1, <2>2, SameTime DEF RtcAt, Same
  <2> QED
    BY <1>1, <2>2, <2>4, <2>5
    DEF Battery!SaveState, Battery!On, Console, KeptClock, Saved
<1>3. CASE LoadState
  <2> DEFINE c == Restored(state)
  <2>1. /\ core' = c /\ now' = now /\ sav' = sav /\ clk' = clk /\ state' = state
        /\ state # None
    BY <1>3 DEF LoadState, Access, Disk, Session
  <2>2. state.ram \in Contents /\ state.rtc \in Clocks /\ now \in Nat /\ now \in 0..Horizon
    BY <1>1, <2>1 DEF Known, Times, BatteryTypeOK
  <2>3. c = [ram |-> state.ram, ram_dirty |-> TRUE, rtc |-> state.rtc, last |-> now,
             rtc_dirty |-> TRUE]
    BY DEF Restored
  <2>4. c.ram = state.ram /\ c.rtc = state.rtc /\ c.last = now
    BY <2>3
  <2>5. c # None
    BY <2>2, <2>3, CoreFields, Zenon
  <2> HIDE DEF c
  <2>6. Elapsed(state.rtc, now - now) = state.rtc
    <3>1. now - now = 0
      BY <2>2
    <3> QED
      BY <2>2, <3>1, ElapsedOn
  <2>7. Console' = [ram |-> state.ram, clock |-> state.rtc]
        /\ KeptClock' = KeptClock /\ Saved' = Saved
    BY <2>1, <2>4, <2>5, <2>6, SameTime DEF RtcAt
  <2>8. Saved # None /\ Console' = Saved
    <3>1. Saved = [ram |-> state.ram, clock |-> state.rtc]
      BY <2>1 DEF Saved
    <3>2. Saved \in Battery!Memories
      BY <2>2, <3>1, Sets
    <3> QED
      BY <2>7, <3>1, <3>2, Sets
  <2> QED
    BY <1>1, <2>1, <2>7, <2>8
    DEF Battery!LoadState, Battery!On, Console, KeptClock, Saved
<1> QED
  BY <1>2, <1>3

LEMMA StartMaps ==
    ASSUME BatteryInv, BatteryInv', Open
    PROVE  Battery!Start
<1>1. /\ Times /\ core' \in Loads /\ now' = now /\ sav' = sav /\ clk' = clk /\ state' = state
  BY DEF Open, Disk, Session, BatteryInv
<1>2. /\ core' \in Cartridges /\ core' # None /\ core'.last = now /\ clk # Torn
      /\ sav # Torn => sav = core'.ram \/ (sav = None /\ core'.ram = Blank)
      /\ RtcAt(core'.rtc, core'.last) = core'.rtc
      /\ core'.rtc = IF clk = None THEN FreshClock ELSE RtcAt(clk.rtc, clk.last)
  BY <1>1, LoadsWhatIsKept
<1> QED
  BY <1>1, <1>2, OpenMaps

LEMMA EndsMap ==
    ASSUME BatteryInv, BatteryInv', Flushed \/ Crash
    PROVE  Battery!Start \/ Battery!Stop \/ Unseen
<1>1. /\ Times /\ core # None /\ now' = now /\ sav' = sav /\ clk' = clk /\ state' = state
      /\ core' \in {None, core, replacement}
      /\ core' = replacement => replacement = None \/ after = "swap"
      /\ Console # None
  BY ConsoleIs DEF Flushed, Crash, Disk, BatteryInv, Times, BatteryTypeOK
<1>2. KeptClock' = KeptClock /\ Saved' = Saved
  BY <1>1, SameTime
<1>3. ASSUME core' = None PROVE Battery!Stop
  <2>1. Console' = None
    BY <1>3 DEF Console
  <2> QED
    BY <1>1, <1>2, <2>1 DEF Battery!Stop, Battery!On, Console, KeptClock, Saved
<1>4. ASSUME core' = core PROVE Unseen
  BY <1>1, <1>2, <1>4, SameTime DEF Unseen
<1>5. ASSUME core' = replacement, replacement # None PROVE Battery!Start
  <2>1. /\ replacement.ram = core.ram /\ (sav # Torn => RamKept)
        /\ RtcAt(replacement.rtc, replacement.last) = RtcAt(core.rtc, core.last)
        /\ clk # Torn => RtcKept
    BY <1>5 DEF BatteryInv, Replaces
  <2>2. clk # Torn => clk # None /\ RtcAt(clk.rtc, clk.last) = RtcAt(core.rtc, core.last)
    BY <2>1 DEF RtcKept
  <2>3. RtcAt(core'.rtc, core'.last) = RtcAt(core.rtc, core.last)
    BY <1>1, <1>5, <2>1
  <2> QED
    BY <1>1, <1>5, <2>1, <2>2, <2>3, OpenMaps DEF RamKept
<1> QED
  BY <1>1, <1>3, <1>4, <1>5

(* The cartridge and its files are the battery that BatteryMemory states,  *)
(* as long as a session is reset with everything on disk.                  *)
THEOREM BatteryImplements == SavedSpec => KeepsTheBattery
<1>1. BatteryInit => Battery!Init
  BY DEF BatteryInit, Battery!Init
<1>2. ASSUME BatteryInv, BatteryInv', [BatteryStep]_batteryVars
      PROVE  [Battery!Next]_(Battery!vars)
  <2>1. Unseen => UNCHANGED Battery!vars
    BY DEF Unseen, Console, KeptClock, Saved, Battery!vars
  <2>2. CASE UNCHANGED batteryVars
    BY <1>2, <2>1, <2>2, SameTime DEF batteryVars, Unseen
  <2>3. CASE Second
    BY <1>2, <2>3, SecondMaps DEF Battery!Next
  <2>4. CASE LatchRtc
    <3>1. Times /\ core # None
      BY <1>2, <2>4 DEF BatteryInv, LatchRtc, Access, Running
    <3>2. /\ core' = UpdateRtc(core) /\ now' = now /\ sav' = sav /\ clk' = clk
          /\ state' = state
      BY <2>4 DEF LatchRtc, Access, Disk
    <3>3. /\ core' # None /\ core'.ram = core.ram
          /\ RtcAt(core'.rtc, core'.last) = RtcAt(core.rtc, core.last)
      BY <3>1, <3>2, UpdatedOn DEF Same
    <3>4. Console' = [ram |-> core.ram, clock |-> RtcAt(core.rtc, core.last)]
      BY <3>2, <3>3, SameTime
    <3> QED
      BY <2>1, <3>1, <3>2, <3>4, ConsoleIs, SameTime DEF Unseen
  <2>5. CASE SaveState \/ LoadState
    BY <1>2, <2>5, StatesMap DEF Battery!Next
  <2>6. CASE Open
    BY <1>2, <2>6, StartMaps DEF Battery!Next
  <2>7. CASE Reset \/ Close \/ Flush
    BY <2>1, <1>2, <2>7, SameTime DEF Reset, Close, Flush, Disk, Unseen
  <2>8. CASE FlushBattery
    BY <2>1, <1>2, <2>8, FlushSteps, FlushMaps DEF BatteryInv, Battery!Next
  <2>9. CASE Flushed \/ Crash
    BY <2>1, <1>2, <2>9, EndsMap DEF Battery!Next
  <2>10. CASE \E v \in Contents : WriteRam(v)
    BY <1>2, <2>10, RamMaps DEF Battery!Next
  <2>11. CASE \E t \in 0..(Period - 1) : WriteRtcTime(t)
    BY <1>2, <2>11, TimeMaps DEF Battery!Next
  <2>12. CASE \E halted \in BOOLEAN : WriteRtcControl(halted, FALSE)
    BY <1>2, <2>12, ControlMaps DEF Battery!Next
  <2> QED
    BY <1>2, <2>2, <2>3, <2>4, <2>5, <2>6, <2>7, <2>8, <2>9, <2>10, <2>11, <2>12
    DEF BatteryStep, BatteryNext
<1> QED
  BY <1>1, <1>2, BatteryInvariant, PTL DEF SavedSpec, BatteryStep, KeepsTheBattery, Battery!Spec

-----------------------------------------------------------------------------
(* The remote session, for any number of attempts: no start, retry or loss *)
(* leaves an open channel or a port behind, and no session that is         *)
(* connected is still reported as lost.                                    *)
USE AttemptsAssumption

(* A session that may yet be connected by a poll has nothing to report: it *)
(* has an endpoint and is not dead.  One without an endpoint is not polled.*)
MayConnect == enabled /\ attached /\ channel \notin Dead

ReconnectInv ==
    /\ TypeOK
    /\ NothingIsOrphaned
    /\ MayConnect => ~reported

LEMMA ReconnectInit == Init => ReconnectInv
  <1> SUFFICES ASSUME Init PROVE ReconnectInv
    OBVIOUS
  <1>1. attempts \in 0..MaxAttempts /\ tries \in 0..(MaxAttempts + 1)
    <2>1. attempts = 0 /\ tries = 0
      BY DEF Init
    <2> QED BY <2>1
  <1>2. /\ at \in Control /\ channel \in Channels /\ channel \in Dead
        /\ retry_at \in RetryDeadline /\ poll_at \in Deadline
    <2>1. /\ at = "reject" /\ channel = "disconnected"
          /\ retry_at = "none" /\ poll_at = "none"
      BY DEF Init
    <2> QED
      BY <2>1 DEF Dead, Channels, Control, Deadline, RetryDeadline
  <1>3. /\ enabled = FALSE /\ hosting = FALSE /\ reported = FALSE
        /\ attached = FALSE /\ mismatch = FALSE /\ during = FALSE
        /\ transfer = FALSE /\ linked = FALSE /\ interrupted = FALSE
    BY DEF Init
  <1> QED
    BY <1>1, <1>2, <1>3, Zenon DEF ReconnectInv, TypeOK, NothingIsOrphaned, MayConnect

-----------------------------------------------------------------------------
(* The operators the handlers share, each with what it leaves behind.      *)
LEMMA Zero == 0 \in 0..MaxAttempts /\ 0 \in 0..(MaxAttempts + 1)
  OBVIOUS

LEMMA FreshInv ==
    ASSUME Fresh
    PROVE  /\ reported' \in BOOLEAN /\ ~reported'
           /\ attempts' \in 0..MaxAttempts
           /\ retry_at' \in RetryDeadline /\ poll_at' \in Deadline
  <1>1. attempts' \in 0..MaxAttempts
    BY Zero DEF Fresh
  <1>2. retry_at' \in RetryDeadline /\ poll_at' \in Deadline
    BY DEF Fresh, Deadline, RetryDeadline
  <1> QED BY <1>1, <1>2, Zenon DEF Fresh

LEMMA AttachInv ==
    ASSUME NEW yes \in BOOLEAN, Attach(yes)
    PROVE  /\ attached' \in BOOLEAN /\ attached' = yes
           /\ mismatch' \in BOOLEAN /\ during' \in BOOLEAN
  BY Zenon DEF Attach

LEMMA UserActedInv ==
    ASSUME UserActed
    PROVE  tries' \in 0..(MaxAttempts + 1) /\ interrupted' \in BOOLEAN
  <1>1. tries' \in 0..(MaxAttempts + 1)
    BY Zero DEF UserActed
  <1> QED BY <1>1, Zenon DEF UserActed

\* The session's part of the invariant, but for the loop and the histories.
SessionOK ==
    /\ enabled \in BOOLEAN /\ hosting \in BOOLEAN /\ reported \in BOOLEAN
    /\ attached \in BOOLEAN /\ mismatch \in BOOLEAN /\ during \in BOOLEAN
    /\ transfer \in BOOLEAN /\ linked \in BOOLEAN
    /\ attempts \in 0..MaxAttempts
    /\ retry_at \in RetryDeadline /\ poll_at \in Deadline
    /\ channel \in Channels
    /\ NothingIsOrphaned
    /\ MayConnect => ~reported

LEMMA StoppedInv ==
    ASSUME ReconnectInv, Stopped
    PROVE  SessionOK'
  <1>1. channel' \in Dead /\ channel' \in Channels
    BY DEF Stopped, Dead, Channels
  <1>2. /\ enabled' \in BOOLEAN /\ ~enabled'
        /\ attached' \in BOOLEAN /\ ~attached' /\ mismatch' \in BOOLEAN
        /\ during' \in BOOLEAN /\ transfer' \in BOOLEAN
        /\ hosting' \in BOOLEAN /\ linked' \in BOOLEAN
    BY Zenon DEF Stopped, Attach, ReconnectInv, TypeOK
  <1>3. Fresh
    BY DEF Stopped
  <1> QED
    BY <1>1, <1>2, <1>3, FreshInv, Zenon
    DEF SessionOK, NothingIsOrphaned, MayConnect

LEMMA StartedInv ==
    ASSUME ReconnectInv, NEW host \in BOOLEAN, Started(host)
    PROVE  SessionOK'
  <1>1. Fresh /\ linked' \in BOOLEAN
    BY DEF Started, ReconnectInv, TypeOK
  <1>2. CASE /\ Opened(host) /\ Attach(TRUE) /\ ResetPort
             /\ enabled' = TRUE /\ hosting' = host
    <2>1. channel' \in Channels
      BY <1>2 DEF Opened, Channels
    <2>2. enabled' \in BOOLEAN /\ enabled' /\ attached' /\ hosting' \in BOOLEAN
          /\ transfer' \in BOOLEAN
      BY <1>2, AttachInv, Zenon DEF ResetPort
    <2> QED
      BY <1>1, <1>2, <2>1, <2>2, FreshInv, AttachInv, Zenon
      DEF SessionOK, NothingIsOrphaned, MayConnect
  <1>3. CASE /\ channel' \in Dead /\ Attach(FALSE)
             /\ transfer' \in BOOLEAN /\ enabled' = FALSE
             /\ hosting' \in BOOLEAN
    <2>1. channel' \in Channels
      BY <1>3 DEF Dead, Channels
    <2>2. enabled' \in BOOLEAN /\ ~enabled' /\ ~attached'
      BY <1>3, AttachInv, Zenon
    <2> QED
      BY <1>1, <1>3, <2>1, <2>2, FreshInv, AttachInv, Zenon
      DEF SessionOK, NothingIsOrphaned, MayConnect
  <1>4. FALSE \in BOOLEAN /\ "failed" \in Dead /\ "disconnected" \in Dead
    BY DEF Dead
  <1> QED
    BY <1>2, <1>3, <1>4, Zenon DEF Started, ResetPort, ReconnectInv, TypeOK

LEMMA RetriedInv ==
    ASSUME ReconnectInv, enabled, NEW count \in 0..MaxAttempts,
           NEW deadline \in RetryDeadline, Retried(count, deadline)
    PROVE  SessionOK'
  <1>1. /\ transfer' \in BOOLEAN /\ linked' \in BOOLEAN
        /\ hosting' \in BOOLEAN /\ enabled' \in BOOLEAN /\ enabled'
    BY Zenon DEF Retried, ResetPort, ReconnectInv, TypeOK
  <1>2. CASE Opened(hosting) /\ Attach(TRUE) /\ Fresh
    <2>1. channel' \in Channels
      BY <1>2 DEF Opened, Channels
    <2> QED
      BY <1>1, <1>2, <2>1, FreshInv, AttachInv, Zenon
      DEF SessionOK, NothingIsOrphaned, MayConnect
  <1>3. CASE /\ channel' = "failed" /\ Attach(TRUE)
             /\ attempts' = count /\ retry_at' = deadline
             /\ UNCHANGED <<reported, poll_at>>
    <2>1. channel' \in Channels /\ channel' \in Dead
      BY <1>3 DEF Dead, Channels
    <2>2. /\ reported' \in BOOLEAN /\ poll_at' \in Deadline
          /\ attempts' \in 0..MaxAttempts /\ retry_at' \in RetryDeadline
      BY <1>3, Zenon DEF ReconnectInv, TypeOK
    <2> QED
      BY <1>1, <1>3, <2>1, <2>2, AttachInv, Zenon
      DEF SessionOK, NothingIsOrphaned, MayConnect
  <1>4. CASE /\ channel' = "listening" /\ Attach(FALSE)
             /\ attempts' = count /\ retry_at' = deadline
             /\ poll_at' = "none" /\ UNCHANGED reported
    <2>1. channel' \in Channels /\ poll_at' \in Deadline
      BY <1>4 DEF Channels, Deadline
    <2>2. /\ reported' \in BOOLEAN
          /\ attempts' \in 0..MaxAttempts /\ retry_at' \in RetryDeadline
      BY <1>4, Zenon DEF ReconnectInv, TypeOK
    <2>3. attached' \in BOOLEAN /\ ~attached'
      BY <1>4, AttachInv, Zenon
    <2> QED
      BY <1>1, <1>4, <2>1, <2>2, <2>3, AttachInv, Zenon
      DEF SessionOK, NothingIsOrphaned, MayConnect
  <1> QED
    BY <1>2, <1>3, <1>4, Zenon DEF Retried

(* A poll leaves a session attached or not as it was, and connects only one*)
(* that was attached and alive.                                            *)
LEMMA EndpointPollInv ==
    ASSUME ReconnectInv, EndpointPoll
    PROVE  /\ attached' = attached /\ channel' \in Channels
           /\ during' \in BOOLEAN /\ transfer' \in BOOLEAN
           /\ mismatch' \in BOOLEAN
           /\ ~attached => channel' = channel
           /\ channel' \notin Dead => channel \notin Dead
  BY DEF EndpointPoll, Polled, Talk, CleanUp, Nothing, ReconnectInv, TypeOK, Dead,
         Channels

LEMMA ObserveInv ==
    ASSUME ReconnectInv, Observe, during' \in BOOLEAN
    PROVE  tries' \in 0..(MaxAttempts + 1) /\ interrupted' \in BOOLEAN
  BY DEF Observe, ReconnectInv, TypeOK

-----------------------------------------------------------------------------
LEMMA ReconnectStep == ReconnectInv /\ [Next]_vars => ReconnectInv'
  <1> SUFFICES ASSUME ReconnectInv, [Next]_vars PROVE ReconnectInv'
    OBVIOUS
  <1> USE DEF ReconnectInv, TypeOK, NothingIsOrphaned, MayConnect, session, endpoint,
              history
  <1>1. CASE Reject
    <2>1. CASE enabled /\ mismatch
      <3>1. Stopped /\ UserActed /\ at' \in Control
        BY <1>1, <2>1 DEF Reject, Idle, Control
      <3> QED BY <3>1, StoppedInv, UserActedInv DEF SessionOK
    <2>2. CASE ~(enabled /\ mismatch)
      BY <1>1, <2>2 DEF Reject, Idle, Control
    <2> QED BY <2>1, <2>2
  <1>2. CASE Report
    BY <1>2 DEF Report, Idle, Control, Dead
  <1>3. CASE PlanRetry
    BY <1>3 DEF PlanRetry, Idle, Control, RetryDeadline
  <1>4. CASE AutoRetry
    <2>1. enabled /\ attempts + 1 \in 0..MaxAttempts
      BY <1>4 DEF AutoRetry, MayReconnect, Lost
    <2>2. Retried(attempts + 1, "seconds") /\ "seconds" \in RetryDeadline
      BY <1>4 DEF AutoRetry, RetryDeadline
    <2>3. /\ at' \in Control /\ tries' \in 0..(MaxAttempts + 1)
          /\ interrupted' \in BOOLEAN
      BY <1>4 DEF AutoRetry, Idle, Control
    <2> QED BY <2>1, <2>2, <2>3, RetriedInv DEF SessionOK
  <1>5. CASE NoRetry
    BY <1>5 DEF NoRetry, Idle, Control
  <1>6. CASE NoRequest
    BY <1>6 DEF NoRequest, Idle, Control
  <1>7. CASE Stop
    <2>1. Stopped /\ UserActed /\ at' \in Control
      BY <1>7 DEF Stop, Idle, Control
    <2> QED BY <2>1, StoppedInv, UserActedInv DEF SessionOK
  <1>8. CASE Start
    <2>1. UserActed /\ at' \in Control
      BY <1>8 DEF Start, Idle, Control
    <2>2. PICK host \in BOOLEAN : Started(host)
      BY <1>8 DEF Start
    <2> QED BY <2>1, <2>2, StartedInv, UserActedInv DEF SessionOK
  <1>9. CASE ManualRetry
    <2>1. enabled /\ Retried(0, "none") /\ UserActed /\ at' = "poll"
      BY <1>9 DEF ManualRetry, Idle
    <2>2. 0 \in 0..MaxAttempts /\ "none" \in RetryDeadline
      BY Zero DEF Deadline, RetryDeadline
    <2> QED BY <2>1, <2>2, RetriedInv, UserActedInv DEF SessionOK
  <1>10. CASE SessionPoll
    BY <1>10, EndpointPollInv, ObserveInv DEF SessionPoll, Idle, Deadline,
       RetryDeadline
  <1>11. CASE EndFrame
    BY <1>11, EndpointPollInv, ObserveInv DEF EndFrame, Idle, Control
  <1>12. CASE Guest
    BY <1>12 DEF Guest
  <1>13. CASE SendFails
    BY <1>13 DEF SendFails, Dead, Channels
  <1>14. CASE RunPoll
    BY <1>14, EndpointPollInv, ObserveInv DEF RunPoll
  <1>15. CASE RetryDue
    BY <1>15 DEF RetryDue, Deadline, RetryDeadline
  <1>16. CASE PollDue
    BY <1>16 DEF PollDue, Deadline
  <1>17. CASE UNCHANGED vars
    BY <1>17 DEF vars
  <1> QED
    BY <1>1, <1>2, <1>3, <1>4, <1>5, <1>6, <1>7, <1>8, <1>9, <1>10, <1>11,
       <1>12, <1>13, <1>14, <1>15, <1>16, <1>17
    DEF Next, Loop, Requests

(* The invariant holds at every step of the loop.                          *)
THEOREM SessionInvariant == Spec => []ReconnectInv
  BY ReconnectInit, ReconnectStep, PTL DEF Spec

(* Every reachable state of session and endpoint is well formed; the       *)
(* attempts never pass their cap.                                          *)
THEOREM SessionTypes == Spec => []TypeOK
  <1>1. ReconnectInv => TypeOK
    BY DEF ReconnectInv
  <1> QED BY <1>1, SessionInvariant, PTL

(* Nothing is left open or attached by whatever fails half way.            *)
THEOREM SessionNothingOrphaned == Spec => []NothingIsOrphaned
  <1>1. ReconnectInv => NothingIsOrphaned
    BY DEF ReconnectInv
  <1> QED BY <1>1, SessionInvariant, PTL

(* A session that is connected is no longer reported as lost.              *)
THEOREM SessionConnectedIsNotReported == Spec => []ConnectedIsNotReported
  <1>1. ReconnectInv => ConnectedIsNotReported
    BY DEF ReconnectInv, NothingIsOrphaned, MayConnect, ConnectedIsNotReported, Dead
  <1> QED BY <1>1, SessionInvariant, PTL

-----------------------------------------------------------------------------
(***************************************************************************)
(* Movies. A recording that nothing interfered with holds all that has     *)
(* happened to the button since it was started, in the order in which it   *)
(* happened; that, and not only what the file says once it is written, is  *)
(* what every step preserves. The events of a timeline are the values of a *)
(* loop over its frames, followed by induction on the frames.              *)
(***************************************************************************)

Modes  == {"idle", "recording", "replaying"}
MovieEvents == [cycle : Int, down : BOOLEAN]

\* The button as the last event left it.
Held(evs) == evs # <<>> /\ evs[Len(evs)].down

MovieTypes ==
    /\ cycles \in Nat /\ start \in Nat /\ rewinds \in Seq(Nat)
    /\ quick # Absent => quick \in Nat
    /\ movie # Absent => movie.start \in Nat
    /\ joypad \in BOOLEAN /\ pressed \in BOOLEAN
    /\ faithful \in BOOLEAN /\ strayed \in BOOLEAN
    /\ mode \in Modes

(* A recording that nothing interfered with holds all that has happened to *)
(* the button since it was started, in the order in which it happened.     *)
UpToNow(evs, elapsed) == \A k \in 1 .. Len(evs) : evs[k].cycle <= elapsed

Complete ==
    /\ cycles >= start
    /\ UpToNow(events, cycles - start) /\ Ordered(events)
    /\ joypad = pressed /\ faithful

RecordingKept ==
    mode = "recording" =>
        /\ events \in Seq(MovieEvents) /\ pressed = Held(events) /\ ~rewinding
        /\ ~strayed => Complete

MovieInv == MovieTypes /\ RecordingKept /\ RecordingsReproduce

USE MovieAssumption DEF MovieAssumption

LEMMA AppendEvent ==
    ASSUME NEW evs \in Seq(MovieEvents), NEW c \in Int, NEW down \in BOOLEAN
    PROVE  LET e == [cycle |-> c, down |-> down]
               longer == Append(evs, e)
           IN  /\ longer \in Seq(MovieEvents) /\ longer # <<>>
               /\ Held(longer) = down
               /\ UpToNow(evs, c) /\ Ordered(evs) => UpToNow(longer, c) /\ Ordered(longer)
<1> DEFINE e == [cycle |-> c, down |-> down]
           longer == Append(evs, e)
<1>1. e \in MovieEvents /\ e.cycle = c /\ e.down = down
  BY DEF MovieEvents
<1> HIDE DEF e
<1>2. /\ longer \in Seq(MovieEvents) /\ Len(longer) = Len(evs) + 1 /\ Len(evs) \in Nat
      /\ \A i \in 1 .. Len(evs) : longer[i] = evs[i]
      /\ longer[Len(evs) + 1] = e
  BY <1>1, AppendProperties
<1> HIDE DEF longer
<1>3. longer # <<>>
  BY <1>2, EmptySeq
<1>4. Held(longer) = down
  BY <1>1, <1>2, <1>3 DEF Held
<1>5. ASSUME UpToNow(evs, c), Ordered(evs)
      PROVE  UpToNow(longer, c) /\ Ordered(longer)
  <2>1. UpToNow(longer, c)
    <3> SUFFICES ASSUME NEW k \in 1 .. Len(longer) PROVE longer[k].cycle <= c
      BY DEF UpToNow
    <3>1. CASE k \in 1 .. Len(evs)
      BY <1>2, <1>5, <3>1 DEF UpToNow
    <3>2. CASE k = Len(evs) + 1
      BY <1>1, <1>2, <3>2
    <3> QED BY <1>2, <3>1, <3>2
  <2>2. Ordered(longer)
    <3> SUFFICES ASSUME NEW k \in 2 .. Len(longer)
                 PROVE  longer[k].cycle >= longer[k - 1].cycle
      BY DEF Ordered
    <3>1. CASE k \in 2 .. Len(evs)
      BY <1>2, <1>5, <3>1 DEF Ordered
    <3>2. CASE k = Len(evs) + 1
      <4>1. longer[k - 1] = evs[k - 1] /\ k - 1 \in 1 .. Len(evs)
        BY <1>2, <3>2
      <4>2. evs[k - 1].cycle <= c /\ evs[k - 1].cycle \in Int
        <5>1. evs[k - 1] \in MovieEvents
          BY <4>1, ElementOfSeq
        <5> QED BY <1>5, <4>1, <5>1 DEF UpToNow, MovieEvents
      <4> QED BY <1>1, <1>2, <3>2, <4>1, <4>2
    <3> QED BY <1>2, <3>1, <3>2
  <2> QED BY <2>1, <2>2
<1> QED BY <1>2, <1>3, <1>4, <1>5 DEF longer, e

\* Once all its events are due, a movie prescribes what the last one says.
LEMMA PrescribedIsHeld ==
    ASSUME NEW evs \in Seq(MovieEvents), NEW elapsed \in Int, UpToNow(evs, elapsed)
    PROVE  Prescribed(evs, elapsed) = Held(evs)
<1> DEFINE due == Due(evs, elapsed)
           first == CHOOSE k \in due : \A l \in due : l <= k
<1>1. due = 1 .. Len(evs) /\ Len(evs) \in Nat
  BY DEF Due, UpToNow
<1>2. CASE evs = <<>>
  <2>1. due = {}
    BY <1>1, <1>2
  <2> QED BY <1>2, <2>1 DEF Prescribed, Held
<1>3. CASE evs # <<>>
  <2>1. Len(evs) \in due /\ \A l \in due : l <= Len(evs)
    BY <1>1, <1>3, EmptySeq
  <2>2. first \in due /\ \A l \in due : l <= first
    BY <2>1, Zenon
  <2>3. first = Len(evs)
    BY <1>1, <2>1, <2>2
  <2> QED BY <1>3, <2>1, <2>3 DEF Prescribed, Held
<1> QED BY <1>2, <1>3

-----------------------------------------------------------------------------
LEMMA MovieInvInit == MovieInit => MovieInv
<1> SUFFICES ASSUME MovieInit PROVE MovieInv
  OBVIOUS
<1>1. MovieTypes
  <2>1. /\ cycles = 0 /\ start = 0 /\ rewinds = <<>> /\ quick = Absent /\ movie = Absent
        /\ joypad = FALSE /\ pressed = FALSE /\ faithful = TRUE /\ strayed = FALSE
        /\ mode = "idle"
    BY DEF MovieInit
  <2>2. /\ joypad \in BOOLEAN /\ pressed \in BOOLEAN
        /\ faithful \in BOOLEAN /\ strayed \in BOOLEAN
    BY <2>1
  <2> QED BY <2>1, <2>2 DEF MovieTypes, Modes
<1>2. RecordingKept /\ RecordingsReproduce
  BY DEF MovieInit, RecordingKept, RecordingsReproduce
<1> QED BY <1>1, <1>2 DEF MovieInv

LEMMA ElapsedType == MovieTypes => SinceStart \in Int
BY DEF MovieTypes, SinceStart, Huge

\* The recorder takes down what it is told, at the cycle it is told.
LEMMA SetButtonKeeps ==
    ASSUME MovieInv, NEW down \in BOOLEAN, SetButton(down),
           UNCHANGED <<cycles, faithful, strayed, rewinds, quick, movie>>,
           rewinding' \in {rewinding, FALSE}
    PROVE  MovieInv'
<1>1. MovieTypes'
  BY DEF MovieInv, MovieTypes, SetButton, recorder
<1>2. RecordingKept'
  <2> SUFFICES ASSUME mode' = "recording" PROVE RecordingKept'
    BY DEF RecordingKept
  <2>1. mode = "recording" /\ start' = start
    BY DEF SetButton, recorder
  <2>2. /\ events \in Seq(MovieEvents) /\ pressed = Held(events) /\ ~rewinding
        /\ ~strayed => Complete
    BY <2>1 DEF MovieInv, RecordingKept
  <2>3. CASE pressed = down
    BY <2>1, <2>2, <2>3 DEF SetButton, recorder, RecordingKept, Complete
  <2>4. CASE pressed # down
    <3>1. /\ pressed' = down /\ joypad' = down
          /\ events' = Append(events, [cycle |-> SinceStart, down |-> down])
      BY <2>1, <2>4 DEF SetButton
    <3>2. SinceStart \in Int
      BY ElapsedType DEF MovieInv
    <3>3. /\ events' \in Seq(MovieEvents) /\ Held(events') = down
          /\ UpToNow(events, SinceStart) /\ Ordered(events)
                => UpToNow(events', SinceStart) /\ Ordered(events')
      BY <2>2, <3>1, <3>2, AppendEvent
    <3>4. ~rewinding'
      BY <2>2
    <3>5. ~strayed' => Complete'
      <4> SUFFICES ASSUME ~strayed PROVE Complete'
        OBVIOUS
      <4>1. Complete
        BY <2>2
      <4>2. SinceStart = cycles - start
        BY <4>1 DEF Complete, SinceStart
      <4> QED BY <2>1, <3>1, <3>3, <4>1, <4>2 DEF Complete
    <3> QED BY <3>1, <3>3, <3>4, <3>5 DEF RecordingKept
  <2> QED BY <2>3, <2>4
<1>3. RecordingsReproduce'
  BY DEF MovieInv, RecordingsReproduce
<1> QED BY <1>1, <1>2, <1>3 DEF MovieInv

\* Behind the recorder's back, but not unnoticed.
LEMMA ReleaseKeeps ==
    ASSUME MovieInv, ReleaseDirectly, UNCHANGED files,
           rewinds' = rewinds, rewinding' \in {rewinding, FALSE}
    PROVE  MovieInv'
<1>1. UNCHANGED <<cycles, start, mode, pressed, events, faithful, movie, quick>>
  BY DEF ReleaseDirectly, recorder, files
<1>2. /\ joypad' = FALSE
      /\ strayed' = (strayed \/ (mode # "idle" /\ joypad))
  BY DEF ReleaseDirectly
<1>3. MovieTypes'
  BY <1>1, <1>2 DEF MovieInv, MovieTypes
<1>4. RecordingKept'
  <2> SUFFICES ASSUME mode = "recording"
               PROVE  /\ events \in Seq(MovieEvents) /\ pressed = Held(events)
                      /\ ~rewinding' /\ (~strayed' => Complete')
    BY <1>1 DEF RecordingKept
  <2>1. /\ events \in Seq(MovieEvents) /\ pressed = Held(events) /\ ~rewinding
        /\ ~strayed => Complete
    BY DEF MovieInv, RecordingKept
  <2>2. ASSUME ~strayed' PROVE Complete'
    <3>1. ~strayed /\ ~joypad
      BY <1>2, <2>2
    <3>2. joypad = FALSE
      BY <3>1 DEF MovieInv, MovieTypes
    <3> QED BY <1>1, <1>2, <2>1, <3>1, <3>2 DEF Complete
  <2>3. ~rewinding'
    BY <2>1
  <2> QED BY <2>1, <2>2, <2>3
<1>5. RecordingsReproduce'
  BY <1>1 DEF MovieInv, RecordingsReproduce
<1> QED BY <1>3, <1>4, <1>5 DEF MovieInv

\* What leaves no recording under way can only disturb the types.
LEMMA NoRecording ==
    ASSUME MovieInv, mode' # "recording", UNCHANGED movie
    PROVE  RecordingKept' /\ RecordingsReproduce'
BY DEF MovieInv, RecordingKept, RecordingsReproduce

\* The user's rewinding keys and the quick states.
LEMMA PlayerKeeps ==
    ASSUME MovieInv, Player
    PROVE  MovieInv'
<1>1. CASE Key \/ Pause
  <2>1. PICK down \in BOOLEAN : SetButton(down)
    BY <1>1 DEF Key, Pause
  <2>2. /\ UNCHANGED <<cycles, faithful, strayed, rewinds, quick, movie>>
        /\ rewinding' = rewinding
    BY <1>1 DEF Key, Pause, files, past
  <2> QED BY <2>1, <2>2, SetButtonKeeps
<1>2. CASE FocusLost
  <2>1. CASE mode = "replaying"
    <3>1. /\ ReleaseDirectly /\ UNCHANGED files /\ rewinds' = rewinds
          /\ rewinding' = FALSE
      BY <1>2, <2>1 DEF FocusLost
    <3> QED BY <3>1, ReleaseKeeps
  <2>2. CASE mode # "replaying"
    <3>1. /\ SetButton(FALSE)
          /\ UNCHANGED <<cycles, faithful, strayed, rewinds, quick, movie>>
          /\ rewinding' = FALSE
      BY <1>2, <2>2 DEF FocusLost, files
    <3> QED BY <3>1, SetButtonKeeps
  <2> QED BY <2>1, <2>2
<1>3. CASE LeaveGame \/ ToggleDebugger
  <2>1. /\ ReleaseDirectly /\ UNCHANGED files
        /\ rewinds' = rewinds /\ rewinding' = rewinding
    BY <1>3 DEF LeaveGame, ToggleDebugger, past
  <2> QED BY <2>1, ReleaseKeeps
<1>4. CASE Continue \/ RewindKey \/ SaveQuick
  <2>1. /\ UNCHANGED <<cycles, joypad, faithful, mode, pressed, start, events, movie,
                       rewinds, strayed>>
        /\ rewinding' = rewinding \/ mode = "idle"
        /\ quick' = quick \/ quick' = cycles
    BY <1>4 DEF Continue, RewindKey, SaveQuick, console, recorder, files, past
  <2>2. MovieTypes'
    BY <2>1 DEF MovieInv, MovieTypes
  <2>3. RecordingKept'
    BY <2>1 DEF MovieInv, RecordingKept, Complete
  <2>4. RecordingsReproduce'
    BY <2>1 DEF MovieInv, RecordingsReproduce
  <2> QED BY <2>2, <2>3, <2>4 DEF MovieInv
<1>5. CASE LoadQuick \/ LoadFromMenu
  <2>1. /\ cycles' = quick /\ quick # Absent /\ joypad' = FALSE /\ rewinds' = <<>>
        /\ faithful' = (faithful /\ mode = "idle")
        /\ UNCHANGED <<mode, pressed, start, events, movie, quick, rewinding>>
        /\ \/ strayed' = strayed /\ mode = "idle"
           \/ strayed' = (strayed \/ mode # "idle")
    BY <1>5 DEF LoadQuick, LoadFromMenu, Load, recorder, files
  <2>2. strayed' \in BOOLEAN /\ faithful' \in BOOLEAN /\ joypad' \in BOOLEAN
    BY <2>1, Zenon DEF MovieInv, MovieTypes
  <2>3. mode = "recording" => strayed'
    BY <2>1
  <2>4. MovieTypes'
    BY <2>1, <2>2 DEF MovieInv, MovieTypes
  <2>5. RecordingKept'
    BY <2>1, <2>3 DEF MovieInv, RecordingKept
  <2>6. RecordingsReproduce'
    BY <2>1 DEF MovieInv, RecordingsReproduce
  <2> QED BY <2>4, <2>5, <2>6 DEF MovieInv
<1>6. CASE Boot
  <2>1. /\ cycles' = 0 /\ joypad' = FALSE /\ pressed' = FALSE /\ mode' = "idle"
        /\ rewinds' = <<>>
        /\ UNCHANGED <<start, movie, quick, faithful, strayed>>
    BY <1>6 DEF Boot, files
  <2>2. joypad' \in BOOLEAN /\ pressed' \in BOOLEAN
    BY <2>1
  <2>3. MovieTypes'
    BY <2>1, <2>2 DEF MovieInv, MovieTypes, Modes
  <2> QED BY <2>1, <2>3, NoRecording DEF MovieInv
<1> QED BY <1>1, <1>2, <1>3, <1>4, <1>5, <1>6 DEF Player

-----------------------------------------------------------------------------
(* What the movie's own requests start and end.                            *)
LEMMA ReplayKeeps ==
    ASSUME MovieInv, NEW file, file.start \in Nat, Replays(file), UNCHANGED files
    PROVE  MovieInv'
<1>1. /\ cycles' = file.start /\ start' = file.start /\ rewinds' = <<>>
      /\ joypad' = FALSE /\ pressed' = FALSE /\ mode' = "replaying"
      /\ faithful' = TRUE /\ strayed' = FALSE /\ UNCHANGED <<movie, quick>>
  BY DEF Replays, Runs, files
<1>2. /\ joypad' \in BOOLEAN /\ pressed' \in BOOLEAN
      /\ faithful' \in BOOLEAN /\ strayed' \in BOOLEAN
  BY <1>1
<1>3. MovieTypes'
  BY <1>1, <1>2 DEF MovieInv, MovieTypes, Modes
<1> QED BY <1>1, <1>3, NoRecording DEF MovieInv

LEMMA IdledKeeps ==
    ASSUME MovieInv, Idled, UNCHANGED <<cycles, start, faithful, strayed, files>>,
           rewinds' = rewinds \/ rewinds' = <<>>
    PROVE  MovieInv'
<1>1. /\ joypad' = FALSE /\ pressed' = FALSE /\ mode' = "idle"
      /\ UNCHANGED <<cycles, start, faithful, strayed, movie, quick>>
  BY DEF Idled, files
<1>2. /\ joypad' \in BOOLEAN /\ pressed' \in BOOLEAN
      /\ rewinds' \in Seq(Nat)
  BY <1>1, EmptySeq DEF MovieInv, MovieTypes
<1>3. MovieTypes'
  BY <1>1, <1>2 DEF MovieInv, MovieTypes, Modes
<1> QED BY <1>1, <1>3, NoRecording DEF MovieInv

LEMMA StartRecordingKeeps ==
    ASSUME MovieInv, StartRecording
    PROVE  MovieInv'
<1>1. /\ UNCHANGED <<cycles, movie, quick>>
      /\ joypad' = FALSE /\ pressed' = FALSE /\ faithful' = TRUE /\ strayed' = FALSE
      /\ start' = cycles /\ events' = <<>> /\ mode' = "recording"
      /\ rewinding' = FALSE /\ rewinds' = <<>>
  BY DEF StartRecording, Runs, files
<1>2. /\ joypad' \in BOOLEAN /\ pressed' \in BOOLEAN
      /\ faithful' \in BOOLEAN /\ strayed' \in BOOLEAN
  BY <1>1
<1>3. MovieTypes'
  BY <1>1, <1>2 DEF MovieInv, MovieTypes, Modes
<1>4. Held(events') = FALSE /\ events' \in Seq(MovieEvents) /\ Len(events') = 0
  BY <1>1 DEF Held
<1>5. Complete'
  BY <1>1, <1>3, <1>4 DEF MovieTypes, Complete, UpToNow, Ordered
<1>6. RecordingKept'
  BY <1>1, <1>4, <1>5 DEF RecordingKept
<1>7. RecordingsReproduce'
  BY <1>1 DEF MovieInv, RecordingsReproduce
<1> QED BY <1>3, <1>6, <1>7 DEF MovieInv

LEMMA StopRecordingKeeps ==
    ASSUME MovieInv, StopRecording
    PROVE  MovieInv'
<1> DEFINE evs == IF pressed THEN Append(events, [cycle |-> SinceStart, down |-> FALSE])
                  ELSE events
           file == [start |-> start, events |-> evs, faithful |-> faithful,
                    strayed |-> strayed]
<1>1. /\ mode = "recording" /\ mode' = "idle" /\ joypad' = (joypad /\ ~pressed)
      /\ pressed' = FALSE /\ movie' \in {Absent, file}
      /\ UNCHANGED <<cycles, start, quick, faithful, strayed, rewinds>>
  BY DEF StopRecording, Recorded, past
<1>2. /\ events \in Seq(MovieEvents) /\ (~strayed => Complete)
      /\ pressed \in BOOLEAN /\ start \in Nat
  BY <1>1 DEF MovieInv, RecordingKept, MovieTypes
<1>3. ~strayed => Ordered(evs) /\ faithful
  <2> SUFFICES ASSUME ~strayed PROVE Ordered(evs) /\ faithful
    OBVIOUS
  <2>1. Complete /\ SinceStart \in Int
    BY <1>2, ElapsedType DEF MovieInv
  <2>2. SinceStart = cycles - start
    BY <2>1 DEF Complete, SinceStart
  <2>3. UpToNow(events, SinceStart) /\ Ordered(events) /\ faithful
    BY <2>1, <2>2 DEF Complete
  <2>4. FALSE \in BOOLEAN
    OBVIOUS
  <2>5. Ordered(Append(events, [cycle |-> SinceStart, down |-> FALSE]))
    BY <1>2, <2>1, <2>3, <2>4, AppendEvent
  <2> QED BY <1>2, <2>3, <2>5
<1>4. /\ file.start = start /\ file.events = evs /\ file.faithful = faithful
      /\ file.strayed = strayed
  OBVIOUS
<1> HIDE DEF evs, file
<1>5. RecordingsReproduce'
  BY <1>1, <1>3, <1>4 DEF RecordingsReproduce
<1>6. joypad' \in BOOLEAN /\ pressed' \in BOOLEAN
  BY <1>1
<1>7. MovieTypes'
  BY <1>1, <1>2, <1>4, <1>6 DEF MovieInv, MovieTypes, Modes
<1>8. RecordingKept'
  BY <1>1 DEF RecordingKept
<1> QED BY <1>5, <1>7, <1>8 DEF MovieInv

LEMMA RequestsKeep ==
    ASSUME MovieInv, MovieRequests
    PROVE  MovieInv'
<1>1. CASE StartReplay
  <2>1. CASE movie # Absent /\ Ordered(movie.events)
    <3>1. movie.start \in Nat
      BY <2>1 DEF MovieInv, MovieTypes
    <3> QED BY <1>1, <2>1, <3>1, ReplayKeeps DEF StartReplay
  <2>2. CASE ~(movie # Absent /\ Ordered(movie.events))
    BY <1>1, <2>2, IdledKeeps DEF StartReplay, past
  <2> QED BY <2>1, <2>2
<1>2. CASE OpenTool
  BY <1>2, IdledKeeps DEF OpenTool
<1>3. CASE \E masks \in Timelines : RunTimeline(masks)
  <2>1. PICK masks \in Timelines, from \in 0 .. cycles :
            /\ Replays([start |-> from, events |-> FrameEvents(masks)])
            /\ UNCHANGED files
    BY <1>3 DEF RunTimeline
  <2>2. from \in Nat
    BY DEF MovieInv, MovieTypes
  <2> DEFINE file == [start |-> from, events |-> FrameEvents(masks)]
  <2>3. file.start = from /\ Replays(file)
    BY <2>1
  <2> HIDE DEF file
  <2> QED BY <2>1, <2>2, <2>3, ReplayKeeps
<1> QED BY <1>1, <1>2, <1>3, StartRecordingKeeps, StopRecordingKeeps DEF MovieRequests

-----------------------------------------------------------------------------
(* While the machine runs, a recording stays up to date.                   *)
LEMMA StaysComplete ==
    ASSUME events \in Seq(MovieEvents), pressed = Held(events), Complete,
           cycles \in Nat, start \in Nat, NEW n \in Nat
    PROVE  /\ SinceStart + n \in Nat /\ SinceStart = cycles - start
           /\ joypad = Prescribed(events, SinceStart + n)
           /\ UpToNow(events, SinceStart + n)
<1>1. SinceStart = cycles - start /\ cycles - start \in Nat
  BY DEF Complete, SinceStart
<1>2. UpToNow(events, SinceStart + n)
  <2> SUFFICES ASSUME NEW k \in 1 .. Len(events)
               PROVE  events[k].cycle <= SinceStart + n
    BY DEF UpToNow
  <2>1. events[k] \in MovieEvents
    BY ElementOfSeq
  <2>2. events[k].cycle \in Int
    BY <2>1 DEF MovieEvents
  <2>3. events[k].cycle <= cycles - start
    BY DEF Complete, UpToNow
  <2> QED BY <1>1, <2>2, <2>3
<1>3. SinceStart + n \in Int
  BY <1>1
<1>4. Prescribed(events, SinceStart + n) = Held(events)
  BY <1>2, <1>3, PrescribedIsHeld
<1> QED BY <1>1, <1>2, <1>4 DEF Complete

LEMMA CapturedType ==
    ASSUME NEW snapshot \in Nat, rewinds \in Seq(Nat), Captured(snapshot)
    PROVE  rewinds' \in Seq(Nat)
<1> DEFINE longer == Append(rewinds, snapshot)
<1>1. longer \in Seq(Nat) /\ Len(longer) = Len(rewinds) + 1 /\ Len(rewinds) \in Nat
  BY AppendProperties
<1>2. \/ rewinds' = rewinds
      \/ rewinds' = SubSeq(longer, 1, Len(rewinds) + 1)
      \/ rewinds' = SubSeq(longer, 2, Len(rewinds) + 1)
  BY DEF Captured
<1> HIDE DEF longer
<1>3. ASSUME NEW m \in {1, 2}
      PROVE  SubSeq(longer, m, Len(rewinds) + 1) \in Seq(Nat)
  <2>1. m \in 1 .. Len(longer) + 1 /\ Len(rewinds) + 1 \in m - 1 .. Len(longer)
    BY <1>1
  <2> QED BY <1>1, <2>1, SubSeqProperties
<1> QED BY <1>2, <1>3

LEMMA RunFrameKeeps ==
    ASSUME MovieInv, RunFrame
    PROVE  MovieInv'
<1> DEFINE saw == \A n \in 0 .. FrameSteps - 1 :
                     mode = "idle" \/ joypad = Prescribed(events, SinceStart + n)
<1>1. /\ cycles' = cycles + FrameSteps /\ Captured(cycles')
      /\ faithful' = (faithful /\ saw)
      /\ rewinding' = (rewinding /\ mode # "replaying")
      /\ UNCHANGED <<joypad, mode, pressed, start, events, movie, quick, strayed>>
  BY DEF RunFrame, recorder, files
<1>2. faithful' \in BOOLEAN /\ cycles' \in Nat /\ rewinds' \in Seq(Nat)
  <2>1. cycles \in Nat /\ rewinds \in Seq(Nat) /\ faithful \in BOOLEAN
    BY DEF MovieInv, MovieTypes
  <2>2. cycles' \in Nat
    BY <1>1, <2>1
  <2>3. faithful' \in BOOLEAN
    BY <1>1
  <2> QED BY <1>1, <2>1, <2>2, <2>3, CapturedType
<1>3. MovieTypes'
  BY <1>1, <1>2 DEF MovieInv, MovieTypes
<1>4. ASSUME mode = "recording"
      PROVE  /\ events \in Seq(MovieEvents) /\ pressed = Held(events) /\ ~rewinding'
             /\ ~strayed => Complete'
  <2>1. /\ events \in Seq(MovieEvents) /\ pressed = Held(events) /\ ~rewinding
        /\ ~strayed => Complete
        /\ cycles \in Nat /\ start \in Nat
    BY <1>4 DEF MovieInv, RecordingKept, MovieTypes
  <2>2. ASSUME ~strayed PROVE Complete'
    <3>1. saw
      <4> SUFFICES ASSUME NEW n \in 0 .. FrameSteps - 1
                   PROVE  joypad = Prescribed(events, SinceStart + n)
        OBVIOUS
      <4>1. n \in Nat
        OBVIOUS
      <4> QED BY <2>1, <2>2, <4>1, StaysComplete
    <3>2. /\ UpToNow(events, SinceStart + FrameSteps)
          /\ SinceStart = cycles - start
      BY <2>1, <2>2, StaysComplete
    <3>3. cycles' - start = SinceStart + FrameSteps /\ cycles' >= start
      BY <1>1, <2>1, <2>2, <3>2 DEF Complete
    <3> HIDE DEF saw
    <3> QED BY <1>1, <2>1, <2>2, <3>1, <3>2, <3>3 DEF Complete
  <2>3. ~rewinding'
    BY <1>1, <2>1
  <2> QED BY <2>1, <2>2, <2>3
<1>5. RecordingKept'
  BY <1>1, <1>4 DEF RecordingKept
<1>6. RecordingsReproduce'
  BY <1>1 DEF MovieInv, RecordingsReproduce
<1> QED BY <1>3, <1>5, <1>6 DEF MovieInv

LEMMA RewindFrameKeeps ==
    ASSUME MovieInv, RewindFrame
    PROVE  MovieInv'
<1>1. /\ rewinding /\ rewinds # <<>> /\ cycles' = rewinds[Len(rewinds)]
      /\ joypad' = FALSE /\ faithful' = (faithful /\ mode = "idle")
      /\ rewinds' = SubSeq(rewinds, 1, Len(rewinds) - 1)
      /\ UNCHANGED <<mode, pressed, start, events, movie, quick, strayed>>
  BY DEF RewindFrame, Load, recorder, files
<1>2. mode # "recording"
  BY <1>1 DEF MovieInv, RecordingKept
<1>3. rewinds \in Seq(Nat) /\ Len(rewinds) \in Nat \ {0}
  BY <1>1, EmptySeq DEF MovieInv, MovieTypes
<1>4. cycles' \in Nat /\ rewinds' \in Seq(Nat)
  <2>1. cycles' \in Nat
    BY <1>1, <1>3, ElementOfSeq
  <2>2. 1 \in 1 .. Len(rewinds) + 1 /\ Len(rewinds) - 1 \in 1 - 1 .. Len(rewinds)
    BY <1>3
  <2> QED BY <1>1, <1>3, <2>1, <2>2, SubSeqProperties
<1>5. joypad' \in BOOLEAN /\ faithful' \in BOOLEAN
  BY <1>1
<1>6. MovieTypes'
  BY <1>1, <1>4, <1>5 DEF MovieInv, MovieTypes
<1> QED BY <1>1, <1>2, <1>6, NoRecording DEF MovieInv

LEMMA StepKeeps ==
    ASSUME MovieInv, StepInstruction
    PROVE  MovieInv'
<1> DEFINE due  == IF mode = "replaying" THEN Due(events, SinceStart) \ (1 .. next) ELSE {}
           down == IF due = {} THEN joypad ELSE Prescribed(events, SinceStart)
<1>1. StepOnce /\ rewinds' = <<>> /\ UNCHANGED <<files, rewinding, strayed>>
  BY DEF StepInstruction
<1>2. CASE mode = "replaying" /\ next + Cardinality(due) = Len(events)
  <2>1. Idled /\ UNCHANGED <<cycles, faithful, start>>
    BY <1>1, <1>2 DEF StepOnce
  <2> QED BY <1>1, <2>1, IdledKeeps
<1>3. CASE ~(mode = "replaying" /\ next + Cardinality(due) = Len(events))
  <2>1. /\ joypad' = down /\ pressed' = (IF due = {} THEN pressed ELSE down)
        /\ cycles' = cycles + 1 /\ faithful' = (faithful /\ AsPrescribed(down))
        /\ UNCHANGED <<mode, start, events, movie, quick, rewinding, strayed>>
    BY <1>1, <1>3 DEF StepOnce, files
  <2>2. down \in BOOLEAN
    <3>1. Prescribed(events, SinceStart) \in BOOLEAN /\ joypad \in BOOLEAN
      BY DEF Prescribed, MovieInv, MovieTypes
    <3> QED BY <3>1
  <2>3. mode = "recording" => due = {} /\ down = joypad
    OBVIOUS
  <2> HIDE DEF due, down
  <2>4. /\ joypad' \in BOOLEAN /\ pressed' \in BOOLEAN /\ faithful' \in BOOLEAN
        /\ cycles' \in Nat /\ rewinds' \in Seq(Nat)
    <3>1. joypad' \in BOOLEAN
      BY <2>1, <2>2
    <3>2. pressed' \in BOOLEAN
      BY <2>1, <2>2 DEF MovieInv, MovieTypes
    <3>3. faithful' \in BOOLEAN
      BY <2>1
    <3>4. cycles' \in Nat /\ rewinds' \in Seq(Nat)
      BY <1>1, <2>1, EmptySeq DEF MovieInv, MovieTypes
    <3> QED BY <3>1, <3>2, <3>3, <3>4
  <2>5. MovieTypes'
    BY <2>1, <2>4 DEF MovieInv, MovieTypes
  <2>6. ASSUME mode = "recording"
        PROVE  /\ events \in Seq(MovieEvents) /\ pressed' = Held(events) /\ ~rewinding
               /\ ~strayed => Complete'
    <3>1. /\ events \in Seq(MovieEvents) /\ pressed = Held(events) /\ ~rewinding
          /\ ~strayed => Complete
          /\ cycles \in Nat /\ start \in Nat
      BY <2>6 DEF MovieInv, RecordingKept, MovieTypes
    <3>2. pressed' = pressed /\ joypad' = joypad
      BY <2>1, <2>3, <2>6
    <3>3. ASSUME ~strayed PROVE Complete'
      <4>1. 0 \in Nat /\ 1 \in Nat
        OBVIOUS
      <4>2. /\ joypad = Prescribed(events, SinceStart + 0)
            /\ UpToNow(events, SinceStart + 1)
            /\ SinceStart = cycles - start
        BY <3>1, <3>3, <4>1, StaysComplete
      <4>3. SinceStart + 0 = SinceStart
        BY <3>1, <4>2
      <4>4. AsPrescribed(down)
        BY <2>3, <2>6, <4>2, <4>3 DEF AsPrescribed
      <4>5. cycles' - start = SinceStart + 1 /\ cycles' >= start
        BY <2>1, <3>1, <3>3, <4>2 DEF Complete
      <4> QED BY <2>1, <3>1, <3>2, <3>3, <4>2, <4>4, <4>5 DEF Complete
    <3> QED BY <3>1, <3>2, <3>3
  <2>7. RecordingKept'
    BY <2>1, <2>6 DEF RecordingKept
  <2>8. RecordingsReproduce'
    BY <2>1 DEF MovieInv, RecordingsReproduce
  <2> QED BY <2>5, <2>7, <2>8 DEF MovieInv
<1> QED BY <1>2, <1>3

LEMMA MovieInvNext == MovieInv /\ [MovieNext]_movieVars => MovieInv'
<1> SUFFICES ASSUME MovieInv, [MovieNext]_movieVars PROVE MovieInv'
  OBVIOUS
<1>1. CASE UNCHANGED movieVars
  BY <1>1 DEF movieVars, console, recorder, files, past, MovieInv, MovieTypes,
              RecordingKept, Complete, RecordingsReproduce
<1> QED
  BY <1>1, PlayerKeeps, RequestsKeep, RunFrameKeeps, RewindFrameKeeps, StepKeeps
  DEF MovieNext

-----------------------------------------------------------------------------
(* The timeline of the TAS editor.                                         *)
WasDown(masks, k) == k > 1 /\ masks[k - 1]
EventAt(k, down)  == [cycle |-> (k - 1) * FrameSteps, down |-> down]

IsTimeline(f, masks, n) ==
    f = [k \in 0 .. n |->
           IF k = 0 THEN <<>>
           ELSE IF masks[k] = WasDown(masks, k) THEN f[k - 1]
           ELSE Append(f[k - 1], EventAt(k, masks[k]))]

LEMMA TimelineAt ==
    ASSUME NEW f, NEW masks, NEW n, IsTimeline(f, masks, n), NEW k \in 0 .. n
    PROVE  f[k] = IF k = 0 THEN <<>>
                  ELSE IF masks[k] = WasDown(masks, k) THEN f[k - 1]
                  ELSE Append(f[k - 1], EventAt(k, masks[k]))
BY DEF IsTimeline

\* The events of the first k frames give each of them its button.
Shows(evs, masks, k) ==
    /\ evs \in Seq(MovieEvents)
    /\ Held(evs) = WasDown(masks, k + 1)
    /\ UpToNow(evs, (k - 1) * FrameSteps)
    /\ \A j \in 1 .. k, s \in 0 .. FrameSteps - 1 :
          Prescribed(evs, (j - 1) * FrameSteps + s) = masks[j]

LEMMA FrameOrder ==
    ASSUME NEW j \in Nat, NEW k \in Nat, j <= k, NEW s \in 0 .. FrameSteps - 1
    PROVE  /\ (j - 1) * FrameSteps \in Int /\ (k - 1) * FrameSteps \in Int
           /\ (j - 1) * FrameSteps + s < k * FrameSteps
           /\ (j - 1) * FrameSteps <= (k - 1) * FrameSteps + s
           /\ ((k + 1) - 1) * FrameSteps = k * FrameSteps
<1> DEFINE F == FrameSteps
<1>1. F \in Nat /\ F > 0 /\ s \in Nat /\ s < F
  OBVIOUS
<1> HIDE DEF F
<1>2. k * F = (j - 1) * F + (k - j + 1) * F
  BY <1>1, Z3
<1>3. (k - j + 1) * F >= F
  BY <1>1, Z3
<1>4. (k - 1) * F = (j - 1) * F + (k - j) * F /\ (k - j) * F >= 0
  BY <1>1, Z3
<1>5. (j - 1) * F \in Int /\ (k - 1) * F \in Int /\ k * F \in Int
      /\ (k - j + 1) * F \in Int /\ (k - j) * F \in Int
  BY <1>1
<1>6. (k + 1 - 1) * F = k * F
  BY <1>1
<1> QED BY <1>1, <1>2, <1>3, <1>4, <1>5, <1>6 DEF F

LEMMA LastExists ==
    ASSUME NEW n \in Nat, NEW D \in SUBSET (1 .. n), D # {}
    PROVE  \E k \in D : \A l \in D : l <= k
<1> DEFINE S == {m \in Nat : \A E \in SUBSET (1 .. m) :
                    E # {} => \E k \in E : \A l \in E : l <= k}
<1>1. 0 \in S
  <2>1. 1 .. 0 = {}
    OBVIOUS
  <2> QED BY <2>1
<1>2. ASSUME NEW m \in Nat, m \in S PROVE m + 1 \in S
  <2> SUFFICES ASSUME NEW E \in SUBSET (1 .. m + 1), E # {}
               PROVE  \E k \in E : \A l \in E : l <= k
    OBVIOUS
  <2>1. CASE m + 1 \in E
    BY <2>1
  <2>2. CASE m + 1 \notin E
    <3>1. E \in SUBSET (1 .. m)
      BY <2>2
    <3> QED BY <1>2, <3>1
  <2> QED BY <2>1, <2>2
<1> HIDE DEF S
<1>3. Nat \subseteq S
  BY <1>1, <1>2, InductionOverNat
<1> QED BY <1>3 DEF S

\* What is not due yet prescribes nothing.
LEMMA LaterEvent ==
    ASSUME NEW evs \in Seq(MovieEvents), NEW e \in MovieEvents, NEW elapsed \in Int,
           elapsed < e.cycle
    PROVE  Prescribed(Append(evs, e), elapsed) = Prescribed(evs, elapsed)
<1> DEFINE longer == Append(evs, e)
<1>1. /\ Len(longer) = Len(evs) + 1 /\ Len(evs) \in Nat
      /\ \A i \in 1 .. Len(evs) : longer[i] = evs[i]
      /\ longer[Len(evs) + 1] = e
  BY AppendProperties
<1>2. e.cycle \in Int
  BY DEF MovieEvents
<1> HIDE DEF longer
<1>3. Due(longer, elapsed) = Due(evs, elapsed)
  BY <1>1, <1>2 DEF Due
<1>4. Due(evs, elapsed) # {} =>
        LET k == CHOOSE k \in Due(evs, elapsed) : \A l \in Due(evs, elapsed) : l <= k
        IN  k \in 1 .. Len(evs)
  <2> SUFFICES ASSUME Due(evs, elapsed) # {}
               PROVE  (CHOOSE k \in Due(evs, elapsed) : \A l \in Due(evs, elapsed) : l <= k)
                         \in 1 .. Len(evs)
    OBVIOUS
  <2> DEFINE D == Due(evs, elapsed)
  <2>1. D \in SUBSET (1 .. Len(evs)) /\ D # {}
    BY DEF Due
  <2>2. \E k \in D : \A l \in D : l <= k
    BY <1>1, <2>1, LastExists
  <2> QED BY <2>1, <2>2
<1> QED BY <1>1, <1>3, <1>4 DEF Prescribed, longer

LEMMA EventTypes ==
    ASSUME NEW k \in Nat, NEW down \in BOOLEAN
    PROVE  EventAt(k, down) \in MovieEvents /\ EventAt(k, down).cycle = (k - 1) * FrameSteps
BY DEF EventAt, MovieEvents

\* One frame more.
LEMMA FrameShown ==
    ASSUME NEW masks \in Seq(BOOLEAN), NEW k \in Nat, k + 1 <= Len(masks), NEW evs,
           Shows(evs, masks, k)
    PROVE  Shows(IF masks[k + 1] = WasDown(masks, k + 1) THEN evs
                 ELSE Append(evs, EventAt(k + 1, masks[k + 1])), masks, k + 1)
<1> DEFINE e == EventAt(k + 1, masks[k + 1])
           shown == IF masks[k + 1] = WasDown(masks, k + 1) THEN evs ELSE Append(evs, e)
           c == k * FrameSteps
<1>1. /\ Len(masks) \in Nat /\ masks[k + 1] \in BOOLEAN /\ k + 1 \in Nat
      /\ (k + 1 > 0) /\ WasDown(masks, k + 1 + 1) = masks[k + 1]
  BY DEF WasDown
<1>2. /\ evs \in Seq(MovieEvents) /\ Held(evs) = WasDown(masks, k + 1)
      /\ UpToNow(evs, (k - 1) * FrameSteps)
      /\ \A j \in 1 .. k, s \in 0 .. FrameSteps - 1 :
            Prescribed(evs, (j - 1) * FrameSteps + s) = masks[j]
  BY DEF Shows
<1>3. e \in MovieEvents /\ e.cycle = c /\ c \in Int /\ ((k + 1) - 1) * FrameSteps = c
  <2>1. ((k + 1) - 1) * FrameSteps = c /\ c \in Int
    OBVIOUS
  <2>2. e \in MovieEvents /\ e.cycle = ((k + 1) - 1) * FrameSteps
    BY <1>1, EventTypes
  <2> QED BY <2>1, <2>2
<1>4. UpToNow(evs, c)
  <2>1. (k - 1) * FrameSteps \in Int /\ (k - 1) * FrameSteps <= c
    BY Z3
  <2>2. ASSUME NEW i \in 1 .. Len(evs) PROVE evs[i].cycle <= c
    <3>1. evs[i].cycle \in Int /\ evs[i].cycle <= (k - 1) * FrameSteps
      <4>1. evs[i] \in MovieEvents
        BY <1>2, ElementOfSeq
      <4> QED BY <1>2, <4>1 DEF UpToNow, MovieEvents
    <3> QED BY <1>3, <2>1, <3>1
  <2> QED BY <2>2 DEF UpToNow
<1> HIDE DEF c, e
<1>5. /\ shown \in Seq(MovieEvents) /\ Held(shown) = masks[k + 1] /\ UpToNow(shown, c)
      /\ \A elapsed \in Int : elapsed < c => Prescribed(shown, elapsed) = Prescribed(evs, elapsed)
  <2>1. CASE masks[k + 1] = WasDown(masks, k + 1)
    BY <1>2, <1>4, <2>1
  <2>2. CASE masks[k + 1] # WasDown(masks, k + 1)
    <3>1. shown = Append(evs, e)
      BY <2>2
    <3>2. /\ Append(evs, e) \in Seq(MovieEvents) /\ Append(evs, e) # <<>>
          /\ Len(Append(evs, e)) = Len(evs) + 1 /\ Len(evs) \in Nat
          /\ \A i \in 1 .. Len(evs) : Append(evs, e)[i] = evs[i]
          /\ Append(evs, e)[Len(evs) + 1] = e
      BY <1>2, <1>3, AppendProperties
    <3>3. Held(Append(evs, e)) = masks[k + 1]
      BY <1>1, <3>2 DEF Held, e, EventAt
    <3>4. UpToNow(Append(evs, e), c)
      <4> SUFFICES ASSUME NEW i \in 1 .. Len(Append(evs, e))
                   PROVE  Append(evs, e)[i].cycle <= c
        BY DEF UpToNow
      <4>1. CASE i \in 1 .. Len(evs)
        BY <1>4, <3>2, <4>1 DEF UpToNow
      <4>2. CASE i = Len(evs) + 1
        BY <1>3, <3>2, <4>2
      <4> QED BY <3>2, <4>1, <4>2
    <3>5. \A elapsed \in Int : elapsed < c
             => Prescribed(Append(evs, e), elapsed) = Prescribed(evs, elapsed)
      BY <1>2, <1>3, LaterEvent
    <3> QED BY <3>1, <3>2, <3>3, <3>4, <3>5
  <2> QED BY <2>1, <2>2
<1> HIDE DEF shown
<1>6. ASSUME NEW j \in 1 .. k + 1, NEW s \in 0 .. FrameSteps - 1
      PROVE  Prescribed(shown, (j - 1) * FrameSteps + s) = masks[j]
  <2>1. CASE j \in 1 .. k
    <3>1. /\ (j - 1) * FrameSteps \in Int
          /\ (j - 1) * FrameSteps + s < c
      BY <2>1, FrameOrder DEF c
    <3>2. (j - 1) * FrameSteps + s \in Int
      BY <3>1
    <3> QED BY <1>2, <1>5, <2>1, <3>1, <3>2
  <2>2. CASE j = k + 1
    <3>1. (j - 1) * FrameSteps = c
      BY <1>3, <2>2
    <3>2. UpToNow(shown, c + s) /\ c + s \in Int
      <4>1. ASSUME NEW i \in 1 .. Len(shown) PROVE shown[i].cycle <= c + s
        <5>1. shown[i].cycle \in Int /\ shown[i].cycle <= c
          <6>1. shown[i] \in MovieEvents
            BY <1>5, ElementOfSeq
          <6> QED BY <1>5, <6>1 DEF UpToNow, MovieEvents
        <5> QED BY <1>3, <5>1
      <4> QED BY <1>3, <4>1 DEF UpToNow
    <3> QED BY <1>5, <2>2, <3>1, <3>2, PrescribedIsHeld
  <2> QED BY <2>1, <2>2
<1>7. Shows(shown, masks, k + 1)
  <2>1. Held(shown) = WasDown(masks, k + 1 + 1)
    BY <1>1, <1>5
  <2>2. UpToNow(shown, ((k + 1) - 1) * FrameSteps)
    BY <1>3, <1>5
  <2> QED BY <1>5, <1>6, <2>1, <2>2, Zenon DEF Shows
<1> QED BY <1>7 DEF shown, e

LEMMA TimelineExists ==
    ASSUME NEW masks \in Seq(BOOLEAN)
    PROVE  \E f \in [0 .. Len(masks) -> Seq(MovieEvents)] :
              IsTimeline(f, masks, Len(masks))
<1> DEFINE n == Len(masks)
           Events == Seq(MovieEvents)
           round == [k \in 1 .. n |-> [evs \in Events |->
                       IF masks[k] = WasDown(masks, k) THEN evs
                       ELSE Append(evs, EventAt(k, masks[k]))]]
<1>1. n \in Nat /\ <<>> \in Events /\ \A k \in 1 .. n : masks[k] \in BOOLEAN
  BY EmptySeq
<1>2. ASSUME NEW k \in 1 .. n, NEW evs \in Events
      PROVE  (IF masks[k] = WasDown(masks, k) THEN evs
              ELSE Append(evs, EventAt(k, masks[k]))) \in Events
  <2>1. EventAt(k, masks[k]) \in MovieEvents
    BY <1>1, EventTypes
  <2> QED BY <2>1, AppendProperties
<1>3. round \in [1 .. n -> [Events -> Events]]
  BY <1>2
<1> HIDE DEF Events
<1>4. PICK f \in [0 .. n -> Events] :
          f = [i \in 0 .. n |-> IF i = 0 THEN <<>> ELSE round[i][f[i - 1]]]
  <2> HIDE DEF round, n
  <2>1. PICK f \in [0 .. n -> Events] : Iterates(f, <<>>, round, n)
    BY <1>1, <1>3, IterationExists
  <2>2. ASSUME NEW i \in 0 .. n
        PROVE  f[i] = IF i = 0 THEN <<>> ELSE round[i][f[i - 1]]
    BY <1>1, <2>1 DEF Iterates
  <2>3. f = [i \in 0 .. n |-> IF i = 0 THEN <<>> ELSE round[i][f[i - 1]]]
    BY <2>2
  <2> QED BY <2>3
<1>5. ASSUME NEW i \in 0 .. n
      PROVE  (IF i = 0 THEN <<>> ELSE round[i][f[i - 1]])
             = IF i = 0 THEN <<>>
               ELSE IF masks[i] = WasDown(masks, i) THEN f[i - 1]
               ELSE Append(f[i - 1], EventAt(i, masks[i]))
  <2>1. CASE i = 0
    BY <2>1
  <2>2. CASE i # 0
    <3>1. i \in 1 .. n /\ f[i - 1] \in Events
      BY <1>1, <2>2
    <3> QED BY <2>2, <3>1
  <2> QED BY <2>1, <2>2
<1> HIDE DEF round
<1>6. f = [k \in 0 .. n |->
             IF k = 0 THEN <<>>
             ELSE IF masks[k] = WasDown(masks, k) THEN f[k - 1]
             ELSE Append(f[k - 1], EventAt(k, masks[k]))]
  BY <1>4, <1>5, Zenon
<1> QED BY <1>4, <1>6 DEF IsTimeline, Events

LEMMA TimelineShown ==
    ASSUME NEW masks \in Seq(BOOLEAN)
    PROVE  \A k \in 1 .. Len(masks), s \in 0 .. FrameSteps - 1 :
              Prescribed(FrameEvents(masks), (k - 1) * FrameSteps + s) = masks[k]
<1> DEFINE n == Len(masks)
           until == CHOOSE f : IsTimeline(f, masks, n)
           S == {m \in Nat : m <= n => Shows(until[m], masks, m)}
<1>1. n \in Nat /\ \A k \in 1 .. n : masks[k] \in BOOLEAN
  OBVIOUS
<1>2. IsTimeline(until, masks, n)
  BY TimelineExists
<1>3. FrameEvents(masks) = IF WasDown(masks, n + 1)
                             THEN Append(until[n], [cycle |-> ((n + 1) - 1) * FrameSteps,
                                                    down |-> FALSE])
                             ELSE until[n]
  BY DEF FrameEvents, IsTimeline, WasDown, EventAt
<1> HIDE DEF until, n
<1>4. 0 \in S
  <2>1. until[0] = <<>>
    BY <1>1, <1>2 DEF IsTimeline
  <2>2. Len(<<>>) = 0 /\ <<>> \in Seq(MovieEvents)
    BY EmptySeq
  <2>3. Shows(<<>>, masks, 0)
    BY <2>2 DEF Shows, Held, WasDown, UpToNow
  <2> QED BY <2>1, <2>3
<1>5. ASSUME NEW m \in Nat, m \in S PROVE m + 1 \in S
  <2> SUFFICES ASSUME m + 1 <= n PROVE Shows(until[m + 1], masks, m + 1)
    OBVIOUS
  <2>1. Shows(until[m], masks, m)
    BY <1>1, <1>5
  <2>2. until[m + 1] = IF masks[m + 1] = WasDown(masks, m + 1) THEN until[m]
                       ELSE Append(until[m], EventAt(m + 1, masks[m + 1]))
    <3>1. m + 1 \in 0 .. n /\ m + 1 # 0 /\ m + 1 - 1 = m
      BY <1>1
    <3>2. until[m + 1] = IF m + 1 = 0 THEN <<>>
                         ELSE IF masks[m + 1] = WasDown(masks, m + 1)
                           THEN until[m + 1 - 1]
                         ELSE Append(until[m + 1 - 1], EventAt(m + 1, masks[m + 1]))
      BY <1>2, <3>1, TimelineAt
    <3> QED BY <3>1, <3>2
  <2>3. m + 1 <= Len(masks)
    BY DEF n
  <2> QED BY <2>1, <2>2, <2>3, FrameShown, Zenon
<1> HIDE DEF S
<1>6. Nat \subseteq S
  BY <1>4, <1>5, InductionOverNat
<1>7. Shows(until[n], masks, n)
  BY <1>1, <1>6 DEF S
<1>8. ASSUME NEW k \in 1 .. n, NEW s \in 0 .. FrameSteps - 1
      PROVE  Prescribed(FrameEvents(masks), (k - 1) * FrameSteps + s) = masks[k]
  <2>1. /\ until[n] \in Seq(MovieEvents)
        /\ Prescribed(until[n], (k - 1) * FrameSteps + s) = masks[k]
    BY <1>1, <1>7 DEF Shows
  <2>2. CASE WasDown(masks, n + 1)
    <3> DEFINE c == ((n + 1) - 1) * FrameSteps
               e == [cycle |-> c, down |-> FALSE]
               elapsed == (k - 1) * FrameSteps + s
    <3>1. e \in MovieEvents /\ e.cycle = c
      <4>1. c \in Int
        BY <1>1, Z3
      <4> HIDE DEF c
      <4> QED BY <4>1 DEF MovieEvents
    <3>2. elapsed \in Int /\ elapsed < e.cycle
      <4>1. k \in Nat /\ n \in Nat /\ k <= n
        BY <1>1
      <4>2. /\ (k - 1) * FrameSteps \in Int /\ elapsed < n * FrameSteps
            /\ ((n + 1) - 1) * FrameSteps = n * FrameSteps
        BY <4>1, FrameOrder, Zenon
      <4>3. elapsed \in Int /\ s \in Int
        <5> HIDE DEF elapsed
        <5>1. s \in Int
          OBVIOUS
        <5> QED BY <4>2, <5>1 DEF elapsed
      <4>4. e.cycle = n * FrameSteps
        BY <3>1, <4>2, Zenon
      <4> HIDE DEF e, elapsed
      <4> QED BY <4>2, <4>3, <4>4
    <3> HIDE DEF e, elapsed
    <3>3. Prescribed(Append(until[n], e), elapsed) = Prescribed(until[n], elapsed)
      BY <2>1, <3>1, <3>2, LaterEvent
    <3> QED BY <1>3, <2>1, <2>2, <3>3, Zenon DEF e, elapsed
  <2>3. CASE ~WasDown(masks, n + 1)
    BY <1>3, <2>1, <2>3
  <2> QED BY <2>2, <2>3
<1> QED BY <1>8 DEF n

LEMMA TimelinesHold == \A masks \in Timelines : HoldsFrames(masks)
<1> SUFFICES ASSUME NEW masks \in Timelines, NEW k \in 1 .. Len(masks),
                    NEW n \in 1 .. FrameSteps
             PROVE  Prescribed(FrameEvents(masks), (k - 1) * FrameSteps + n - 1) = masks[k]
  BY DEF HoldsFrames
<1>1. masks \in Seq(BOOLEAN) /\ n - 1 \in 0 .. FrameSteps - 1
  OBVIOUS
<1>2. (k - 1) * FrameSteps + n - 1 = (k - 1) * FrameSteps + (n - 1)
  OBVIOUS
<1> QED BY <1>1, <1>2, TimelineShown

(* A movie on file gives its machine the very inputs it was made with,     *)
(* unless something interfered with the recording, and a timeline of the   *)
(* TAS editor gives every frame the button it names (input_movie.cpp), for *)
(* every length of a frame, every timeline and any number of events.       *)
THEOREM MoviesAreReproduced == MovieSpec => []MoviesReproduce
<1>1. MovieInv => MoviesReproduce
  BY TimelinesHold DEF MovieInv, MoviesReproduce
<1> QED BY <1>1, MovieInvInit, MovieInvNext, PTL DEF MovieSpec

(***************************************************************************)
(* The handshake of a remote link. Two alike consoles, neither of which    *)
(* disappears, are not parted: an end that is not yet acknowledged has     *)
(* retries left, and its peer has not been quiet for the time limit. The   *)
(* age of a hello is bounded by what the peer's hello, the digest and its  *)
(* acknowledgement take, and what every trouble costs; silence by the wait *)
(* for the peer, a heartbeat and the troubles.                             *)
(***************************************************************************)
Kinds  == {"hello", "digest", "digest_ack", "heartbeat", "heartbeat_ack"}
Signal == [kind : Kinds, part : 0..BaseParts]

AllParts == 0..(BaseParts - 1)
ChannelStates == {"waiting", "open", "closed"}
Places   == 0..(BaseParts + 1)
Tries    == 0..MaxRetries
Pauses   == 0..RetryTicks
Heard    == SUBSET AllParts
Quiets   == 0..Silence
Beats    == 0..Interval
Faults   == {"none", "handshake", "no_hello", "mismatch", "silence"}

Linked ==
    [channel : ChannelStates, part : Places, said : BOOLEAN, retries : Tries,
     hello_in : Pauses, digest_in : Pauses, known : BOOLEAN, heard : Heard,
     hello : BOOLEAN, profile : BOOLEAN, compatible : BOOLEAN, digest : BOOLEAN,
     valid : BOOLEAN, acked : BOOLEAN, quiet : Quiets, beat : Beats,
     suspended : BOOLEAN]

Polling == [ep : Linked, out : Seq(Signal), fault : Faults]

\* What is on its way to an end.
Carries(kind, w) == \E i \in DOMAIN w : w[i].kind = kind
Told(part, w)    == \E i \in DOMAIN w : w[i].kind = "hello" /\ w[i].part = part

LEMMA EndsFacts ==
    ASSUME Limits, NEW c \in Ends
    PROVE  /\ OtherEnd(c) \in Ends /\ OtherEnd(c) # c /\ OtherEnd(OtherEnd(c)) = c
           /\ \A d \in Ends : d = c \/ d = OtherEnd(c)
BY SMTT(40) DEF Limits, Ends, OtherEnd

LEMMA JoinedSignals ==
    ASSUME NEW a \in Seq(Signal), NEW b \in Seq(Signal)
    PROVE  /\ a \o b \in Seq(Signal)
           /\ \A k : Carries(k, a \o b) <=> Carries(k, a) \/ Carries(k, b)
           /\ \A k : Told(k, a \o b) <=> Told(k, a) \/ Told(k, b)
           /\ a # <<>> => a \o b # <<>> /\ (a \o b)[1] = a[1]
           /\ b # <<>> => a \o b # <<>>
           /\ a = <<>> => a \o b = b
           /\ b = <<>> => a \o b = a
<1> DEFINE s == a \o b
<1>1. /\ DOMAIN a = 1..Len(a) /\ DOMAIN b = 1..Len(b) /\ s \in Seq(Signal)
      /\ DOMAIN s = 1..(Len(a) + Len(b)) /\ Len(a) \in Nat /\ Len(b) \in Nat
      /\ \A i \in 1..(Len(a) + Len(b)) : s[i] = IF i <= Len(a) THEN a[i] ELSE b[i - Len(a)]
  OBVIOUS
<1> HIDE DEF s
<1>2. \A i \in DOMAIN a : i \in DOMAIN s /\ s[i] = a[i]
  BY <1>1
<1>3. \A i \in DOMAIN b : i + Len(a) \in DOMAIN s /\ s[i + Len(a)] = b[i]
  BY <1>1
<1>4. \A i \in DOMAIN s : \/ i \in DOMAIN a /\ s[i] = a[i]
                          \/ i - Len(a) \in DOMAIN b /\ s[i] = b[i - Len(a)]
  BY <1>1
<1>5. \A k : Carries(k, s) <=> Carries(k, a) \/ Carries(k, b)
  BY <1>2, <1>3, <1>4 DEF Carries
<1>6. \A k : Told(k, s) <=> Told(k, a) \/ Told(k, b)
  BY <1>2, <1>3, <1>4 DEF Told
<1>7. a # <<>> => s # <<>> /\ s[1] = a[1]
  <2> SUFFICES ASSUME a # <<>> PROVE s # <<>> /\ s[1] = a[1]
    OBVIOUS
  <2>1. Len(a) # 0
    BY <1>1, EmptySeq
  <2>2. 1 \in DOMAIN a
    BY <1>1, <2>1
  <2>3. 1 \in DOMAIN s /\ s[1] = a[1]
    BY <1>2, <2>2
  <2> QED BY <2>3
<1>8. b # <<>> => s # <<>>
  <2> SUFFICES ASSUME b # <<>> PROVE s # <<>>
    OBVIOUS
  <2>1. Len(b) # 0
    BY <1>1, EmptySeq
  <2>2. Len(b) \in DOMAIN b
    BY <1>1, <2>1
  <2>3. Len(b) + Len(a) \in DOMAIN s
    BY <1>3, <2>2
  <2> QED BY <2>3
<1>9. (a = <<>> => s = b) /\ (b = <<>> => s = a)
  BY DEF s
<1> QED BY <1>1, <1>5, <1>6, <1>7, <1>8, <1>9 DEF s

\* A sequence with one packet at its end.
LEMMA AppendedSignal ==
    ASSUME NEW a \in Seq(Signal), NEW p \in Signal
    PROVE  /\ Append(a, p) \in Seq(Signal) /\ Append(a, p) # <<>>
           /\ \A k : Carries(k, Append(a, p)) <=> Carries(k, a) \/ p.kind = k
           /\ \A k : Told(k, Append(a, p)) <=> Told(k, a) \/ (p.kind = "hello" /\ p.part = k)
           /\ a # <<>> => Append(a, p)[1] = a[1]
           /\ a = <<>> => Append(a, p)[1] = p
<1> DEFINE s == Append(a, p)
<1>1. /\ DOMAIN a = 1..Len(a) /\ s \in Seq(Signal) /\ Len(a) \in Nat
      /\ DOMAIN s = 1..(Len(a) + 1)
      /\ \A i \in 1..Len(a) : s[i] = a[i]
      /\ s[Len(a) + 1] = p
  OBVIOUS
<1> HIDE DEF s
<1>2. \A i \in DOMAIN a : i \in DOMAIN s /\ s[i] = a[i]
  BY <1>1
<1>3. Len(a) + 1 \in DOMAIN s
  BY <1>1
<1>4. \A i \in DOMAIN s : i \in DOMAIN a \/ s[i] = p
  BY <1>1
<1>5. \A k : Carries(k, s) <=> Carries(k, a) \/ p.kind = k
  BY <1>1, <1>2, <1>3, <1>4 DEF Carries
<1>6. \A k : Told(k, s) <=> Told(k, a) \/ (p.kind = "hello" /\ p.part = k)
  BY <1>1, <1>2, <1>3, <1>4 DEF Told
<1>7. s # <<>>
  BY <1>3
<1>8. a # <<>> => s[1] = a[1]
  <2> SUFFICES ASSUME a # <<>> PROVE s[1] = a[1]
    OBVIOUS
  <2>1. Len(a) # 0
    BY <1>1, EmptySeq
  <2>2. 1 \in DOMAIN a
    BY <1>1, <2>1
  <2> QED BY <1>2, <2>2
<1>9. a = <<>> => s[1] = p
  <2> SUFFICES ASSUME a = <<>> PROVE s[1] = p
    OBVIOUS
  <2>1. Len(a) = 0
    OBVIOUS
  <2> QED BY <1>1, <2>1
<1> QED BY <1>1, <1>5, <1>6, <1>7, <1>8, <1>9 DEF s

-----------------------------------------------------------------------------
(* What handling packets leaves alone, and what it brings.                 *)
SameCourse(e, f) ==
    /\ e.channel = f.channel /\ e.part = f.part /\ e.said = f.said
    /\ e.retries = f.retries /\ e.hello_in = f.hello_in /\ e.digest_in = f.digest_in
    /\ e.digest = f.digest /\ e.beat = f.beat /\ e.suspended = f.suspended

HeardAll(e) == e.hello <=> e.heard = AllParts

\* An endpoint that is at one with its peer and knows what it has heard.
Content(n) == n \in Polling /\ n.fault = "none" /\ n.ep.compatible /\ HeardAll(n.ep)

\* m holds all that n did, and has sent all that n had.
Extends(n, m) ==
    /\ SameCourse(m.ep, n.ep) /\ n.ep.heard \subseteq m.ep.heard
    /\ n.ep.acked => m.ep.acked
    /\ n.ep.known => m.ep.known
    /\ \A k : Carries(k, n.out) => Carries(k, m.out)
    /\ \A k : Told(k, n.out) => Told(k, m.out)
    /\ n.out # <<>> => m.out # <<>> /\ m.out[1] = n.out[1]

\* m has taken p.
Took(m, p) ==
    /\ m.ep.known /\ m.ep.quiet = 0
    /\ p.kind = "hello" /\ p.part \in AllParts => p.part \in m.ep.heard
    /\ p.kind = "digest" => Carries("digest_ack", m.out)
    /\ p.kind = "digest_ack" => m.ep.acked

\* An endpoint whose hearing has come to this.
HearingIs(f, h, b, c) == f \in Linked /\ f.heard = h /\ f.hello = b /\ f.compatible = c

LEMMA HeardIsLinked ==
    ASSUME NEW e \in Linked, NEW h \in Heard, NEW a \in BOOLEAN, NEW b \in BOOLEAN,
           NEW c \in BOOLEAN, NEW f,
           f = [e EXCEPT !.heard = h, !.profile = a, !.hello = b, !.compatible = c]
    PROVE  HearingIs(f, h, b, c)
<1>1. PICK g : g = [e EXCEPT !.heard = h]
  OBVIOUS
<1>2. PICK d : d = [g EXCEPT !.profile = a]
  OBVIOUS
<1>3. PICK i : i = [d EXCEPT !.hello = b]
  OBVIOUS
<1>4. g \in Linked
  BY <1>1 DEF Linked
<1>5. d \in Linked
  BY <1>2, <1>4 DEF Linked
<1>6. i \in Linked
  BY <1>3, <1>5 DEF Linked
<1>7. f = [i EXCEPT !.compatible = c]
  BY <1>1, <1>2, <1>3
<1>8. f \in Linked
  BY <1>6, <1>7 DEF Linked
<1>9. f.compatible = c /\ f.hello = i.hello /\ f.heard = i.heard
  BY <1>6, <1>7 DEF Linked
<1>10. i.hello = b /\ i.heard = d.heard
  BY <1>3, <1>5 DEF Linked
<1>11. d.heard = g.heard /\ g.heard = h
  BY <1>1, <1>2, <1>4 DEF Linked
<1> QED BY <1>8, <1>9, <1>10, <1>11, Zenon DEF HearingIs

LEMMA HandleTakes ==
    ASSUME Limits, Alike, NEW n, Content(n), NEW p \in Signal,
           n.ep.known \/ p.kind = "hello"
    PROVE  LET m == Handle(n, p) IN Content(m) /\ Extends(n, m) /\ Took(m, p)
<1> DEFINE m == Handle(n, p)
           a == [n EXCEPT !.ep.known = TRUE, !.ep.quiet = 0]
<1>1. n \in Polling /\ n.fault = "none" /\ n.ep \in Linked /\ n.out \in Seq(Signal)
  BY DEF Content, Polling
<1>2. /\ BaseParts \in Nat \ {0} /\ Silence \in Nat /\ Silence > 0
  <2>1. (Interval + 1) * MaxTroubles \in Nat
    BY DEF Limits
  <2> QED BY <2>1 DEF Limits
<1>3. /\ a \in Polling /\ a.fault = "none" /\ a.out = n.out /\ a.ep.known /\ a.ep.quiet = 0
      /\ a.ep \in Linked /\ SameCourse(a.ep, n.ep) /\ a.ep.heard = n.ep.heard
      /\ a.ep.acked = n.ep.acked /\ a.ep.compatible = n.ep.compatible
      /\ a.ep.hello = n.ep.hello
  <2>1. 0 \in Quiets
    BY <1>2 DEF Quiets
  <2>2. /\ a.ep = [n.ep EXCEPT !.known = TRUE, !.quiet = 0] /\ a.out = n.out /\ a.fault = n.fault
        /\ a = [ep |-> a.ep, out |-> a.out, fault |-> a.fault]
    <3> DEFINE b == [n EXCEPT !.ep.known = TRUE]
    <3>1. b = [n EXCEPT !.ep.known = TRUE] /\ a = [b EXCEPT !.ep.quiet = 0]
      OBVIOUS
    <3> HIDE DEF a, b
    <3>2. /\ b.ep = [n.ep EXCEPT !.known = TRUE] /\ b.out = n.out /\ b.fault = n.fault
          /\ b = [ep |-> b.ep, out |-> b.out, fault |-> b.fault]
      BY <1>1, <3>1 DEF Polling
    <3>3. /\ a.ep = [b.ep EXCEPT !.quiet = 0] /\ a.out = b.out /\ a.fault = b.fault
          /\ a = [ep |-> a.ep, out |-> a.out, fault |-> a.fault]
      BY <3>1, <3>2
    <3> QED BY <3>2, <3>3
  <2> HIDE DEF a
  <2>3. /\ a.ep \in Linked /\ SameCourse(a.ep, n.ep) /\ a.ep.heard = n.ep.heard
        /\ a.ep.acked = n.ep.acked /\ a.ep.compatible = n.ep.compatible
        /\ a.ep.hello = n.ep.hello /\ a.ep.known /\ a.ep.quiet = 0
    BY <1>1, <2>1, <2>2 DEF Linked, SameCourse
  <2> QED BY <1>1, <2>2, <2>3 DEF Polling
<1>4. Content(a) /\ Extends(n, a)
  BY <1>1, <1>3 DEF Content, Extends, HeardAll
<1> HIDE DEF a
<1>5. CASE p.kind = "hello"
  <2>1. m = HearHello(a, p.part)
    BY <1>1, <1>5 DEF Handle, a
  <2> DEFINE h == IF p.part = ProfilePart THEN a.ep.heard ELSE a.ep.heard \union {p.part}
             f == a.ep.profile \/ p.part = ProfilePart
  <2>2. h \in SUBSET AllParts /\ a.ep.heard \subseteq h /\ (p.part \in AllParts => p.part \in h)
    BY <1>2, <1>3 DEF Linked, ProfilePart, AllParts, Signal, Heard
  <2>3. m = [a EXCEPT !.ep.heard = h, !.ep.profile = f, !.ep.hello = (h = AllParts),
                      !.ep.compatible = IF h = AllParts THEN alike.id /\ (f => alike.profile)
                                        ELSE @]
    BY <2>1 DEF HearHello, AllParts
  <2>4. f \in BOOLEAN /\ (h = AllParts) \in BOOLEAN
        /\ (alike.id /\ (f => alike.profile)) = TRUE
    BY <1>3 DEF Alike
  <2> HIDE DEF h, f
  <2>5. m = [a EXCEPT !.ep.heard = h, !.ep.profile = f, !.ep.hello = (h = AllParts),
                      !.ep.compatible = IF h = AllParts THEN TRUE ELSE @]
    BY <2>3, <2>4
  <2>6. /\ m.ep = [a.ep EXCEPT !.heard = h, !.profile = f, !.hello = (h = AllParts),
                      !.compatible = IF h = AllParts THEN TRUE ELSE @]
        /\ m.out = a.out /\ m.fault = a.fault /\ m = [ep |-> m.ep, out |-> m.out, fault |-> m.fault]
    BY <1>3, <2>5 DEF Polling
  <2> HIDE DEF m
  <2>7. m.ep \in Linked /\ m.ep.compatible /\ HeardAll(m.ep) /\ SameCourse(m.ep, a.ep)
        /\ m.ep.heard = h /\ m.ep.acked = a.ep.acked /\ m.ep.known /\ m.ep.quiet = 0
    <3> DEFINE x == (h = AllParts)
               y == IF x THEN TRUE ELSE a.ep.compatible
    <3>1. x \in BOOLEAN /\ y = TRUE /\ f \in BOOLEAN /\ h \in Heard
      BY <1>4, <2>2, <2>4 DEF Content, Heard
    <3>2. m.ep = [a.ep EXCEPT !.heard = h, !.profile = f, !.hello = x, !.compatible = y]
      BY <2>6
    <3> HIDE DEF x, y
    <3>3. /\ m.ep \in Linked
          /\ m.ep.heard = h /\ m.ep.compatible = y /\ m.ep.hello = x
      <4>1. a.ep \in Linked /\ y \in BOOLEAN
        BY <1>3, <3>1
      <4>2. PICK g : g = a.ep
        OBVIOUS
      <4>3. PICK k : k = m.ep
        OBVIOUS
      <4>4. g \in Linked /\ k = [g EXCEPT !.heard = h, !.profile = f, !.hello = x, !.compatible = y]
        BY <3>2, <4>1, <4>2, <4>3
      <4>5. HearingIs(k, h, x, y)
        BY <3>1, <4>1, <4>4, HeardIsLinked, Zenon
      <4> QED BY <4>3, <4>5, Zenon DEF HearingIs
    <3>4. /\ SameCourse(m.ep, a.ep) /\ m.ep.acked = a.ep.acked
          /\ m.ep.known = a.ep.known /\ m.ep.quiet = a.ep.quiet
      BY <1>3, <3>2, ZenonT(90) DEF Linked, SameCourse
    <3> QED BY <1>3, <3>1, <3>3, <3>4 DEF HeardAll, x
  <2>8. m \in Polling
    BY <1>3, <2>6, <2>7 DEF Polling
  <2> QED
    BY <1>3, <1>4, <1>5, <2>2, <2>6, <2>7, <2>8 DEF Content, Extends, Took, SameCourse, m
<1>6. CASE p.kind = "digest"
  <2>1. m = Send([a EXCEPT !.ep.valid = TRUE], Packet("digest_ack", 0))
    BY <1>1, <1>6 DEF Handle, a, HearDigest, SameDigest, Alike
  <2>2. Packet("digest_ack", 0) \in Signal /\ Packet("digest_ack", 0).kind = "digest_ack"
    BY <1>2 DEF Packet, Signal, Kinds
  <2>3. /\ m.ep = [a.ep EXCEPT !.valid = TRUE] /\ m.fault = a.fault
        /\ m.out = Append(a.out, Packet("digest_ack", 0))
        /\ m = [ep |-> m.ep, out |-> m.out, fault |-> m.fault]
    BY <1>3, <2>1 DEF Send, Polling
  <2> HIDE DEF m
  <2>4. /\ m.ep \in Linked /\ SameCourse(m.ep, a.ep) /\ m.ep.heard = a.ep.heard
        /\ m.ep.hello = a.ep.hello /\ m.ep.compatible = a.ep.compatible
        /\ m.ep.acked = a.ep.acked /\ m.ep.known /\ m.ep.quiet = 0
    BY <1>3, <2>3, ZenonT(90) DEF Linked, SameCourse
  <2>5. /\ m.out \in Seq(Signal) /\ Carries("digest_ack", m.out) /\ m.out # <<>>
        /\ \A k : Carries(k, a.out) => Carries(k, m.out)
        /\ \A k : Told(k, a.out) => Told(k, m.out)
        /\ a.out # <<>> => m.out[1] = a.out[1]
    <3>1. a.out \in Seq(Signal)
      BY <1>1, <1>3
    <3> QED BY <2>2, <2>3, <3>1, AppendedSignal, SMTT(40)
  <2>6. m \in Polling
    BY <1>3, <2>3, <2>4, <2>5 DEF Polling
  <2> QED
    BY <1>3, <1>4, <1>6, <2>3, <2>4, <2>5, <2>6 DEF Content, Extends, Took, SameCourse, HeardAll, m
<1>7. CASE p.kind = "digest_ack"
  <2>1. m = [a EXCEPT !.ep.acked = TRUE]
    <3>1. m = [a EXCEPT !.ep.acked = @ \/ SameDigest]
      BY <1>1, <1>7 DEF Handle, a
    <3>2. SameDigest
      BY DEF SameDigest, Alike
    <3>3. (a.ep.acked \/ SameDigest) = TRUE
      BY <3>2
    <3> QED BY <3>1, <3>3
  <2>2. /\ m.ep = [a.ep EXCEPT !.acked = TRUE] /\ m.fault = a.fault /\ m.out = a.out
        /\ m = [ep |-> m.ep, out |-> m.out, fault |-> m.fault]
    BY <1>3, <2>1 DEF Polling
  <2> HIDE DEF m
  <2>3. /\ m.ep \in Linked /\ SameCourse(m.ep, a.ep) /\ m.ep.heard = a.ep.heard
        /\ m.ep.hello = a.ep.hello /\ m.ep.compatible = a.ep.compatible
        /\ m.ep.acked /\ m.ep.known /\ m.ep.quiet = 0
    <3>1. /\ m.ep \in Linked /\ m.ep.acked = TRUE
      BY <1>3, <2>2, ZenonT(60) DEF Linked
    <3>2. /\ SameCourse(m.ep, a.ep) /\ m.ep.heard = a.ep.heard
          /\ m.ep.hello = a.ep.hello /\ m.ep.compatible = a.ep.compatible
          /\ m.ep.known = a.ep.known /\ m.ep.quiet = a.ep.quiet
      BY <1>3, <2>2, ZenonT(60) DEF Linked, SameCourse
    <3> QED BY <1>3, <3>1, <3>2
  <2>4. m \in Polling
    BY <1>3, <2>2, <2>3 DEF Polling
  <2> QED
    BY <1>3, <1>4, <1>7, <2>2, <2>3, <2>4 DEF Content, Extends, Took, SameCourse, HeardAll, m
<1>8. CASE p.kind = "heartbeat"
  <2>1. m = Send(a, Packet("heartbeat_ack", 0))
    BY <1>1, <1>8 DEF Handle, a
  <2>2. Packet("heartbeat_ack", 0) \in Signal
    BY <1>2 DEF Packet, Signal, Kinds
  <2>3. /\ m.ep = a.ep /\ m.fault = a.fault /\ m.out = Append(a.out, Packet("heartbeat_ack", 0))
        /\ m = [ep |-> m.ep, out |-> m.out, fault |-> m.fault]
    BY <1>3, <2>1 DEF Send, Polling
  <2> HIDE DEF m
  <2>4. /\ m.out \in Seq(Signal) /\ m.out # <<>>
        /\ \A k : Carries(k, a.out) => Carries(k, m.out)
        /\ \A k : Told(k, a.out) => Told(k, m.out)
        /\ a.out # <<>> => m.out[1] = a.out[1]
    <3>1. a.out \in Seq(Signal)
      BY <1>1, <1>3
    <3> QED BY <2>2, <2>3, <3>1, AppendedSignal
  <2>5. m \in Polling
    BY <1>3, <2>3, <2>4 DEF Polling
  <2> QED
    BY <1>3, <1>4, <1>8, <2>3, <2>4, <2>5 DEF Content, Extends, Took, SameCourse, HeardAll, m
<1>9. CASE p.kind = "heartbeat_ack"
  <2>1. m = a
    BY <1>1, <1>9 DEF Handle, a
  <2> QED
    BY <1>3, <1>4, <1>9, <2>1 DEF Took, m
<1> QED
  BY <1>5, <1>6, <1>7, <1>8, <1>9 DEF Signal, Kinds

-----------------------------------------------------------------------------
(* All that has arrived, packet by packet.                                 *)
IsReceipt(f, n, w) ==
    f = [i \in 0..Len(w) |-> IF i = 0 THEN n ELSE Handle(f[i - 1], w[i])]

\* m is what n has become after the first i packets of w.
Taken(n, m, w, i) ==
    /\ Content(m) /\ Extends(n, m)
    /\ i = 0 => m = n
    /\ i > 0 => m.ep.known /\ m.ep.quiet = 0
    /\ \A j \in 1..i :
          /\ w[j].kind = "hello" /\ w[j].part \in AllParts => w[j].part \in m.ep.heard
          /\ w[j].kind = "digest" => Carries("digest_ack", m.out)
          /\ w[j].kind = "digest_ack" => m.ep.acked

Greets(n, w) == n.ep.known \/ w = <<>> \/ w[1].kind = "hello"

LEMMA TakesNext ==
    ASSUME Limits, Alike, NEW n, Content(n), NEW w \in Seq(Signal), Greets(n, w),
           NEW i \in 1..Len(w), NEW m, Taken(n, m, w, i - 1)
    PROVE  /\ m.ep.known \/ w[i].kind = "hello"
           /\ Taken(n, Handle(m, w[i]), w, i)
<1> DEFINE q == Handle(m, w[i])
<1>1. Len(w) \in Nat /\ w[i] \in Signal /\ i - 1 \in Nat /\ w # <<>> /\ i > 0
  BY ElementOfSeq, EmptySeq
<1>2. m.ep.known \/ w[i].kind = "hello"
  <2>1. CASE i = 1
    BY <1>1, <2>1 DEF Taken, Greets
  <2>2. CASE i # 1
    BY <1>1, <2>2 DEF Taken
  <2> QED BY <2>1, <2>2
<1>3. Content(m)
  BY DEF Taken
<1>4. Content(q) /\ Extends(m, q) /\ Took(q, w[i])
  BY <1>1, <1>2, <1>3, HandleTakes
<1> HIDE DEF q
<1>5. Extends(n, q)
  BY <1>4 DEF Taken, Extends, SameCourse
<1>6. ASSUME NEW j \in 1..i
      PROVE /\ w[j].kind = "hello" /\ w[j].part \in AllParts => w[j].part \in q.ep.heard
            /\ w[j].kind = "digest" => Carries("digest_ack", q.out)
            /\ w[j].kind = "digest_ack" => q.ep.acked
  <2>1. CASE j = i
    BY <1>4, <2>1 DEF Took
  <2>2. CASE j # i
    <3>1. j \in 1..(i - 1)
      BY <1>1, <2>2
    <3>2. /\ w[j].kind = "hello" /\ w[j].part \in AllParts => w[j].part \in m.ep.heard
          /\ w[j].kind = "digest" => Carries("digest_ack", m.out)
          /\ w[j].kind = "digest_ack" => m.ep.acked
      BY <3>1 DEF Taken
    <3> QED BY <1>4, <3>2 DEF Extends
  <2> QED BY <2>1, <2>2
<1> QED
  BY <1>1, <1>2, <1>4, <1>5, <1>6 DEF Taken, Took, q

LEMMA ReceiptExists ==
    ASSUME Limits, Alike, NEW n, Content(n), NEW w \in Seq(Signal), Greets(n, w)
    PROVE  \E f : /\ IsReceipt(f, n, w)
                  /\ \A i \in 0..Len(w) : Taken(n, f[i], w, i)
<1> DEFINE l == Len(w)
           T == {x \in Polling : Content(x)}
           round == [i \in 1..l |-> [x \in T |->
                       IF x.ep.known \/ w[i].kind = "hello" THEN Handle(x, w[i]) ELSE x]]
<1>1. l \in Nat /\ n \in T /\ \A i \in 1..l : w[i] \in Signal
  BY ElementOfSeq DEF Content
<1>2. ASSUME NEW i \in 1..l, NEW x \in T
      PROVE (IF x.ep.known \/ w[i].kind = "hello" THEN Handle(x, w[i]) ELSE x) \in T
  <2>1. CASE x.ep.known \/ w[i].kind = "hello"
    <3>1. Content(Handle(x, w[i]))
      BY <1>1, <2>1, HandleTakes
    <3> QED BY <2>1, <3>1 DEF Content
  <2>2. CASE ~(x.ep.known \/ w[i].kind = "hello")
    BY <2>2
  <2> QED BY <2>1, <2>2
<1> HIDE DEF T
<1>3. round \in [1..l -> [T -> T]]
  BY <1>2
<1>4. PICK f \in [0..l -> T] : Iterates(f, n, round, l)
  <2> HIDE DEF round, l
  <2> QED BY <1>1, <1>3, IterationExists
<1>5. f[0] = n /\ \A i \in 1..l : f[i - 1] \in T /\ f[i] = round[i][f[i - 1]]
  BY <1>1, <1>4 DEF Iterates
<1> DEFINE S == {i \in 0..l : Taken(n, f[i], w, i)}
<1>6. Taken(n, n, w, 0)
  BY DEF Taken, Extends, SameCourse
<1>7. 0 \in S
  BY <1>1, <1>5, <1>6
<1>8. ASSUME NEW i \in 1..l, i - 1 \in S
      PROVE  i \in S /\ f[i] = Handle(f[i - 1], w[i])
  <2>1. Taken(n, f[i - 1], w, i - 1)
    BY <1>8
  <2>2. /\ f[i - 1].ep.known \/ w[i].kind = "hello"
        /\ Taken(n, Handle(f[i - 1], w[i]), w, i)
    BY <2>1, TakesNext
  <2>3. f[i] = Handle(f[i - 1], w[i])
    BY <1>5, <2>2
  <2> QED BY <2>2, <2>3
<1>9. \A i \in 0..l : i \in S
  <2> HIDE DEF S, l
  <2> QED BY <1>1, <1>7, <1>8, InductionTo
<1>10. ASSUME NEW i \in 0..l
       PROVE  f[i] = IF i = 0 THEN n ELSE Handle(f[i - 1], w[i])
  <2>1. CASE i = 0
    BY <1>5, <2>1
  <2>2. CASE i # 0
    <3>1. i \in 1..l /\ i - 1 \in 0..l
      BY <1>1, <2>2
    <3> QED BY <1>8, <1>9, <2>2, <3>1
  <2> QED BY <2>1, <2>2
<1>11. IsReceipt(f, n, w)
  BY <1>4, <1>10 DEF IsReceipt
<1> QED BY <1>9, <1>11

LEMMA ReceiptTakes ==
    ASSUME Limits, Alike, NEW n, Content(n), NEW w \in Seq(Signal), Greets(n, w),
           NEW g, IsReceipt(g, n, w)
    PROVE  Taken(n, g[Len(w)], w, Len(w))
<1> DEFINE l == Len(w)
           S == {i \in 0..l : Taken(n, g[i], w, i)}
<1>1. l \in Nat
  OBVIOUS
<1>2. ASSUME NEW i \in 0..l PROVE g[i] = IF i = 0 THEN n ELSE Handle(g[i - 1], w[i])
  BY DEF IsReceipt
<1>3. 0 \in S
  <2>1. Taken(n, n, w, 0)
    BY DEF Taken, Extends, SameCourse
  <2>2. 0 \in 0..l
    BY <1>1
  <2> QED BY <1>2, <2>1, <2>2
<1>4. ASSUME NEW i \in 1..l, i - 1 \in S PROVE i \in S
  <2>1. Taken(n, g[i - 1], w, i - 1)
    BY <1>4
  <2>2. Taken(n, Handle(g[i - 1], w[i]), w, i)
    BY <2>1, TakesNext
  <2>3. i \in 0..l /\ i # 0
    BY <1>1
  <2>4. g[i] = Handle(g[i - 1], w[i])
    BY <1>2, <2>3, Zenon
  <2> QED BY <2>2, <2>3, <2>4
<1>5. \A i \in 0..l : i \in S
  <2> HIDE DEF S, l
  <2> QED BY <1>1, <1>3, <1>4, InductionTo
<1> QED BY <1>1, <1>5

LEMMA ReceivedFacts ==
    ASSUME Limits, Alike, NEW n, Content(n), NEW w \in Seq(Signal), Greets(n, w)
    PROVE  LET m == Received(n, w)
           IN  /\ Content(m) /\ Extends(n, m)
               /\ IF w = <<>> THEN m = n ELSE m.ep.known /\ m.ep.quiet = 0
               /\ \A k \in AllParts : Told(k, w) => k \in m.ep.heard
               /\ Carries("digest", w) => Carries("digest_ack", m.out)
               /\ Carries("digest_ack", w) => m.ep.acked
<1> DEFINE c == CHOOSE g : IsReceipt(g, n, w)
           m == Received(n, w)
<1>1. m = c[Len(w)]
  BY DEF Received, IsReceipt
<1>2. IsReceipt(c, n, w)
  BY ReceiptExists
<1> HIDE DEF c, m
<1>3. Taken(n, m, w, Len(w))
  BY <1>1, <1>2, ReceiptTakes
<1>4. DOMAIN w = 1..Len(w) /\ Len(w) \in Nat /\ (w = <<>> <=> Len(w) = 0)
  BY EmptySeq
<1>5. Content(m) /\ Extends(n, m)
  BY <1>3 DEF Taken
<1>6. IF w = <<>> THEN m = n ELSE m.ep.known /\ m.ep.quiet = 0
  BY <1>3, <1>4 DEF Taken
<1>7. \A k \in AllParts : Told(k, w) => k \in m.ep.heard
  BY <1>3, <1>4 DEF Taken, Told
<1>8. /\ Carries("digest", w) => Carries("digest_ack", m.out)
      /\ Carries("digest_ack", w) => m.ep.acked
  <2>1. /\ \A j \in DOMAIN w : w[j].kind = "digest" => Carries("digest_ack", m.out)
        /\ \A j \in DOMAIN w : w[j].kind = "digest_ack" => m.ep.acked
    BY <1>3, <1>4 DEF Taken
  <2>2. /\ Carries("digest", w) => \E j \in DOMAIN w : w[j].kind = "digest"
        /\ Carries("digest_ack", w) => \E j \in DOMAIN w : w[j].kind = "digest_ack"
    BY DEF Carries
  <2> QED BY <2>1, <2>2
<1> QED BY <1>5, <1>6, <1>7, <1>8 DEF m

-----------------------------------------------------------------------------
(* What an endpoint says before it listens.                                *)
Again(e)  == e.said /\ ~e.acked /\ e.hello_in = 0
Says(e)   == ~e.said \/ Again(e)
SaysNow(e) == IF Again(e) THEN 0 ELSE e.part
DigestDue(e) == e.hello /\ e.known /\ (~e.digest \/ ~e.acked) /\ e.digest_in = 0

\* A hello under way has parts left, a hello said has none.
OnCourse(e) == IF e.said THEN e.part = BaseParts + 1 ELSE e.part \in 0..BaseParts

SameHearing(e, f) ==
    /\ e.known = f.known /\ e.heard = f.heard /\ e.hello = f.hello /\ e.acked = f.acked
    /\ e.quiet = f.quiet /\ e.beat = f.beat /\ e.suspended = f.suspended
    /\ e.compatible = f.compatible

\* How the hello goes on.
GoesOn(e, f) ==
    /\ Again(e) =>
          f.retries = e.retries + 1 /\ f.part = 1 /\ ~f.said /\ f.hello_in = 0
    /\ e.said /\ ~Again(e) =>
          f.retries = e.retries /\ f.part = e.part /\ f.said /\ f.hello_in = e.hello_in
    /\ ~e.said =>
          /\ f.retries = e.retries /\ f.part = e.part + 1
          /\ f.said <=> e.part = BaseParts
          /\ f.hello_in = IF e.part = BaseParts THEN RetryTicks ELSE e.hello_in

GivesDigest(e, f) ==
    IF DigestDue(e) THEN f.digest /\ f.digest_in = RetryTicks
    ELSE f.digest = e.digest /\ f.digest_in = e.digest_in

Begun(e) == [ep |-> [e EXCEPT !.channel = "open"], out |-> <<>>, fault |-> "none"]

LEMMA RetriedIsLinked ==
    ASSUME NEW e \in Linked, NEW k \in Tries, 0 \in Places, NEW f,
           f = [e EXCEPT !.said = FALSE, !.part = 0, !.retries = k]
    PROVE  f \in Linked
BY DEF Linked

LEMMA Opens ==
    ASSUME NEW e \in Linked, NEW f, f = [e EXCEPT !.channel = "open"]
    PROVE  /\ f \in Linked /\ SameHearing(f, e) /\ f.channel = "open"
           /\ f.hello_in = e.hello_in /\ f.digest = e.digest /\ f.digest_in = e.digest_in
           /\ f.retries = e.retries /\ f.part = e.part /\ f.said = e.said
BY DEF Linked, SameHearing, ChannelStates

LEMMA RetriesHello ==
    ASSUME Limits, NEW e \in Linked, OnCourse(e), e.compatible, HeardAll(e),
           Again(e) => e.retries < MaxRetries, NEW m, m = RetryHello(Begun(e))
    PROVE  /\ Content(m) /\ m.out = <<>> /\ SameHearing(m.ep, e) /\ OnCourse(m.ep)
           /\ m.ep.channel = "open" /\ m.ep.hello_in = e.hello_in
           /\ m.ep.digest = e.digest /\ m.ep.digest_in = e.digest_in
           /\ IF Again(e) THEN m.ep.retries = e.retries + 1 /\ m.ep.part = 0 /\ ~m.ep.said
              ELSE m.ep.retries = e.retries /\ m.ep.part = e.part /\ m.ep.said = e.said
<1>1. "open" \in ChannelStates /\ <<>> \in Seq(Signal) /\ "none" \in Faults
  BY EmptySeq DEF ChannelStates, Faults
<1> PICK n : n = Begun(e)
  OBVIOUS
<1>2. /\ n.ep = [e EXCEPT !.channel = "open"] /\ n.out = <<>> /\ n.fault = "none"
      /\ n = [ep |-> n.ep, out |-> n.out, fault |-> n.fault]
  BY DEF Begun
<1>3. n.ep \in Linked
  BY <1>2, Opens
<1>4. /\ SameHearing(n.ep, e) /\ n.ep.channel = "open" /\ n.ep.hello_in = e.hello_in
      /\ n.ep.digest = e.digest /\ n.ep.digest_in = e.digest_in
      /\ n.ep.retries = e.retries /\ n.ep.part = e.part /\ n.ep.said = e.said
  BY <1>2, Opens, ZenonT(60)
<1>5. n \in Polling
  BY <1>1, <1>2, <1>3 DEF Polling
<1>6. Content(n)
  BY <1>2, <1>4, <1>5 DEF Content, HeardAll, SameHearing
<1>7. Again(n.ep) <=> Again(e)
  BY <1>4, Zenon DEF Again, SameHearing
<1>8. CASE ~Again(e)
  <2>1. m = n
    BY <1>7, <1>8, Zenon DEF RetryHello, Again
  <2>2. OnCourse(n.ep)
    BY <1>4, Zenon DEF OnCourse
  <2> QED BY <1>2, <1>4, <1>6, <1>8, <2>1, <2>2, Zenon
<1>9. CASE Again(e)
  <2>1. e.retries \in 0..MaxRetries /\ MaxRetries \in Nat /\ e.retries < MaxRetries
    BY <1>9 DEF Linked, Tries, Limits
  <2>2. ~(n.ep.retries >= MaxRetries)
    BY <1>4, <2>1
  <2>3. m = [n EXCEPT !.ep.said = FALSE, !.ep.part = 0, !.ep.retries = @ + 1]
    BY <1>7, <1>9, <2>2, Zenon DEF RetryHello, Again
  <2>4. PICK k : k = e.retries + 1
    OBVIOUS
  <2>5. k \in Tries /\ 0 \in Places
    BY <2>1, <2>4 DEF Tries, Places, Limits
  <2>6. m = [n EXCEPT !.ep.said = FALSE, !.ep.part = 0, !.ep.retries = k]
    <3>1. n.ep.retries + 1 = k
      BY <1>4, <2>4
    <3>2. m = [n EXCEPT !.ep.said = FALSE, !.ep.part = 0, !.ep.retries = n.ep.retries + 1]
      BY <2>3
    <3> QED BY <3>1, <3>2
  <2>7. /\ m.ep = [n.ep EXCEPT !.said = FALSE, !.part = 0, !.retries = k]
        /\ m.out = n.out /\ m.fault = n.fault
        /\ m = [ep |-> m.ep, out |-> m.out, fault |-> m.fault]
    <3> DEFINE b == [n EXCEPT !.ep.said = FALSE]
               d == [b EXCEPT !.ep.part = 0]
    <3>1. /\ b = [n EXCEPT !.ep.said = FALSE] /\ d = [b EXCEPT !.ep.part = 0]
          /\ m = [d EXCEPT !.ep.retries = k]
      BY <2>6
    <3> HIDE DEF b, d
    <3>2. /\ b.ep = [n.ep EXCEPT !.said = FALSE] /\ b.out = n.out /\ b.fault = n.fault
          /\ b = [ep |-> b.ep, out |-> b.out, fault |-> b.fault]
      BY <1>2, <3>1
    <3>3. /\ d.ep = [b.ep EXCEPT !.part = 0] /\ d.out = b.out /\ d.fault = b.fault
          /\ d = [ep |-> d.ep, out |-> d.out, fault |-> d.fault]
      BY <3>1, <3>2
    <3>4. /\ m.ep = [d.ep EXCEPT !.retries = k] /\ m.out = d.out /\ m.fault = d.fault
          /\ m = [ep |-> m.ep, out |-> m.out, fault |-> m.fault]
      BY <3>1, <3>3
    <3> QED BY <3>2, <3>3, <3>4
  <2>8. m.ep \in Linked
    BY <1>3, <2>5, <2>7, RetriedIsLinked, Zenon
  <2>9. m.ep.said = FALSE /\ m.ep.part = 0 /\ m.ep.retries = e.retries + 1
    BY <1>3, <2>7, <2>4 DEF Linked
  <2>10. /\ SameHearing(m.ep, n.ep) /\ m.ep.channel = n.ep.channel
        /\ m.ep.hello_in = n.ep.hello_in
        /\ m.ep.digest = n.ep.digest /\ m.ep.digest_in = n.ep.digest_in
    BY <1>3, <2>7 DEF Linked, SameHearing
  <2>11. m \in Polling
    BY <1>5, <2>7, <2>8 DEF Polling
  <2>12. OnCourse(m.ep)
    BY <2>9 DEF OnCourse, Limits
  <2>13. Content(m)
    BY <1>6, <2>7, <2>10, <2>11 DEF Content, HeardAll, SameHearing
  <2>14. SameHearing(m.ep, e)
    BY <1>4, <2>10, Zenon DEF SameHearing
  <2> QED BY <1>2, <1>4, <1>9, <2>7, <2>9, <2>10, <2>12, <2>13, <2>14, Zenon
<1> QED BY <1>8, <1>9

LEMMA SaysHello ==
    ASSUME Limits, NEW n, Content(n), n.out = <<>>, OnCourse(n.ep),
           NEW m, m = SayHello(n)
    PROVE  /\ Content(m) /\ SameHearing(m.ep, n.ep) /\ m.ep.channel = n.ep.channel
           /\ m.ep.digest = n.ep.digest /\ m.ep.digest_in = n.ep.digest_in
           /\ m.ep.retries = n.ep.retries
           /\ IF n.ep.said
              THEN m = n
              ELSE /\ m.ep.part = n.ep.part + 1
                   /\ m.ep.said <=> n.ep.part = BaseParts
                   /\ m.ep.hello_in = IF n.ep.part = BaseParts THEN RetryTicks ELSE n.ep.hello_in
                   /\ m.out # <<>> /\ m.out[1].kind = "hello" /\ Told(n.ep.part, m.out)
<1>1. /\ n \in Polling /\ n.fault = "none" /\ n.ep \in Linked
      /\ n = [ep |-> n.ep, out |-> n.out, fault |-> n.fault]
  BY DEF Content, Polling
<1>2. CASE n.ep.said
  <2>1. m = n
    BY <1>2, Zenon DEF SayHello
  <2> QED BY <1>2, <2>1, Zenon DEF SameHearing
<1>3. CASE ~n.ep.said
  <2>1. PICK p : p = n.ep.part
    OBVIOUS
  <2>2. PICK l : l = (p = BaseParts)
    OBVIOUS
  <2>3. PICK h : h = IF l THEN RetryTicks ELSE n.ep.hello_in
    OBVIOUS
  <2>4. PICK q : q = Packet("hello", p)
    OBVIOUS
  <2>5. PICK k : k = p + 1
    OBVIOUS
  <2>6. PICK a : a = [n EXCEPT !.ep.part = k, !.ep.said = l, !.ep.hello_in = h]
    OBVIOUS
  <2>7. m = Send(a, q)
    <3>1. m = Send([n EXCEPT !.ep.part = p + 1, !.ep.said = (p = BaseParts),
                            !.ep.hello_in = IF p = BaseParts THEN RetryTicks ELSE @], q)
      BY <1>3, <2>1, <2>4 DEF SayHello, LastPart
    <3>2. m = Send([n EXCEPT !.ep.part = k, !.ep.said = l,
                            !.ep.hello_in = IF l THEN RetryTicks ELSE @], q)
      BY <3>1, <2>2, <2>5
    <3>3. m = Send([n EXCEPT !.ep.part = k, !.ep.said = l,
                            !.ep.hello_in = IF l THEN RetryTicks ELSE n.ep.hello_in], q)
      BY <3>2
    <3> QED BY <3>3, <2>3, <2>6
  <2>8. p \in 0..BaseParts /\ k \in Places /\ h \in Pauses /\ l \in BOOLEAN
    <3>1. n.ep.hello_in \in Pauses /\ RetryTicks \in Pauses
      <4>1. n.ep.hello_in \in Pauses
        BY <1>1 DEF Linked
      <4> QED BY <4>1 DEF Pauses, Limits
    <3>2. p \in 0..BaseParts
      BY <1>3, <2>1 DEF OnCourse
    <3>3. l \in BOOLEAN
      BY <2>2
    <3>4. h \in Pauses
      BY <2>3, <3>1, <3>3
    <3> QED BY <2>5, <3>2, <3>3, <3>4 DEF Places, Limits
  <2>9. q \in Signal /\ q.kind = "hello" /\ q.part = p
    BY <2>8, <2>4 DEF Packet, Signal, Kinds
  <2>10. /\ a.ep = [n.ep EXCEPT !.part = k, !.said = l, !.hello_in = h]
        /\ a.out = n.out /\ a.fault = n.fault
        /\ a = [ep |-> a.ep, out |-> a.out, fault |-> a.fault]
    <3> DEFINE b == [n EXCEPT !.ep.part = k]
               d == [b EXCEPT !.ep.said = l]
    <3>1. /\ b = [n EXCEPT !.ep.part = k] /\ d = [b EXCEPT !.ep.said = l]
          /\ a = [d EXCEPT !.ep.hello_in = h]
      BY <2>6
    <3> HIDE DEF b, d
    <3>2. /\ b.ep = [n.ep EXCEPT !.part = k] /\ b.out = n.out /\ b.fault = n.fault
          /\ b = [ep |-> b.ep, out |-> b.out, fault |-> b.fault]
      BY <1>1, <3>1 DEF Polling
    <3>3. /\ d.ep = [b.ep EXCEPT !.said = l] /\ d.out = b.out /\ d.fault = b.fault
          /\ d = [ep |-> d.ep, out |-> d.out, fault |-> d.fault]
      BY <3>1, <3>2
    <3>4. /\ a.ep = [d.ep EXCEPT !.hello_in = h] /\ a.out = d.out /\ a.fault = d.fault
          /\ a = [ep |-> a.ep, out |-> a.out, fault |-> a.fault]
      BY <3>1, <3>3
    <3> QED BY <3>2, <3>3, <3>4
  <2>11. /\ m.ep = a.ep /\ m.fault = a.fault /\ m.out = Append(<<>>, q)
        /\ m = [ep |-> m.ep, out |-> m.out, fault |-> m.fault]
    <3>1. m = [a EXCEPT !.out = Append(a.out, q)]
      BY <2>7 DEF Send
    <3>2. a.out = <<>>
      BY <2>10
    <3> QED BY <2>10, <3>1, <3>2
  <2>12. m.ep \in Linked
    <3>1. m.ep = [n.ep EXCEPT !.part = k, !.said = l, !.hello_in = h]
      BY <2>10, <2>11
    <3> QED BY <1>1, <2>8, <3>1 DEF Linked
  <2>13. m.ep.part = k /\ m.ep.said = l /\ m.ep.hello_in = h
    BY <1>1, <2>10, <2>11 DEF Linked
  <2>14. /\ SameHearing(m.ep, n.ep) /\ m.ep.channel = n.ep.channel
        /\ m.ep.digest = n.ep.digest /\ m.ep.digest_in = n.ep.digest_in
        /\ m.ep.retries = n.ep.retries
    BY <1>1, <2>10, <2>11 DEF Linked, SameHearing
  <2>15. m.out \in Seq(Signal) /\ m.out # <<>> /\ m.out[1] = q /\ Told(p, m.out)
    <3>1. <<>> \in Seq(Signal)
      BY EmptySeq
    <3>2. PICK w : w = <<>>
      OBVIOUS
    <3>3. w \in Seq(Signal) /\ m.out = Append(w, q) /\ q \in Signal
      BY <2>9, <2>11, <3>1, <3>2
    <3>4. /\ m.out \in Seq(Signal) /\ m.out # <<>> /\ (w = <<>> => m.out[1] = q)
          /\ \A i : Told(i, m.out) <=> Told(i, w) \/ (q.kind = "hello" /\ q.part = i)
      BY <3>3, AppendedSignal
    <3> QED BY <2>9, <3>2, <3>4
  <2>16. m \in Polling
    BY <1>1, <2>10, <2>11, <2>12, <2>15 DEF Polling
  <2>17. Content(m)
    BY <1>1, <2>10, <2>11, <2>14, <2>16 DEF Content, HeardAll, SameHearing
  <2>18. (m.ep.said <=> n.ep.part = BaseParts)
         /\ m.ep.hello_in = IF n.ep.part = BaseParts THEN RetryTicks ELSE n.ep.hello_in
    <3>1. (l <=> n.ep.part = BaseParts)
          /\ h = IF n.ep.part = BaseParts THEN RetryTicks ELSE n.ep.hello_in
      BY <2>1, <2>2, <2>3
    <3> QED BY <2>13, <3>1
  <2>19. m.ep.part = n.ep.part + 1 /\ m.out[1].kind = "hello" /\ Told(n.ep.part, m.out)
    BY <2>9, <2>13, <2>15, <2>1, <2>5
  <2> QED
    BY <1>3, <2>14, <2>15, <2>17, <2>18, <2>19, Zenon
<1> QED BY <1>2, <1>3

-----------------------------------------------------------------------------
(* The digest and the heartbeat, which leave the hello where it is.        *)
SameHello(e, f) ==
    /\ e.part = f.part /\ e.said = f.said /\ e.retries = f.retries
    /\ e.hello_in = f.hello_in

LEMMA SendsDigest ==
    ASSUME Limits, NEW n, Content(n), NEW m, m = SendDigest(n)
    PROVE  /\ Content(m) /\ SameHearing(m.ep, n.ep) /\ SameHello(m.ep, n.ep)
           /\ GivesDigest(n.ep, m.ep)
           /\ n.out # <<>> => m.out # <<>> /\ m.out[1] = n.out[1]
           /\ \A k : Told(k, n.out) => Told(k, m.out)
           /\ DigestDue(n.ep) => Carries("digest", m.out)
<1>1. /\ n \in Polling /\ n.fault = "none" /\ n.ep \in Linked /\ n.out \in Seq(Signal)
      /\ n = [ep |-> n.ep, out |-> n.out, fault |-> n.fault]
  BY DEF Content, Polling
<1>2. CASE ~DigestDue(n.ep)
  <2>1. m = n
    BY <1>2, Zenon DEF SendDigest, DigestDue
  <2> QED BY <1>2, <2>1, Zenon DEF SameHearing, SameHello, GivesDigest
<1>3. CASE DigestDue(n.ep)
  <2>1. PICK q : q = Packet("digest", 0)
    OBVIOUS
  <2>2. PICK a : a = [n EXCEPT !.ep.digest = TRUE, !.ep.digest_in = RetryTicks]
    OBVIOUS
  <2>3. m = Send(a, q)
    BY <1>3, <2>1, <2>2, Zenon DEF SendDigest, DigestDue
  <2>4. q \in Signal /\ q.kind = "digest" /\ RetryTicks \in Pauses
    BY <2>1 DEF Packet, Signal, Kinds, Limits, Pauses
  <2>5. /\ a.ep = [n.ep EXCEPT !.digest = TRUE, !.digest_in = RetryTicks]
        /\ a.out = n.out /\ a.fault = n.fault
        /\ a = [ep |-> a.ep, out |-> a.out, fault |-> a.fault]
    <3> DEFINE b == [n EXCEPT !.ep.digest = TRUE]
    <3>1. /\ b = [n EXCEPT !.ep.digest = TRUE] /\ a = [b EXCEPT !.ep.digest_in = RetryTicks]
      BY <2>2
    <3> HIDE DEF b
    <3>2. /\ b.ep = [n.ep EXCEPT !.digest = TRUE] /\ b.out = n.out /\ b.fault = n.fault
          /\ b = [ep |-> b.ep, out |-> b.out, fault |-> b.fault]
      BY <1>1, <3>1
    <3>3. /\ a.ep = [b.ep EXCEPT !.digest_in = RetryTicks] /\ a.out = b.out /\ a.fault = b.fault
          /\ a = [ep |-> a.ep, out |-> a.out, fault |-> a.fault]
      BY <3>1, <3>2
    <3> QED BY <3>2, <3>3
  <2>6. /\ m.ep = a.ep /\ m.fault = a.fault /\ m.out = Append(n.out, q)
        /\ m = [ep |-> m.ep, out |-> m.out, fault |-> m.fault]
    <3>1. m = [a EXCEPT !.out = Append(a.out, q)]
      BY <2>3 DEF Send
    <3> QED BY <2>5, <3>1
  <2>7. m.ep = [n.ep EXCEPT !.digest = TRUE, !.digest_in = RetryTicks]
    BY <2>5, <2>6
  <2>8. m.ep \in Linked /\ m.ep.digest = TRUE /\ m.ep.digest_in = RetryTicks
    BY <1>1, <2>4, <2>7 DEF Linked
  <2>9. SameHearing(m.ep, n.ep) /\ SameHello(m.ep, n.ep)
    BY <1>1, <2>7 DEF Linked, SameHearing, SameHello
  <2>10. /\ m.out \in Seq(Signal) /\ m.out # <<>> /\ Carries("digest", m.out)
         /\ n.out # <<>> => m.out[1] = n.out[1]
         /\ \A k : Told(k, n.out) => Told(k, m.out)
    BY <1>1, <2>4, <2>6, AppendedSignal
  <2>11. m \in Polling
    BY <1>1, <2>5, <2>6, <2>8, <2>10 DEF Polling
  <2>12. Content(m)
    BY <1>1, <2>5, <2>6, <2>9, <2>11 DEF Content, HeardAll, SameHearing
  <2>13. GivesDigest(n.ep, m.ep)
    BY <1>3, <2>8, Zenon DEF GivesDigest
  <2> QED BY <2>9, <2>10, <2>12, <2>13, Zenon
<1> QED BY <1>2, <1>3

LEMMA BeatsOut ==
    ASSUME Limits, NEW n, Content(n), NEW m, m = Beat(n)
    PROVE  /\ Content(m) /\ SameHello(m.ep, n.ep)
           /\ m.ep.known = n.ep.known /\ m.ep.heard = n.ep.heard /\ m.ep.hello = n.ep.hello
           /\ m.ep.acked = n.ep.acked /\ m.ep.quiet = n.ep.quiet
           /\ m.ep.suspended = n.ep.suspended
           /\ m.ep.digest = n.ep.digest /\ m.ep.digest_in = n.ep.digest_in
           /\ IF n.ep.beat = Interval THEN m.ep.beat = 0 /\ m.out # <<>>
              ELSE m.ep.beat = n.ep.beat
           /\ n.out # <<>> => m.out # <<>> /\ m.out[1] = n.out[1]
           /\ \A k : Told(k, n.out) => Told(k, m.out)
           /\ \A k : Carries(k, n.out) => Carries(k, m.out)
<1>1. /\ n \in Polling /\ n.fault = "none" /\ n.ep \in Linked /\ n.out \in Seq(Signal)
      /\ n = [ep |-> n.ep, out |-> n.out, fault |-> n.fault]
  BY DEF Content, Polling
<1>2. Interval \in Nat \ {0} /\ n.ep.beat \in Beats
  BY <1>1 DEF Limits, Linked
<1>3. n.ep.beat >= Interval <=> n.ep.beat = Interval
  BY <1>2 DEF Beats
<1>4. CASE n.ep.beat # Interval
  <2>1. m = n
    BY <1>3, <1>4, Zenon DEF Beat
  <2> QED BY <1>4, <2>1, Zenon DEF SameHello
<1>5. CASE n.ep.beat = Interval
  <2>1. PICK q : q = Packet("heartbeat", 0)
    OBVIOUS
  <2>2. PICK a : a = [n EXCEPT !.ep.beat = 0]
    OBVIOUS
  <2>3. m = Send(a, q)
    BY <1>3, <1>5, <2>1, <2>2, Zenon DEF Beat
  <2>4. q \in Signal /\ 0 \in Beats
    BY <2>1, <1>2 DEF Packet, Signal, Kinds, Limits, Beats
  <2>5. /\ a.ep = [n.ep EXCEPT !.beat = 0]
        /\ a.out = n.out /\ a.fault = n.fault
        /\ a = [ep |-> a.ep, out |-> a.out, fault |-> a.fault]
    BY <1>1, <2>2
  <2>6. /\ m.ep = a.ep /\ m.fault = a.fault /\ m.out = Append(n.out, q)
        /\ m = [ep |-> m.ep, out |-> m.out, fault |-> m.fault]
    <3>1. m = [a EXCEPT !.out = Append(a.out, q)]
      BY <2>3 DEF Send
    <3> QED BY <2>5, <3>1
  <2>7. m.ep = [n.ep EXCEPT !.beat = 0]
    BY <2>5, <2>6
  <2>8. m.ep \in Linked /\ m.ep.beat = 0
    BY <1>1, <2>4, <2>7 DEF Linked
  <2>9. /\ SameHello(m.ep, n.ep)
        /\ m.ep.known = n.ep.known /\ m.ep.heard = n.ep.heard /\ m.ep.hello = n.ep.hello
        /\ m.ep.acked = n.ep.acked /\ m.ep.quiet = n.ep.quiet
        /\ m.ep.suspended = n.ep.suspended /\ m.ep.compatible = n.ep.compatible
        /\ m.ep.digest = n.ep.digest /\ m.ep.digest_in = n.ep.digest_in
    BY <1>1, <2>7 DEF Linked, SameHello
  <2>10. /\ m.out \in Seq(Signal) /\ m.out # <<>>
         /\ n.out # <<>> => m.out[1] = n.out[1]
         /\ \A k : Told(k, n.out) => Told(k, m.out)
         /\ \A k : Carries(k, n.out) => Carries(k, m.out)
    BY <1>1, <2>4, <2>6, AppendedSignal
  <2>11. m \in Polling
    BY <1>1, <2>5, <2>6, <2>8, <2>10 DEF Polling
  <2>12. Content(m)
    BY <1>1, <2>5, <2>6, <2>9, <2>11 DEF Content, HeardAll
  <2> QED BY <1>5, <2>8, <2>9, <2>10, <2>12, Zenon
<1> QED BY <1>4, <1>5

-----------------------------------------------------------------------------
\* An endpoint fit to be polled: it knows where it is, has not given up, and
\* what it is about to hear is what it may hear.
Fit(e, w) ==
    /\ e \in Linked /\ OnCourse(e) /\ e.compatible /\ HeardAll(e)
    /\ Again(e) => e.retries < MaxRetries
    /\ w \in Seq(Signal)
    /\ e.known \/ w = <<>> \/ w[1].kind = "hello"
    /\ w = <<>> => e.quiet < Silence

\* What becomes of e when it is polled: f, having sent o.
Course(e, f, o) ==
    /\ OnCourse(f) /\ GoesOn(e, f) /\ GivesDigest(e, f)
    /\ f.suspended = e.suspended
    /\ f.beat = IF e.beat = Interval THEN 0 ELSE e.beat
    /\ e.beat = Interval => o # <<>>

\* What it learns from w.
Learns(e, w, f) ==
    /\ e.heard \subseteq f.heard
    /\ \A k \in AllParts : Told(k, w) => k \in f.heard
    /\ e.known => f.known
    /\ e.acked => f.acked
    /\ IF w = <<>> THEN f.quiet = e.quiet /\ f.heard = e.heard ELSE f.known /\ f.quiet = 0
    /\ Carries("digest_ack", w) => f.acked

\* What it sends.
Answers(e, w, o) ==
    /\ Says(e) => o # <<>> /\ o[1].kind = "hello" /\ Told(SaysNow(e), o)
    /\ DigestDue(e) => Carries("digest", o)
    /\ Carries("digest", w) => Carries("digest_ack", o)

LEMMA Speaks ==
    ASSUME Limits, NEW e, NEW w, Fit(e, w), NEW r, r = RetryHello(Begun(e)),
           NEW s, s = SendDigest(SayHello(r))
    PROVE  /\ r.fault = "none" /\ Content(s) /\ SameHearing(s.ep, e)
           /\ OnCourse(s.ep) /\ GoesOn(e, s.ep) /\ GivesDigest(e, s.ep)
           /\ Says(e) => s.out # <<>> /\ s.out[1].kind = "hello" /\ Told(SaysNow(e), s.out)
           /\ DigestDue(e) => Carries("digest", s.out)
<1>1. /\ Content(r) /\ r.out = <<>> /\ SameHearing(r.ep, e) /\ OnCourse(r.ep)
      /\ r.ep.channel = "open" /\ r.ep.hello_in = e.hello_in
      /\ r.ep.digest = e.digest /\ r.ep.digest_in = e.digest_in
      /\ IF Again(e) THEN r.ep.retries = e.retries + 1 /\ r.ep.part = 0 /\ ~r.ep.said
         ELSE r.ep.retries = e.retries /\ r.ep.part = e.part /\ r.ep.said = e.said
  BY RetriesHello DEF Fit
<1>2. PICK h : h = SayHello(r)
  OBVIOUS
<1>3. /\ Content(h) /\ SameHearing(h.ep, r.ep)
      /\ h.ep.digest = r.ep.digest /\ h.ep.digest_in = r.ep.digest_in
      /\ h.ep.retries = r.ep.retries
      /\ IF r.ep.said
         THEN h = r
         ELSE /\ h.ep.part = r.ep.part + 1
              /\ h.ep.said <=> r.ep.part = BaseParts
              /\ h.ep.hello_in = IF r.ep.part = BaseParts THEN RetryTicks ELSE r.ep.hello_in
              /\ h.out # <<>> /\ h.out[1].kind = "hello" /\ Told(r.ep.part, h.out)
  BY <1>1, <1>2, SaysHello
<1>4. s = SendDigest(h)
  BY <1>2
<1>5. /\ Content(s) /\ SameHearing(s.ep, h.ep) /\ SameHello(s.ep, h.ep)
      /\ GivesDigest(h.ep, s.ep)
      /\ h.out # <<>> => s.out # <<>> /\ s.out[1] = h.out[1]
      /\ \A k : Told(k, h.out) => Told(k, s.out)
      /\ DigestDue(h.ep) => Carries("digest", s.out)
  BY <1>3, <1>4, SendsDigest
<1>6. SameHearing(s.ep, e) /\ SameHearing(h.ep, e)
  BY <1>1, <1>3, <1>5, ZenonT(60) DEF SameHearing
<1>7. (DigestDue(h.ep) <=> DigestDue(e)) /\ GivesDigest(e, s.ep)
  <2>1. h.ep.digest = e.digest /\ h.ep.digest_in = e.digest_in
    BY <1>1, <1>3, Zenon
  <2>2. DigestDue(h.ep) <=> DigestDue(e)
    BY <1>6, <2>1, Zenon DEF DigestDue, SameHearing
  <2> QED BY <1>5, <2>1, <2>2, Zenon DEF GivesDigest
<1>8. r.fault = "none"
  BY <1>1 DEF Content
<1>9. BaseParts \in Nat \ {0} /\ BaseParts # 0
  BY DEF Limits
<1>10. /\ OnCourse(s.ep) /\ GoesOn(e, s.ep)
       /\ Says(e) => ~r.ep.said /\ SaysNow(e) = r.ep.part
  <2>0. /\ s.ep.part = h.ep.part /\ (s.ep.said <=> h.ep.said) /\ s.ep.retries = h.ep.retries
        /\ s.ep.hello_in = h.ep.hello_in
    BY <1>5, Zenon DEF SameHello
  <2>1. CASE Again(e)
    <3>1. h.ep.retries = e.retries + 1 /\ h.ep.part = 0 + 1 /\ ~h.ep.said /\ h.ep.hello_in = e.hello_in
      BY <1>1, <1>3, <1>9, <2>1, Zenon
    <3>2. e.hello_in = 0 /\ 0 + 1 = 1 /\ 1 \in 0..BaseParts
      BY <1>9, <2>1 DEF Again
    <3>3. s.ep.retries = e.retries + 1 /\ s.ep.part = 1 /\ ~s.ep.said /\ s.ep.hello_in = 0
      BY <2>0, <3>1, <3>2, Zenon
    <3>4. OnCourse(s.ep)
      BY <3>2, <3>3, Zenon DEF OnCourse
    <3>5. GoesOn(e, s.ep)
      BY <2>1, <3>3, Zenon DEF GoesOn, Again
    <3>6. ~r.ep.said /\ SaysNow(e) = r.ep.part
      BY <1>1, <2>1, Zenon DEF SaysNow
    <3> QED BY <3>4, <3>5, <3>6
  <2>2. CASE e.said /\ ~Again(e)
    <3>1. r.ep.said /\ h = r
      BY <1>1, <1>3, <2>2, Zenon
    <3>2. s.ep.retries = e.retries /\ s.ep.part = e.part /\ s.ep.said /\ s.ep.hello_in = e.hello_in
      BY <1>1, <2>0, <2>2, <3>1, Zenon
    <3> QED BY <2>2, <3>2, Zenon DEF OnCourse, GoesOn, Says, SaysNow, Fit
  <2>3. CASE ~e.said
    <3>1. ~r.ep.said /\ ~Again(e) /\ r.ep.part = e.part
      BY <1>1, <2>3, Zenon DEF Again
    <3>2. /\ s.ep.retries = e.retries /\ s.ep.part = e.part + 1
          /\ s.ep.said <=> e.part = BaseParts
          /\ s.ep.hello_in = IF e.part = BaseParts THEN RetryTicks ELSE e.hello_in
      BY <1>1, <1>3, <2>0, <3>1, Zenon
    <3>3. e.part \in 0..BaseParts
      BY <2>3, Zenon DEF OnCourse, Fit
    <3>4. e.part # BaseParts => e.part + 1 \in 0..BaseParts
      BY <1>9, <3>3
    <3>5. OnCourse(s.ep)
      BY <3>2, <3>4, Zenon DEF OnCourse
    <3> QED BY <2>3, <3>1, <3>2, <3>5, Zenon DEF GoesOn, SaysNow
  <2> QED BY <2>1, <2>2, <2>3
<1>11. ASSUME Says(e) PROVE s.out # <<>> /\ s.out[1].kind = "hello" /\ Told(SaysNow(e), s.out)
  <2>1. h.out # <<>> /\ h.out[1].kind = "hello" /\ Told(SaysNow(e), h.out)
    BY <1>3, <1>10, <1>11, Zenon
  <2> QED BY <1>5, <2>1, Zenon
<1> QED BY <1>5, <1>6, <1>7, <1>8, <1>10, <1>11, Zenon

LEMMA PolledOpen ==
    ASSUME Limits, Alike, NEW c \in Ends, NEW e, e = ep[c], NEW w, w = wire[c],
           Fit(e, w), NEW n, n = PollOpen(c)
    PROVE  Content(n) /\ Course(e, n.ep, n.out) /\ Learns(e, w, n.ep) /\ Answers(e, w, n.out)
<1>1. PICK r : r = RetryHello(Begun(e))
  OBVIOUS
<1>2. PICK s : s = SendDigest(SayHello(r))
  OBVIOUS
<1>3. /\ r.fault = "none" /\ Content(s) /\ SameHearing(s.ep, e)
      /\ OnCourse(s.ep) /\ GoesOn(e, s.ep) /\ GivesDigest(e, s.ep)
      /\ Says(e) => s.out # <<>> /\ s.out[1].kind = "hello" /\ Told(SaysNow(e), s.out)
      /\ DigestDue(e) => Carries("digest", s.out)
  BY <1>1, <1>2, Speaks
<1>4. PICK m : m = Received(s, w)
  OBVIOUS
<1>5. /\ w \in Seq(Signal) /\ Greets(s, w) /\ (w = <<>> => e.quiet < Silence)
      /\ s.fault = "none"
  BY <1>3, Zenon DEF Fit, Greets, SameHearing, Content
<1>6. /\ Content(m) /\ Extends(s, m)
      /\ IF w = <<>> THEN m = s ELSE m.ep.known /\ m.ep.quiet = 0
      /\ \A k \in AllParts : Told(k, w) => k \in m.ep.heard
      /\ Carries("digest", w) => Carries("digest_ack", m.out)
      /\ Carries("digest_ack", w) => m.ep.acked
  BY <1>3, <1>4, <1>5, ReceivedFacts
<1>7. m.fault = "none" /\ m.ep \in Linked
  BY <1>6 DEF Content, Polling
<1>8. m.ep.quiet = IF w = <<>> THEN e.quiet ELSE 0
  BY <1>3, <1>6, Zenon DEF SameHearing
<1>9. ~(m.ep.quiet >= Silence)
  <2>1. Silence \in Nat /\ 0 < Silence
    <3>1. (Interval + 1) * MaxTroubles \in Nat
      BY DEF Limits
    <3> QED BY <3>1 DEF Limits
  <2>2. m.ep.quiet \in 0..Silence /\ m.ep.quiet < Silence
    BY <1>5, <1>7, <1>8, <2>1 DEF Linked, Quiets
  <2> QED BY <2>1, <2>2
<1>10. n = Beat(m)
  <2>1. r = RetryHello([ep |-> [ep[c] EXCEPT !.channel = "open"], out |-> <<>>, fault |-> "none"])
    BY <1>1 DEF Begun
  <2>2. Unless(r, s) = s
    BY <1>3, Zenon DEF Unless
  <2>3. Unless(s, m) = m
    BY <1>5, Zenon DEF Unless
  <2>4. CheckSilence(m) = m /\ Unless(m, m) = m
    BY <1>9, Zenon DEF CheckSilence, Unless
  <2>5. Unless(m, Beat(m)) = Beat(m)
    BY <1>7, Zenon DEF Unless
  <2> DEFINE spoken   == Unless(r, SendDigest(SayHello(r)))
             received == Unless(spoken, Received(spoken, wire[c]))
             checked  == Unless(received, CheckSilence(received))
  <2>6. n = Unless(checked, Beat(checked))
    BY <2>1 DEF PollOpen
  <2>7. spoken = s
    BY <1>2, <2>2, Zenon
  <2>8. received = m
    BY <1>4, <2>3, <2>7, Zenon
  <2>9. checked = m
    BY <2>4, <2>8, Zenon
  <2> HIDE DEF checked
  <2> QED BY <2>5, <2>6, <2>9, Zenon
<1>11. /\ Content(n) /\ SameHello(n.ep, m.ep)
       /\ n.ep.known = m.ep.known /\ n.ep.heard = m.ep.heard /\ n.ep.hello = m.ep.hello
       /\ n.ep.acked = m.ep.acked /\ n.ep.quiet = m.ep.quiet
       /\ n.ep.suspended = m.ep.suspended
       /\ n.ep.digest = m.ep.digest /\ n.ep.digest_in = m.ep.digest_in
       /\ IF m.ep.beat = Interval THEN n.ep.beat = 0 /\ n.out # <<>>
          ELSE n.ep.beat = m.ep.beat
       /\ m.out # <<>> => n.out # <<>> /\ n.out[1] = m.out[1]
       /\ \A k : Told(k, m.out) => Told(k, n.out)
       /\ \A k : Carries(k, m.out) => Carries(k, n.out)
  BY <1>6, <1>10, BeatsOut
<1>12. SameCourse(m.ep, s.ep)
  BY <1>6, Zenon DEF Extends
<1>13. /\ n.ep.part = s.ep.part /\ n.ep.said = s.ep.said /\ n.ep.retries = s.ep.retries
       /\ n.ep.hello_in = s.ep.hello_in /\ n.ep.digest = s.ep.digest
       /\ n.ep.digest_in = s.ep.digest_in /\ n.ep.suspended = e.suspended
       /\ m.ep.beat = e.beat
  BY <1>3, <1>11, <1>12, Zenon DEF SameHello, SameCourse, SameHearing
<1>14. Course(e, n.ep, n.out)
  <2>1. OnCourse(n.ep)
    BY <1>3, <1>13, Zenon DEF OnCourse
  <2>2. GivesDigest(e, n.ep)
    BY <1>3, <1>13, Zenon DEF GivesDigest
  <2>3. GoesOn(e, n.ep)
    BY <1>3, <1>13, Zenon DEF GoesOn
  <2> QED BY <1>11, <1>13, <2>1, <2>2, <2>3, Zenon DEF Course
<1>15. Learns(e, w, n.ep)
  <2>1. e.heard = s.ep.heard /\ e.known = s.ep.known /\ e.acked = s.ep.acked
    BY <1>3, Zenon DEF SameHearing
  <2> QED BY <1>6, <1>8, <1>11, <2>1, Zenon DEF Learns, Extends
<1>16. Answers(e, w, n.out)
  <2>1. Says(e) => n.out # <<>> /\ n.out[1].kind = "hello" /\ Told(SaysNow(e), n.out)
    BY <1>3, <1>6, <1>11, Zenon DEF Extends
  <2>2. DigestDue(e) => Carries("digest", n.out)
    BY <1>3, <1>6, <1>11, Zenon DEF Extends
  <2>3. Carries("digest", w) => Carries("digest_ack", n.out)
    BY <1>6, <1>11, Zenon
  <2> QED BY <2>1, <2>2, <2>3, Zenon DEF Answers
<1> QED BY <1>11, <1>14, <1>15, <1>16

LEMMA PolledEnd ==
    ASSUME Limits, Alike, NEW c \in Ends, NEW e, e = ep[c], NEW w, w = wire[c],
           Fit(e, w), NEW n, n = PollOpen(c), NEW f, f = [n.ep EXCEPT !.channel = "open"]
    PROVE  /\ n.fault = "none" /\ n.out \in Seq(Signal)
           /\ f \in Linked /\ f.compatible /\ HeardAll(f) /\ f.channel = "open"
           /\ Course(e, f, n.out) /\ Learns(e, w, f) /\ Answers(e, w, n.out)
<1>1. /\ Content(n) /\ Course(e, n.ep, n.out) /\ Learns(e, w, n.ep)
      /\ Answers(e, w, n.out)
  BY PolledOpen
<1>2. n.ep \in Linked /\ n.fault = "none" /\ n.out \in Seq(Signal)
  BY <1>1 DEF Content, Polling
<1>3. /\ f \in Linked /\ SameHearing(f, n.ep) /\ f.channel = "open"
      /\ f.hello_in = n.ep.hello_in /\ f.digest = n.ep.digest
      /\ f.digest_in = n.ep.digest_in
      /\ f.retries = n.ep.retries /\ f.part = n.ep.part /\ f.said = n.ep.said
  <2>1. PICK g : g = n.ep
    OBVIOUS
  <2>2. g \in Linked /\ f = [g EXCEPT !.channel = "open"]
    BY <1>2, <2>1
  <2>3. /\ f \in Linked /\ SameHearing(f, g) /\ f.channel = "open"
        /\ f.hello_in = g.hello_in /\ f.digest = g.digest /\ f.digest_in = g.digest_in
        /\ f.retries = g.retries /\ f.part = g.part /\ f.said = g.said
    BY <2>2, Opens, Zenon
  <2> QED BY <2>1, <2>3, Zenon
<1>4. f.compatible /\ HeardAll(f)
  BY <1>1, <1>3, Zenon DEF Content, HeardAll, SameHearing
<1>5. OnCourse(f)
  BY <1>1, <1>3, Zenon DEF Course, OnCourse
<1>6. GoesOn(e, f) /\ GivesDigest(e, f)
  BY <1>1, <1>3, Zenon DEF Course, GoesOn, GivesDigest
<1>7. Course(e, f, n.out)
  BY <1>1, <1>3, <1>5, <1>6, Zenon DEF Course, SameHearing
<1>8. Learns(e, w, f)
  BY <1>1, <1>3, Zenon DEF Learns, SameHearing
<1> QED BY <1>1, <1>2, <1>3, <1>4, <1>7, <1>8

-----------------------------------------------------------------------------
(* The invariant, of an end e that has polled in this tick or not (p), of  *)
(* its peer g (q), of what is on its way to the one (w) and the other (v), *)
(* after a ticks without a connection and t troubles.                      *)
(* The age of a hello is the number of ticks its end has been saying it:   *)
(* a poll adds none, a tick one, and a retry begins the next round.        *)
Round    == RetryTicks + BaseParts
Age(e, p) ==
    e.retries * Round +
      (IF e.said THEN BaseParts + RetryTicks - e.hello_in
       ELSE IF p THEN e.part - 1 ELSE e.part)
Late(p)  == IF p THEN 0 ELSE 1

\* An end whose first hello is not complete without its next part.
Early(e) == e.retries = 0 /\ ~e.said /\ e.part < BaseParts

\* What an end knows by itself.
OwnOK(e, p) ==
    /\ e \in Linked /\ e.channel # "closed" /\ e.compatible /\ HeardAll(e) /\ OnCourse(e)
    /\ p => e.beat # Interval
    /\ ~e.digest => e.digest_in = 0
    /\ e.digest /\ p /\ ~e.acked => e.digest_in # 0
    /\ e.digest => e.hello
    /\ e.hello => e.known

\* What is first heard of a peer is its hello, and every part of a first hello
\* that was said is heard or on its way.
HearsOK(e, g, w) ==
    /\ w \in Seq(Signal)
    /\ \/ e.known
       \/ w = <<>> /\ g.part = 0 /\ ~g.said
       \/ w # <<>> /\ w[1].kind = "hello"
    /\ \A k \in AllParts : ~Early(g) \/ k < g.part => k \in e.heard \/ Told(k, w)

\* The peer has been quiet for the wait, its heartbeat and the troubles at most.
PatienceOK(e, g, w, p, a, t) ==
    e.quiet <= a + (Interval + 1) * t +
                 (IF w = <<>> THEN g.beat ELSE Interval + Late(p))

\* How old a hello may be whose digest is on its way, and not acknowledged.
Room(e, w, v, p, q) ==
    IF Carries("digest_ack", w) THEN BaseParts + 2 + Late(p)
    ELSE IF Carries("digest", v) THEN BaseParts + 1 + Late(q)
    ELSE BaseParts - e.digest_in

\* No hello goes on for longer than the peer needs to answer, and the troubles.
AgesOK(e, g, w, v, p, q, t) ==
    /\ Early(g) => Age(e, p) <= Age(g, q) + t
    /\ ~Early(g) /\ ~e.hello => Age(e, p) <= BaseParts - 1 + t + Late(p)
    /\ e.hello /\ ~e.digest => Age(e, p) <= BaseParts + t + Late(p)
    /\ e.digest /\ ~e.acked => Age(e, p) <= (RetryTicks + 3) * t + Room(e, w, v, p, q)

EndOK(e, g, w, v, p, q, a, t) ==
    /\ OwnOK(e, p) /\ HearsOK(e, g, w) /\ PatienceOK(e, g, w, p, a, t)
    /\ AgesOK(e, g, w, v, p, q, t)

-----------------------------------------------------------------------------
LEMMA LinkedFacts ==
    ASSUME Limits, NEW e \in Linked
    PROVE  /\ e.retries \in Nat /\ e.retries <= MaxRetries
           /\ e.hello_in \in Nat /\ e.hello_in <= RetryTicks
           /\ e.digest_in \in Nat /\ e.digest_in <= RetryTicks
           /\ e.beat \in Nat /\ e.beat <= Interval /\ e.quiet \in Nat /\ e.quiet <= Silence
           /\ e.part \in Nat /\ e.part <= BaseParts + 1
           /\ BaseParts \in Nat /\ BaseParts > 0 /\ RetryTicks \in Nat /\ RetryTicks > 0
           /\ Interval \in Nat /\ Interval > 0 /\ Round \in Nat
<1>1. /\ e.retries \in Tries /\ e.hello_in \in Pauses /\ e.digest_in \in Pauses
      /\ e.beat \in Beats /\ e.quiet \in Quiets /\ e.part \in Places
  BY DEF Linked
<1> QED BY <1>1 DEF Limits, Tries, Pauses, Beats, Quiets, Places, Round

LEMMA AgeIsNumber ==
    ASSUME Limits, NEW e \in Linked, NEW p
    PROVE  Age(e, p) \in Int
<1>1. e.retries * Round \in Nat
  BY LinkedFacts
<1>2. (IF e.said THEN BaseParts + RetryTicks - e.hello_in
       ELSE IF p THEN e.part - 1 ELSE e.part) \in Int
  BY LinkedFacts
<1>3. PICK x : x = e.retries * Round
  OBVIOUS
<1>4. PICK y : y = (IF e.said THEN BaseParts + RetryTicks - e.hello_in
                    ELSE IF p THEN e.part - 1 ELSE e.part)
  OBVIOUS
<1>5. x + y \in Int
  BY <1>1, <1>2, <1>3, <1>4
<1> QED BY <1>3, <1>4, <1>5, Zenon DEF Age

\* A poll takes an end no further than the tick has.
LEMMA PollKeepsAge ==
    ASSUME Limits, NEW e \in Linked, NEW f \in Linked, NEW o, OnCourse(e), Course(e, f, o)
    PROVE  Age(f, TRUE) = Age(e, FALSE) /\ (Early(f) => Early(e))
<1>1. GoesOn(e, f)
  BY DEF Course
<1>2. CASE Again(e)
  <2>1. f.retries = e.retries + 1 /\ f.part = 1 /\ ~f.said /\ e.said /\ e.hello_in = 0
    BY <1>1, <1>2, Zenon DEF GoesOn, Again
  <2>2. Age(f, TRUE) = (e.retries + 1) * Round + (1 - 1)
    BY <2>1 DEF Age
  <2>3. Age(e, FALSE) = e.retries * Round + (BaseParts + RetryTicks - 0)
    BY <2>1 DEF Age
  <2>4. (e.retries + 1) * Round = e.retries * Round + Round
    BY LinkedFacts
  <2>5. e.retries * Round \in Nat /\ e.retries + 1 # 0
    BY LinkedFacts
  <2>6. ~Early(f)
    BY <2>1, <2>5 DEF Early
  <2>7. BaseParts \in Nat /\ RetryTicks \in Nat /\ Round = RetryTicks + BaseParts
    BY LinkedFacts DEF Round
  <2>8. PICK x : x = e.retries * Round
    OBVIOUS
  <2>9. PICK y : y = (e.retries + 1) * Round
    OBVIOUS
  <2>10. /\ y = x + Round /\ x \in Nat
         /\ Age(f, TRUE) = y + (1 - 1) /\ Age(e, FALSE) = x + (BaseParts + RetryTicks - 0)
    BY <2>2, <2>3, <2>4, <2>5, <2>8, <2>9, Zenon
  <2>11. y + (1 - 1) = x + (BaseParts + RetryTicks - 0)
    BY <2>7, <2>10
  <2>12. Age(f, TRUE) = Age(e, FALSE)
    BY <2>10, <2>11, Zenon
  <2> QED BY <2>6, <2>12
<1>3. CASE e.said /\ ~Again(e)
  <2>1. f.retries = e.retries /\ f.said /\ f.hello_in = e.hello_in
    BY <1>1, <1>3, Zenon DEF GoesOn
  <2> QED BY <1>3, <2>1, Zenon DEF Age, Early
<1>4. CASE ~e.said
  <2>1. /\ f.retries = e.retries /\ f.part = e.part + 1
        /\ f.said <=> e.part = BaseParts
        /\ f.hello_in = IF e.part = BaseParts THEN RetryTicks ELSE e.hello_in
    BY <1>1, <1>4, Zenon DEF GoesOn
  <2>2. Age(e, FALSE) = e.retries * Round + e.part
    BY <1>4 DEF Age
  <2>3. Age(f, TRUE) = e.retries * Round + e.part
    <3>0. e.part \in Nat /\ BaseParts \in Nat /\ RetryTicks \in Nat
      BY LinkedFacts
    <3>1. CASE e.part = BaseParts
      <4>1. f.said /\ f.hello_in = RetryTicks
        BY <2>1, <3>1, Zenon
      <4>2. Age(f, TRUE) = f.retries * Round + (BaseParts + RetryTicks - f.hello_in)
        BY <4>1, Zenon DEF Age
      <4>3. BaseParts + RetryTicks - f.hello_in = e.part
        BY <3>0, <3>1, <4>1
      <4> QED BY <2>1, <4>2, <4>3, Zenon
    <3>2. CASE e.part # BaseParts
      <4>1. ~f.said
        BY <2>1, <3>2, Zenon
      <4>2. Age(f, TRUE) = f.retries * Round + (f.part - 1)
        BY <4>1, Zenon DEF Age
      <4>3. f.part - 1 = e.part
        BY <2>1, <3>0
      <4> QED BY <2>1, <4>2, <4>3, Zenon
    <3> QED BY <3>1, <3>2
  <2>4. Early(f) => Early(e)
    <3>1. e.part \in Nat /\ BaseParts \in Nat
      BY LinkedFacts
    <3> QED BY <1>4, <2>1, <3>1 DEF Early
  <2> QED BY <2>2, <2>3, <2>4
<1> QED BY <1>2, <1>3, <1>4

LEMMA TimesGrow ==
    ASSUME NEW x \in Nat, NEW y \in Nat, NEW z \in Nat, y <= z
    PROVE  x * y \in Nat /\ x * z \in Nat /\ x * y <= x * z /\ x * (y + 1) = x * y + x
           /\ y * x = x * y /\ (y + 1) * x = x * y + x
<1>1. PICK d \in Nat : z = y + d
  <2>1. z - y \in Nat /\ z = y + (z - y)
    OBVIOUS
  <2> QED BY <2>1
<1>2. x * z = x * y + x * d
  BY <1>1
<1>3. x * y \in Nat /\ x * d \in Nat
  BY <1>1
<1>4. x * (y + 1) = x * y + x /\ y * x = x * y /\ (y + 1) * x = x * y + x
  OBVIOUS
<1> QED BY <1>2, <1>3, <1>4

\* An early hello is no older than its parts are many.
LEMMA EarlyAge ==
    ASSUME Limits, NEW g \in Linked, Early(g), NEW q
    PROVE  Age(g, q) <= BaseParts - 1
<1>1. g.retries = 0 /\ ~g.said /\ g.part < BaseParts /\ g.part \in Nat /\ BaseParts \in Nat
  BY LinkedFacts DEF Early
<1>2. 0 * Round = 0 /\ g.retries * Round = 0
  <2>1. Round \in Nat
    BY LinkedFacts
  <2> QED BY <1>1, <2>1
<1>3. CASE q
  <2>1. Age(g, q) = 0 + (g.part - 1)
    BY <1>1, <1>2, <1>3, Zenon DEF Age
  <2>2. 0 + (g.part - 1) <= BaseParts - 1
    BY <1>1
  <2> QED BY <2>1, <2>2, Zenon
<1>4. CASE ~q
  <2>1. Age(g, q) = 0 + g.part
    BY <1>1, <1>2, <1>4, Zenon DEF Age
  <2>2. 0 + g.part <= BaseParts - 1
    BY <1>1
  <2> QED BY <2>1, <2>2, Zenon
<1> QED BY <1>3, <1>4

\* How long a hello goes on at most.
LEMMA AgeBound ==
    ASSUME Limits, NEW e \in Linked, NEW g \in Linked, NEW w, NEW v, NEW q,
           NEW t \in 0..MaxTroubles, AgesOK(e, g, w, v, FALSE, q, t),
           ~e.acked, e.digest => e.hello
    PROVE  Age(e, FALSE) <= BaseParts + 3 + (RetryTicks + 3) * MaxTroubles
<1>1. PICK x : x = Age(e, FALSE)
  OBVIOUS
<1>2. x \in Int /\ BaseParts \in Nat /\ RetryTicks \in Nat /\ t \in Nat /\ MaxTroubles \in Nat
      /\ t <= MaxTroubles /\ e.digest_in \in Nat
  <2>1. Age(e, FALSE) \in Int
    BY AgeIsNumber
  <2>2. x \in Int
    BY <1>1, <2>1, Zenon
  <2> QED BY <2>2, LinkedFacts DEF Limits
<1>3. PICK y : y = (RetryTicks + 3) * t
  OBVIOUS
<1>4. PICK z : z = (RetryTicks + 3) * MaxTroubles
  OBVIOUS
<1>5. y \in Nat /\ z \in Nat /\ y <= z /\ t <= z
  <2>1. RetryTicks + 3 \in Nat
    BY <1>2
  <2>2. y \in Nat /\ z \in Nat /\ y <= z
    BY <1>2, <1>3, <1>4, <2>1, TimesGrow
  <2>3. 1 * MaxTroubles <= (RetryTicks + 3) * MaxTroubles
    <3>1. /\ MaxTroubles * 1 <= MaxTroubles * (RetryTicks + 3)
          /\ MaxTroubles * (RetryTicks + 3) = (RetryTicks + 3) * MaxTroubles
      <4>1. 1 \in Nat /\ 1 <= RetryTicks + 3
        BY <1>2
      <4>2. MaxTroubles * 1 <= MaxTroubles * (RetryTicks + 3)
        BY <1>2, <2>1, <4>1, TimesGrow
      <4>3. MaxTroubles * (RetryTicks + 3) = (RetryTicks + 3) * MaxTroubles
        BY <1>2, <2>1
      <4> QED BY <4>2, <4>3
    <3> QED BY <1>2, <2>1, <3>1
  <2> QED BY <1>2, <1>4, <2>2, <2>3
<1>6. Late(FALSE) = 1 /\ Late(q) \in 0..1
  BY DEF Late
<1>7. x <= BaseParts + 3 + z
  <2>1. CASE ~e.hello /\ Early(g)
    <3>1. PICK b : b = Age(g, q)
      OBVIOUS
    <3>2. x <= b + t
      BY <1>1, <2>1, <3>1, Zenon DEF AgesOK
    <3>3. b <= BaseParts - 1 /\ b \in Int
      BY <2>1, <3>1, EarlyAge, AgeIsNumber
    <3> QED BY <1>2, <1>5, <3>2, <3>3
  <2>2. CASE ~e.hello /\ ~Early(g)
    <3>1. x <= BaseParts - 1 + t + Late(FALSE)
      BY <1>1, <2>2, Zenon DEF AgesOK
    <3>2. x <= BaseParts - 1 + t + 1
      BY <1>6, <3>1, Zenon
    <3> QED BY <1>2, <1>5, <3>2
  <2>3. CASE e.hello /\ ~e.digest
    <3>1. x <= BaseParts + t + Late(FALSE)
      BY <1>1, <2>3, Zenon DEF AgesOK
    <3>2. x <= BaseParts + t + 1
      BY <1>6, <3>1, Zenon
    <3> QED BY <1>2, <1>5, <3>2
  <2>4. CASE e.digest
    <3>1. PICK r : r = Room(e, w, v, FALSE, q)
      OBVIOUS
    <3>2. x <= y + r
      BY <1>1, <1>3, <2>4, <3>1, Zenon DEF AgesOK
    <3>3. r \in Int /\ r <= BaseParts + 3
      <4>1. PICK s \in 0..1 : s = Late(q)
        BY <1>6
      <4>2. \/ r = BaseParts + 2 + 1
            \/ r = BaseParts + 1 + s
            \/ r = BaseParts - e.digest_in
        BY <1>6, <3>1, <4>1, Zenon DEF Room
      <4> QED BY <1>2, <4>2
    <3> QED BY <1>2, <1>5, <3>2, <3>3
  <2> QED BY <2>1, <2>2, <2>3, <2>4
<1> QED BY <1>1, <1>4, <1>7, Zenon

LEMMA MayGoOn ==
    ASSUME Limits, NEW e, NEW g \in Linked, NEW w, NEW v, NEW q, NEW a \in 0..MaxWait,
           NEW t \in 0..MaxTroubles, EndOK(e, g, w, v, FALSE, q, a, t)
    PROVE  Fit(e, w)
<1>1. /\ OwnOK(e, FALSE) /\ HearsOK(e, g, w) /\ PatienceOK(e, g, w, FALSE, a, t)
      /\ AgesOK(e, g, w, v, FALSE, q, t)
  BY DEF EndOK
<1>2. e \in Linked /\ OnCourse(e) /\ e.compatible /\ HeardAll(e) /\ (e.digest => e.hello)
  BY <1>1 DEF OwnOK
<1>3. ASSUME Again(e) PROVE e.retries < MaxRetries
  <2>1. e.said /\ ~e.acked /\ e.hello_in = 0
    BY <1>3 DEF Again
  <2>2. Age(e, FALSE) <= BaseParts + 3 + (RetryTicks + 3) * MaxTroubles
    BY <1>1, <1>2, <2>1, AgeBound
  <2>3. Age(e, FALSE) = e.retries * Round + (BaseParts + RetryTicks - 0)
    BY <2>1, Zenon DEF Age
  <2>4. PICK x : x = e.retries * Round
    OBVIOUS
  <2>5. PICK z : z = (RetryTicks + 3) * MaxTroubles
    OBVIOUS
  <2>6. PICK y : y = (MaxRetries + 1) * (RetryTicks + BaseParts)
    OBVIOUS
  <2>7. x + (BaseParts + RetryTicks - 0) <= BaseParts + 3 + z
    BY <2>2, <2>3, <2>4, <2>5, Zenon
  <2>8. BaseParts + 3 + z < y
    BY <2>5, <2>6, Zenon DEF Limits
  <2>9. /\ BaseParts \in Nat /\ RetryTicks \in Nat /\ MaxRetries \in Nat /\ e.retries \in Nat
        /\ Round \in Nat /\ Round = RetryTicks + BaseParts
    BY <1>2, LinkedFacts DEF Limits, Round
  <2>10. z \in Nat /\ MaxTroubles \in Nat
    <3>1. MaxTroubles \in Nat /\ RetryTicks + 3 \in Nat
      BY <2>9 DEF Limits
    <3> QED BY <2>5, <3>1
  <2>11. ASSUME MaxRetries <= e.retries PROVE FALSE
    <3>1. y = (MaxRetries + 1) * Round
      BY <2>6, <2>9, Zenon
    <3>2. PICK u : u = Round * MaxRetries
      OBVIOUS
    <3>3. y = u + Round /\ u \in Nat
      BY <2>9, <2>11, <3>1, <3>2, TimesGrow
    <3>4. u <= x /\ x \in Nat
      <4>1. Round * MaxRetries <= Round * e.retries
        BY <2>9, <2>11, TimesGrow
      <4>2. Round * e.retries = e.retries * Round /\ e.retries * Round \in Nat
        BY <2>9
      <4> QED BY <2>4, <3>2, <4>1, <4>2
    <3> QED BY <2>7, <2>8, <2>9, <2>10, <3>3, <3>4
  <2> QED BY <2>9, <2>11
<1>4. ASSUME w = <<>> PROVE e.quiet < Silence
  <2>1. e.quiet <= a + (Interval + 1) * t + g.beat
    BY <1>1, <1>4, Zenon DEF PatienceOK
  <2>2. /\ Interval \in Nat /\ g.beat \in Nat /\ g.beat <= Interval /\ e.quiet \in Nat
        /\ a \in Nat /\ a <= MaxWait /\ t \in Nat /\ t <= MaxTroubles
        /\ MaxWait \in Nat /\ MaxTroubles \in Nat /\ Silence \in Nat
    BY <1>2, LinkedFacts DEF Limits
  <2>3. PICK x : x = (Interval + 1) * t
    OBVIOUS
  <2>4. PICK y : y = (Interval + 1) * MaxTroubles
    OBVIOUS
  <2>5. x \in Nat /\ y \in Nat /\ x <= y
    <3>1. Interval + 1 \in Nat
      BY <2>2
    <3> QED BY <2>2, <2>3, <2>4, <3>1, TimesGrow
  <2>6. MaxWait + Interval + y < Silence
    BY <2>4, Zenon DEF Limits
  <2>7. e.quiet <= a + x + g.beat
    BY <2>1, <2>3, Zenon
  <2> QED BY <2>2, <2>5, <2>6, <2>7
<1>5. w \in Seq(Signal) /\ (e.known \/ w = <<>> \/ w[1].kind = "hello")
  BY <1>1 DEF HearsOK
<1> QED BY <1>2, <1>3, <1>4, <1>5 DEF Fit

-----------------------------------------------------------------------------
\* f is what a poll that hears w makes of e, having sent o.
Polls(e, w, f, o) ==
    /\ f \in Linked /\ f.compatible /\ HeardAll(f) /\ f.channel = "open"
    /\ o \in Seq(Signal)
    /\ Course(e, f, o) /\ Learns(e, w, f) /\ Answers(e, w, o)

LEMMA NothingCarried == (\A k : ~Carries(k, <<>>)) /\ (\A k : ~Told(k, <<>>))
<1>1. DOMAIN <<>> = {}
  OBVIOUS
<1> QED BY <1>1, Zenon DEF Carries, Told

LEMMA LateFacts == ASSUME NEW p PROVE Late(p) \in 0..1 /\ Late(FALSE) = 1 /\ Late(TRUE) = 0
BY DEF Late

LEMMA TroubleGrows ==
    ASSUME Limits, NEW t \in Nat
    PROVE  /\ (RetryTicks + 3) * t \in Nat /\ t <= (RetryTicks + 3) * t
           /\ (RetryTicks + 3) * (t + 1) = (RetryTicks + 3) * t + (RetryTicks + 3)
           /\ (Interval + 1) * t \in Nat
           /\ (Interval + 1) * (t + 1) = (Interval + 1) * t + (Interval + 1)
<1>1. RetryTicks + 3 \in Nat /\ Interval + 1 \in Nat /\ 1 \in Nat /\ 1 <= RetryTicks + 3
  BY DEF Limits
<1>2. t * 1 <= t * (RetryTicks + 3)
  BY <1>1, TimesGrow
<1>3. t * (RetryTicks + 3) = (RetryTicks + 3) * t /\ t * 1 = t
  BY <1>1
<1>4. PICK x : x = RetryTicks + 3
  OBVIOUS
<1>5. PICK y : y = Interval + 1
  OBVIOUS
<1>6. /\ x * t \in Nat /\ x * (t + 1) = x * t + x
      /\ y * t \in Nat /\ y * (t + 1) = y * t + y
  <2>1. x \in Nat /\ y \in Nat /\ t <= t
    BY <1>1, <1>4, <1>5
  <2>2. x * t \in Nat /\ x * (t + 1) = x * t + x
    BY <2>1, TimesGrow
  <2>3. y * t \in Nat /\ y * (t + 1) = y * t + y
    BY <2>1, TimesGrow
  <2> QED BY <2>2, <2>3
<1> QED BY <1>2, <1>3, <1>4, <1>5, <1>6, Zenon

LEMMA PollOwn ==
    ASSUME Limits, NEW e, NEW w, NEW f, NEW o, OwnOK(e, FALSE), Polls(e, w, f, o)
    PROVE  /\ OwnOK(f, TRUE)
           /\ e.hello => f.hello
<1>1. /\ f \in Linked /\ f.compatible /\ HeardAll(f) /\ f.channel = "open"
      /\ Course(e, f, o) /\ Learns(e, w, f)
  BY DEF Polls
<1>2. e \in Linked /\ HeardAll(e)
  BY DEF OwnOK
<1>3. GivesDigest(e, f) /\ OnCourse(f) /\ f.channel # "closed"
  BY <1>1 DEF Course
<1>4. f.beat # Interval
  <2>1. Interval # 0
    BY DEF Limits
  <2> QED BY <1>1, <2>1, Zenon DEF Course
<1>5. RetryTicks # 0
  BY DEF Limits
<1>6. ~f.digest => f.digest_in = 0
  BY <1>3, Zenon DEF GivesDigest, OwnOK
<1>7. ASSUME f.digest, ~f.acked PROVE f.digest_in # 0
  <2>1. ~e.acked
    BY <1>1, <1>7, Zenon DEF Learns
  <2>2. CASE DigestDue(e)
    BY <1>3, <1>5, <2>2, Zenon DEF GivesDigest
  <2>3. CASE ~DigestDue(e)
    <3>1. e.digest /\ f.digest_in = e.digest_in
      BY <1>3, <1>7, <2>3, Zenon DEF GivesDigest
    <3> QED BY <2>1, <2>3, <3>1, Zenon DEF DigestDue, OwnOK
  <2> QED BY <2>2, <2>3
<1>8. e.hello => f.hello
  <2>1. e.heard \subseteq f.heard /\ f.heard \in SUBSET AllParts
    BY <1>1 DEF Learns, Linked, Heard
  <2>2. e.heard = AllParts => f.heard = AllParts
    BY <2>1
  <2> QED BY <1>1, <1>2, <2>2, Zenon DEF HeardAll
<1>9. f.digest => f.hello
  <2>1. f.digest => e.hello
    BY <1>3, Zenon DEF GivesDigest, DigestDue, OwnOK
  <2> QED BY <1>8, <2>1
<1>10. f.hello => f.known
  BY <1>1, <1>2, Zenon DEF Learns, HeardAll, OwnOK
<1> QED BY <1>1, <1>3, <1>4, <1>6, <1>7, <1>8, <1>9, <1>10, Zenon DEF OwnOK

LEMMA PollSelf ==
    ASSUME Limits, NEW e, NEW g \in Linked, NEW w, NEW v \in Seq(Signal), NEW q,
           NEW a \in Nat, NEW t \in Nat, EndOK(e, g, w, v, FALSE, q, a, t),
           NEW f, NEW o, Polls(e, w, f, o)
    PROVE  EndOK(f, g, <<>>, v \o o, TRUE, q, a, t)
<1>1. /\ OwnOK(e, FALSE) /\ HearsOK(e, g, w) /\ PatienceOK(e, g, w, FALSE, a, t)
      /\ AgesOK(e, g, w, v, FALSE, q, t)
  BY DEF EndOK
<1>2. /\ f \in Linked /\ HeardAll(f) /\ o \in Seq(Signal)
      /\ Course(e, f, o) /\ Learns(e, w, f) /\ Answers(e, w, o)
  BY DEF Polls
<1>3. OwnOK(f, TRUE) /\ (e.hello => f.hello)
  BY <1>1, PollOwn
<1>4. e \in Linked /\ OnCourse(e) /\ HeardAll(e)
  BY <1>1 DEF OwnOK
<1>5. /\ Age(f, TRUE) = Age(e, FALSE) /\ Age(e, FALSE) \in Int /\ Age(g, q) \in Int
  BY <1>2, <1>4, PollKeepsAge, AgeIsNumber
<1>6. HearsOK(f, g, <<>>)
  <2>1. <<>> \in Seq(Signal)
    BY EmptySeq
  <2>2. f.known \/ (g.part = 0 /\ ~g.said)
    BY <1>1, <1>2, Zenon DEF HearsOK, Learns
  <2>3. ASSUME NEW k \in AllParts, ~Early(g) \/ k < g.part PROVE k \in f.heard
    <3>1. k \in e.heard \/ Told(k, w)
      BY <1>1, <2>3, Zenon DEF HearsOK
    <3>2. e.heard \subseteq f.heard /\ (Told(k, w) => k \in f.heard)
      BY <1>2, Zenon DEF Learns
    <3> QED BY <3>1, <3>2
  <2> QED BY <2>1, <2>2, <2>3, Zenon DEF HearsOK
<1>7. PatienceOK(f, g, <<>>, TRUE, a, t)
  <2>1. f.quiet <= a + (Interval + 1) * t + g.beat
    <3>1. CASE w = <<>>
      <4>1. f.quiet = e.quiet
        BY <1>2, <3>1, Zenon DEF Learns
      <4>2. e.quiet <= a + (Interval + 1) * t + g.beat
        BY <1>1, <3>1, Zenon DEF PatienceOK
      <4> QED BY <4>1, <4>2, Zenon
    <3>2. CASE w # <<>>
      <4>1. f.quiet = 0
        BY <1>2, <3>2, Zenon DEF Learns
      <4>2. (Interval + 1) * t \in Nat /\ g.beat \in Nat
        BY TroubleGrows, LinkedFacts
      <4> QED BY <4>1, <4>2
    <3> QED BY <3>1, <3>2
  <2> QED BY <2>1, Zenon DEF PatienceOK
<1>8. ~Early(g) => f.hello
  <2>1. ASSUME ~Early(g) PROVE f.hello
    <3>1. \A k \in AllParts : k \in f.heard
      BY <1>6, <2>1, NothingCarried, Zenon DEF HearsOK
    <3>2. f.heard \in SUBSET AllParts
      BY <1>2 DEF Linked, Heard
    <3>3. f.heard = AllParts
      BY <3>1, <3>2
    <3> QED BY <1>2, <3>3, Zenon DEF HeardAll
  <2> QED BY <2>1
<1>9. PICK x : x = Age(e, FALSE)
  OBVIOUS
<1>10. PICK y : y = (RetryTicks + 3) * t
  OBVIOUS
<1>11. /\ x \in Int /\ y \in Nat /\ t <= y /\ BaseParts \in Nat /\ Late(q) \in 0..1
       /\ e.digest_in \in Nat
  <2>1. x \in Int
    BY <1>5, <1>9, Zenon
  <2> QED BY <1>4, <1>10, <2>1, TroubleGrows, LinkedFacts, LateFacts
<1>12. ASSUME f.hello, ~f.digest PROVE x <= BaseParts + t
  <2>1. ~DigestDue(e) /\ ~e.digest
    BY <1>2, <1>12, Zenon DEF Course, GivesDigest
  <2>2. ~e.hello
    BY <1>1, <2>1, Zenon DEF DigestDue, OwnOK
  <2>3. CASE Early(g)
    <3>1. PICK b : b = Age(g, q)
      OBVIOUS
    <3>2. x <= b + t
      BY <1>1, <1>9, <2>3, <3>1, Zenon DEF AgesOK
    <3>3. b \in Int /\ b <= BaseParts - 1
      BY <1>5, <2>3, <3>1, EarlyAge, Zenon
    <3> QED BY <1>11, <3>2, <3>3
  <2>4. CASE ~Early(g)
    <3>1. x <= BaseParts - 1 + t + Late(FALSE)
      BY <1>1, <1>9, <2>2, <2>4, Zenon DEF AgesOK
    <3>2. x <= BaseParts - 1 + t + 1
      BY <3>1, LateFacts, Zenon
    <3> QED BY <1>11, <3>2
  <2> QED BY <2>3, <2>4
<1>13. ASSUME f.digest, ~f.acked
       PROVE  x <= y + Room(f, <<>>, v \o o, TRUE, q)
  <2>1. ~e.acked /\ ~Carries("digest_ack", w)
    BY <1>2, <1>13, Zenon DEF Learns
  <2>2. Room(f, <<>>, v \o o, TRUE, q) = IF Carries("digest", v \o o) THEN BaseParts + 1 + Late(q)
                                         ELSE BaseParts - f.digest_in
    BY NothingCarried, Zenon DEF Room
  <2>3. \A k : Carries(k, v \o o) <=> Carries(k, v) \/ Carries(k, o)
    BY <1>2, JoinedSignals
  <2>4. PICK l \in 0..1 : l = Late(q)
    BY <1>11
  <2>5. ASSUME e.digest
        PROVE x <= y + (IF Carries("digest", v) THEN BaseParts + 1 + l ELSE BaseParts - e.digest_in)
    BY <1>1, <1>9, <1>10, <2>1, <2>4, <2>5, Zenon DEF AgesOK, Room
  <2>6. CASE DigestDue(e)
    <3>1. Room(f, <<>>, v \o o, TRUE, q) = BaseParts + 1 + l
      BY <1>2, <2>2, <2>3, <2>4, <2>6, Zenon DEF Answers
    <3>2. x <= y + (BaseParts + 1 + l)
      <4>1. CASE e.digest
        <5>1. \/ x <= y + (BaseParts + 1 + l)
              \/ x <= y + (BaseParts - e.digest_in)
          BY <2>5, <4>1, Zenon
        <5> QED BY <1>11, <2>4, <5>1
      <4>2. CASE ~e.digest
        <5>1. e.hello
          BY <2>6 DEF DigestDue
        <5>2. x <= BaseParts + t + Late(FALSE)
          BY <1>1, <1>9, <4>2, <5>1, Zenon DEF AgesOK
        <5>3. x <= BaseParts + t + 1
          BY <5>2, LateFacts, Zenon
        <5> QED BY <1>11, <2>4, <5>3
      <4> QED BY <4>1, <4>2
    <3> QED BY <3>1, <3>2, Zenon
  <2>7. CASE ~DigestDue(e)
    <3>1. e.digest /\ f.digest_in = e.digest_in
      BY <1>2, <1>13, <2>7, Zenon DEF Course, GivesDigest
    <3>2. CASE Carries("digest", v)
      <4>1. Room(f, <<>>, v \o o, TRUE, q) = BaseParts + 1 + l
        BY <2>2, <2>3, <2>4, <3>2, Zenon
      <4>2. x <= y + (BaseParts + 1 + l)
        BY <2>5, <3>1, <3>2, Zenon
      <4> QED BY <4>1, <4>2, Zenon
    <3>3. CASE ~Carries("digest", v)
      <4>1. x <= y + (BaseParts - e.digest_in)
        BY <2>5, <3>1, <3>3, Zenon
      <4>2. \/ Room(f, <<>>, v \o o, TRUE, q) = BaseParts + 1 + l
            \/ Room(f, <<>>, v \o o, TRUE, q) = BaseParts - e.digest_in
        BY <2>2, <2>4, <3>1, Zenon
      <4>3. x <= y + (BaseParts + 1 + l)
        BY <1>11, <2>4, <4>1
      <4> QED BY <4>1, <4>2, <4>3, Zenon
    <3> QED BY <3>2, <3>3
  <2> QED BY <2>6, <2>7
<1>14. AgesOK(f, g, <<>>, v \o o, TRUE, q, t)
  <2>1. Early(g) => Age(f, TRUE) <= Age(g, q) + t
    BY <1>1, <1>5, Zenon DEF AgesOK
  <2>2. f.hello /\ ~f.digest => Age(f, TRUE) <= BaseParts + t + Late(TRUE)
    <3>1. BaseParts + t = BaseParts + t + 0
      BY <1>11
    <3> QED BY <1>5, <1>9, <1>12, <3>1, LateFacts, Zenon
  <2>3. f.digest /\ ~f.acked =>
           Age(f, TRUE) <= (RetryTicks + 3) * t + Room(f, <<>>, v \o o, TRUE, q)
    BY <1>5, <1>9, <1>10, <1>13, Zenon
  <2> QED BY <1>8, <2>1, <2>2, <2>3, Zenon DEF AgesOK
<1> QED BY <1>3, <1>6, <1>7, <1>14, Zenon DEF EndOK

\* How an early hello goes on: by the next part.
LEMMA EarlyGoesOn ==
    ASSUME Limits, NEW e \in Linked, NEW f \in Linked, NEW o, OnCourse(e), Course(e, f, o)
    PROVE  /\ Early(f) => Early(e)
           /\ Early(e) => /\ f.part = e.part + 1 /\ SaysNow(e) = e.part /\ Says(e)
                          /\ ~Early(f) => e.part + 1 = BaseParts
<1>1. Early(f) => Early(e)
  BY PollKeepsAge
<1>2. ASSUME Early(e)
      PROVE  /\ f.part = e.part + 1 /\ SaysNow(e) = e.part /\ Says(e)
             /\ ~Early(f) => e.part + 1 = BaseParts
  <2>1. e.retries = 0 /\ ~e.said /\ e.part < BaseParts /\ e.part \in Nat /\ BaseParts \in Nat
    BY <1>2, LinkedFacts DEF Early
  <2>2. e.part # BaseParts
    BY <2>1
  <2>3. f.retries = 0 /\ f.part = e.part + 1 /\ ~f.said
    BY <2>1, <2>2, Zenon DEF Course, GoesOn
  <2>4. SaysNow(e) = e.part /\ Says(e)
    BY <2>1, Zenon DEF SaysNow, Says, Again
  <2>5. ~Early(f) => ~(f.part < BaseParts)
    BY <2>3, Zenon DEF Early
  <2> QED BY <2>1, <2>3, <2>4, <2>5
<1> QED BY <1>1, <1>2

LEMMA PollPeer ==
    ASSUME Limits, NEW e, NEW g, NEW w, NEW v, NEW q,
           NEW a \in Nat, NEW t \in Nat, EndOK(e, g, w, v, FALSE, q, a, t),
           EndOK(g, e, v, w, q, FALSE, a, t), NEW f, NEW o, Polls(e, w, f, o)
    PROVE  EndOK(g, f, v \o o, <<>>, q, TRUE, a, t)
<1>1. /\ OwnOK(g, q) /\ HearsOK(g, e, v) /\ PatienceOK(g, e, v, q, a, t)
      /\ AgesOK(g, e, v, w, q, FALSE, t)
  BY DEF EndOK
<1>2. /\ f \in Linked /\ HeardAll(f) /\ o \in Seq(Signal)
      /\ Course(e, f, o) /\ Learns(e, w, f) /\ Answers(e, w, o)
  BY DEF Polls
<1>3. e \in Linked /\ OnCourse(e) /\ g \in Linked /\ v \in Seq(Signal)
  BY <1>1 DEF EndOK, OwnOK, HearsOK
<1>4. /\ Age(f, TRUE) = Age(e, FALSE) /\ Age(e, FALSE) \in Int /\ Age(g, q) \in Int
  BY <1>2, <1>3, PollKeepsAge, AgeIsNumber
<1>5. /\ Early(f) => Early(e)
      /\ Early(e) => /\ f.part = e.part + 1 /\ SaysNow(e) = e.part /\ Says(e)
                     /\ ~Early(f) => e.part + 1 = BaseParts
  BY <1>2, <1>3, EarlyGoesOn
<1>6. /\ v \o o \in Seq(Signal)
      /\ \A k : Carries(k, v \o o) <=> Carries(k, v) \/ Carries(k, o)
      /\ \A k : Told(k, v \o o) <=> Told(k, v) \/ Told(k, o)
      /\ v # <<>> => v \o o # <<>> /\ (v \o o)[1] = v[1]
      /\ o # <<>> => v \o o # <<>>
      /\ v = <<>> => v \o o = o
      /\ o = <<>> => v \o o = v
  BY <1>2, <1>3, JoinedSignals
<1>7. HearsOK(g, f, v \o o)
  <2>1. \/ g.known
        \/ v \o o # <<>> /\ (v \o o)[1].kind = "hello"
    <3>1. CASE g.known
      BY <3>1
    <3>2. CASE v = <<>> /\ e.part = 0 /\ ~e.said
      BY <1>2, <1>6, <3>2, Zenon DEF Answers, Says
    <3>3. CASE v # <<>> /\ v[1].kind = "hello"
      BY <1>6, <3>3, Zenon
    <3> QED BY <1>1, <3>1, <3>2, <3>3 DEF HearsOK
  <2>2. ASSUME NEW k \in AllParts, ~Early(f) \/ k < f.part
        PROVE  k \in g.heard \/ Told(k, v \o o)
    <3>1. CASE ~Early(e)
      BY <1>1, <1>6, <3>1, Zenon DEF HearsOK
    <3>2. CASE Early(e)
      <4>1. k \in Nat /\ e.part \in Nat /\ k < BaseParts /\ BaseParts \in Nat
        BY <1>3, LinkedFacts DEF AllParts
      <4>2. k < e.part \/ k = e.part
        BY <1>5, <2>2, <3>2, <4>1
      <4>3. CASE k < e.part
        BY <1>1, <1>6, <4>3, Zenon DEF HearsOK
      <4>4. CASE k = e.part
        BY <1>2, <1>5, <1>6, <3>2, <4>4, Zenon DEF Answers
      <4> QED BY <4>2, <4>3, <4>4
    <3> QED BY <3>1, <3>2
  <2> QED BY <1>6, <2>1, <2>2, Zenon DEF HearsOK
<1>8. PatienceOK(g, f, v \o o, q, a, t)
  <2>0. PICK z : z = (Interval + 1) * t
    OBVIOUS
  <2>1. PICK l : l = Late(q)
    OBVIOUS
  <2>2. /\ z \in Nat /\ l \in 0..1 /\ e.beat \in Nat /\ e.beat <= Interval
        /\ Interval \in Nat /\ g.quiet \in Nat
    BY <1>3, <2>0, <2>1, TroubleGrows, LinkedFacts, LateFacts
  <2>3. CASE v \o o = <<>>
    <3>1. v = <<>> /\ o = <<>>
      BY <1>6, <2>3, Zenon
    <3>2. f.beat = e.beat
      BY <1>2, <3>1, Zenon DEF Course
    <3>3. g.quiet <= a + (Interval + 1) * t + e.beat
      BY <1>1, <3>1, Zenon DEF PatienceOK
    <3> QED BY <2>3, <3>2, <3>3, Zenon DEF PatienceOK
  <2>4. CASE v \o o # <<>>
    <3>1. g.quiet <= a + z + (Interval + l)
      <4>1. \/ g.quiet <= a + z + e.beat
            \/ g.quiet <= a + z + (Interval + l)
        BY <1>1, <2>0, <2>1, Zenon DEF PatienceOK
      <4> QED BY <2>2, <4>1
    <3> QED BY <2>0, <2>1, <2>4, <3>1, Zenon DEF PatienceOK
  <2> QED BY <2>3, <2>4
<1>9. PICK x : x = Age(g, q)
  OBVIOUS
<1>10. PICK y : y = (RetryTicks + 3) * t
  OBVIOUS
<1>11. PICK l \in 0..1 : l = Late(q)
  BY LateFacts
<1>12. /\ x \in Int /\ y \in Nat /\ t <= y /\ BaseParts \in Nat /\ RetryTicks \in Nat
       /\ g.digest_in \in Nat
  <2>1. x \in Int
    BY <1>4, <1>9, Zenon
  <2> QED BY <1>3, <1>10, <2>1, TroubleGrows, LinkedFacts
<1>13. ASSUME ~Early(f), ~g.hello PROVE x <= BaseParts - 1 + t + l
  <2>1. CASE ~Early(e)
    BY <1>1, <1>9, <1>11, <1>13, <2>1, Zenon DEF AgesOK
  <2>2. CASE Early(e)
    <3>1. PICK b : b = Age(e, FALSE)
      OBVIOUS
    <3>2. x <= b + t
      BY <1>1, <1>9, <2>2, <3>1, Zenon DEF AgesOK
    <3>3. b \in Int /\ b <= BaseParts - 1
      BY <1>3, <1>4, <2>2, <3>1, EarlyAge, Zenon
    <3> QED BY <1>11, <1>12, <3>2, <3>3
  <2> QED BY <2>1, <2>2
<1>14. ASSUME g.digest, ~g.acked
       PROVE  x <= y + Room(g, v \o o, <<>>, q, TRUE)
  <2>1. Room(g, v \o o, <<>>, q, TRUE) = IF Carries("digest_ack", v \o o) THEN BaseParts + 2 + l
                                         ELSE BaseParts - g.digest_in
    BY <1>11, NothingCarried, Zenon DEF Room
  <2>2. x <= y + (IF Carries("digest_ack", v) THEN BaseParts + 2 + l
                  ELSE IF Carries("digest", w) THEN BaseParts + 1 + 1
                  ELSE BaseParts - g.digest_in)
    BY <1>1, <1>9, <1>10, <1>11, <1>14, LateFacts, Zenon DEF AgesOK, Room
  <2>3. \/ x <= y + (BaseParts + 2 + l)
        \/ x <= y + (BaseParts + 1 + 1)
        \/ x <= y + (BaseParts - g.digest_in)
    BY <2>2, Zenon
  <2>4. x <= y + (BaseParts + 2 + l)
    BY <1>11, <1>12, <2>3
  <2>5. CASE Carries("digest_ack", v \o o)
    BY <2>1, <2>4, <2>5, Zenon
  <2>6. CASE ~Carries("digest_ack", v \o o)
    <3>1. ~Carries("digest_ack", v) /\ ~Carries("digest", w)
      BY <1>2, <1>6, <2>6, Zenon DEF Answers
    <3> QED BY <2>1, <2>2, <2>6, <3>1, Zenon
  <2> QED BY <2>5, <2>6
<1>15. AgesOK(g, f, v \o o, <<>>, q, TRUE, t)
  <2>1. Early(f) => Age(g, q) <= Age(f, TRUE) + t
    BY <1>1, <1>4, <1>5, Zenon DEF AgesOK
  <2>2. ~Early(f) /\ ~g.hello => Age(g, q) <= BaseParts - 1 + t + Late(q)
    BY <1>9, <1>11, <1>13, Zenon
  <2>3. g.hello /\ ~g.digest => Age(g, q) <= BaseParts + t + Late(q)
    BY <1>1, Zenon DEF AgesOK
  <2>4. g.digest /\ ~g.acked =>
           Age(g, q) <= (RetryTicks + 3) * t + Room(g, v \o o, <<>>, q, TRUE)
    BY <1>9, <1>10, <1>14, Zenon
  <2> QED BY <2>1, <2>2, <2>3, <2>4, Zenon DEF AgesOK
<1> QED BY <1>1, <1>7, <1>8, <1>15, Zenon DEF EndOK

-----------------------------------------------------------------------------
\* What the passing of a tick leaves alone.
SameState(e, f) ==
    /\ f.channel = e.channel /\ f.part = e.part /\ f.said = e.said /\ f.retries = e.retries
    /\ f.known = e.known /\ f.heard = e.heard /\ f.hello = e.hello
    /\ f.compatible = e.compatible /\ f.digest = e.digest /\ f.acked = e.acked

TimersPass(e, f) ==
    /\ f.hello_in = Down(e.hello_in) /\ f.digest_in = Down(e.digest_in)
    /\ f.quiet = Up(e.quiet, Silence) /\ f.beat = Up(e.beat, Interval)

LEMMA PassedFacts ==
    ASSUME Limits, NEW e \in Linked, NEW f, f = Passed(e)
    PROVE  /\ f \in Linked /\ SameState(e, f) /\ f.suspended = e.suspended
           /\ TimersPass(e, f)
<1>1. PICK i : i = Down(e.hello_in)
  OBVIOUS
<1>2. PICK j : j = Down(e.digest_in)
  OBVIOUS
<1>3. PICK k : k = Up(e.quiet, Silence)
  OBVIOUS
<1>4. PICK l : l = Up(e.beat, Interval)
  OBVIOUS
<1>5. f = [e EXCEPT !.hello_in = i, !.digest_in = j, !.quiet = k, !.beat = l]
  <2>1. f = [e EXCEPT !.hello_in = Down(e.hello_in), !.digest_in = Down(e.digest_in),
                      !.quiet = Up(e.quiet, Silence), !.beat = Up(e.beat, Interval)]
    BY DEF Passed, Linked
  <2> QED BY <1>1, <1>2, <1>3, <1>4, <2>1, Zenon
<1>6. i \in Pauses /\ j \in Pauses /\ k \in Quiets /\ l \in Beats
  <2>1. /\ i \in 0..RetryTicks /\ j \in 0..RetryTicks
    BY <1>1, <1>2, LinkedFacts DEF Down
  <2>2. k \in 0..Silence
    <3>1. Silence \in Nat
      BY DEF Limits
    <3> QED BY <1>3, <3>1, LinkedFacts DEF Up
  <2>3. l \in 0..Interval
    BY <1>4, LinkedFacts DEF Up
  <2> QED BY <2>1, <2>2, <2>3 DEF Pauses, Quiets, Beats
<1>7. f \in Linked
  BY <1>5, <1>6 DEF Linked
<1>8. f.hello_in = i /\ f.digest_in = j /\ f.quiet = k /\ f.beat = l
  BY <1>5 DEF Linked
<1>9. SameState(e, f) /\ f.suspended = e.suspended
  BY <1>5 DEF Linked, SameState
<1> QED BY <1>1, <1>2, <1>3, <1>4, <1>7, <1>8, <1>9, Zenon DEF TimersPass

LEMMA PassedAge ==
    ASSUME Limits, NEW e \in Linked, NEW f \in Linked, SameState(e, f), TimersPass(e, f),
           NEW p \in BOOLEAN
    PROVE  /\ Age(f, FALSE) <= Age(e, p) + 1
           /\ Early(f) <=> Early(e)
           /\ Early(e) => Age(f, FALSE) = Age(e, p) + (1 - Late(p))
<1>1. f.part = e.part /\ f.said = e.said /\ f.retries = e.retries
      /\ f.hello_in = Down(e.hello_in)
  BY DEF SameState, TimersPass
<1>2. PICK x : x = e.retries * Round
  OBVIOUS
<1>3. x \in Nat /\ e.part \in Nat /\ e.hello_in \in Nat /\ BaseParts \in Nat /\ RetryTicks \in Nat
  <2>1. e.retries \in Nat /\ Round \in Nat
    BY LinkedFacts
  <2>2. x \in Nat
    BY <1>2, <2>1
  <2> QED BY <2>2, LinkedFacts
<1>4. Early(f) <=> Early(e)
  BY <1>1, Zenon DEF Early
<1>5. ASSUME e.said PROVE Age(f, FALSE) <= Age(e, p) + 1
  <2>1. /\ Age(e, p) = x + (BaseParts + RetryTicks - e.hello_in)
        /\ Age(f, FALSE) = x + (BaseParts + RetryTicks - Down(e.hello_in))
    BY <1>1, <1>2, <1>5, Zenon DEF Age
  <2>2. x + (BaseParts + RetryTicks - Down(e.hello_in)) <= x + (BaseParts + RetryTicks - e.hello_in) + 1
    BY <1>3 DEF Down
  <2> QED BY <2>1, <2>2, Zenon
<1>6. ASSUME ~e.said
      PROVE  Age(f, FALSE) = x + e.part /\ Age(e, p) = x + (IF p THEN e.part - 1 ELSE e.part)
  BY <1>1, <1>2, <1>6, Zenon DEF Age
<1>7. ASSUME ~e.said
      PROVE  /\ x + e.part <= x + (IF p THEN e.part - 1 ELSE e.part) + 1
             /\ x + e.part = x + (IF p THEN e.part - 1 ELSE e.part) + (1 - Late(p))
  BY <1>3 DEF Late
<1>8. Age(f, FALSE) <= Age(e, p) + 1
  <2>1. CASE e.said
    BY <1>5, <2>1
  <2>2. CASE ~e.said
    BY <1>6, <1>7, <2>2, Zenon
  <2> QED BY <2>1, <2>2
<1>9. ASSUME Early(e) PROVE Age(f, FALSE) = Age(e, p) + (1 - Late(p))
  <2>1. ~e.said
    BY <1>9 DEF Early
  <2> QED BY <1>6, <1>7, <2>1, Zenon
<1> QED BY <1>4, <1>8, <1>9

LEMMA OwnLasts ==
    ASSUME Limits, NEW e, NEW f \in Linked, NEW p, OwnOK(e, p), SameState(e, f),
           f.digest_in = e.digest_in \/ f.digest_in = Down(e.digest_in)
    PROVE  OwnOK(f, FALSE)
<1>1. /\ e.channel # "closed" /\ e.compatible /\ HeardAll(e) /\ OnCourse(e)
      /\ ~e.digest => e.digest_in = 0
      /\ e.digest => e.hello
      /\ e.hello => e.known
  BY DEF OwnOK
<1>2. f.channel # "closed" /\ f.compatible /\ HeardAll(f) /\ OnCourse(f)
  BY <1>1, Zenon DEF SameState, HeardAll, OnCourse
<1>3. Down(0) = 0
  BY DEF Down
<1>4. ~f.digest => f.digest_in = 0
  BY <1>1, <1>3, Zenon DEF SameState
<1>5. (f.digest => f.hello) /\ (f.hello => f.known)
  BY <1>1, Zenon DEF SameState
<1> QED BY <1>2, <1>4, <1>5, Zenon DEF OwnOK

LEMMA TickEnd ==
    ASSUME Limits, NEW e, NEW g \in Linked, NEW w, NEW v, NEW p \in BOOLEAN, NEW q \in BOOLEAN,
           NEW a \in Nat, NEW t \in Nat, NEW u, EndOK(e, g, w, v, p, q, a, t),
           OwnOK(g, q), NEW f, f = Passed(e), NEW h, h = Passed(g),
           u = t + 1 \/ (u = t /\ p /\ q)
    PROVE  EndOK(f, h, w, v, FALSE, FALSE, a, u)
<1>1. /\ OwnOK(e, p) /\ HearsOK(e, g, w) /\ PatienceOK(e, g, w, p, a, t)
      /\ AgesOK(e, g, w, v, p, q, t)
  BY DEF EndOK
<1>2. e \in Linked
  BY <1>1 DEF OwnOK
<1>3. /\ f \in Linked /\ SameState(e, f) /\ TimersPass(e, f)
      /\ h \in Linked /\ SameState(g, h) /\ TimersPass(g, h)
  BY <1>2, PassedFacts
<1>4. /\ Age(f, FALSE) <= Age(e, p) + 1
      /\ (Early(h) <=> Early(g))
      /\ Early(g) => Age(h, FALSE) = Age(g, q) + (1 - Late(q))
  BY <1>2, <1>3, PassedAge
<1>5. Age(f, FALSE) \in Int /\ Age(e, p) \in Int /\ Age(g, q) \in Int
  BY <1>2, <1>3, AgeIsNumber
<1>6. OwnOK(f, FALSE)
  BY <1>1, <1>3, OwnLasts DEF TimersPass
<1>7. HearsOK(f, h, w)
  <2>1. f.known = e.known /\ f.heard = e.heard /\ h.part = g.part /\ h.said = g.said
    BY <1>3 DEF SameState
  <2> QED BY <1>1, <1>4, <2>1, Zenon DEF HearsOK
<1>8. PICK l \in 0..1 : l = Late(p)
  BY LateFacts
<1>9. PICK m \in 0..1 : m = Late(q)
  BY LateFacts
<1>10. /\ u \in Nat /\ t + l <= u /\ t + m <= u
       /\ p \/ u = t + 1
       /\ q \/ u = t + 1
       /\ l = 0 <=> p
       /\ m = 0 <=> q
  BY <1>8, <1>9 DEF Late
<1>11. PatienceOK(f, h, w, FALSE, a, u)
  <2>1. PICK z : z = (Interval + 1) * t
    OBVIOUS
  <2>2. PICK y : y = (Interval + 1) * u
    OBVIOUS
  <2>3. /\ z \in Nat /\ y \in Nat
        /\ u = t => y = z
        /\ u = t + 1 => y = z + (Interval + 1)
    <3>1. /\ (Interval + 1) * t \in Nat
          /\ (Interval + 1) * (t + 1) = (Interval + 1) * t + (Interval + 1)
      BY TroubleGrows
    <3>2. (Interval + 1) * u \in Nat
      BY <1>10, TroubleGrows
    <3> QED BY <2>1, <2>2, <3>1, <3>2, Zenon
  <2>4. /\ e.quiet \in Nat /\ g.beat \in Nat /\ g.beat <= Interval /\ Interval \in Nat
        /\ h.beat \in Nat
    BY <1>2, <1>3, LinkedFacts
  <2>5. f.quiet <= e.quiet + 1 /\ f.quiet \in Nat
    <3>1. Silence \in Nat
      BY DEF Limits
    <3>2. f.quiet = Up(e.quiet, Silence)
      BY <1>3 DEF TimersPass
    <3> QED BY <2>4, <3>1, <3>2 DEF Up
  <2>6. h.beat = g.beat + 1 \/ (g.beat = Interval /\ ~q /\ h.beat = g.beat)
    <3>1. h.beat = Up(g.beat, Interval)
      BY <1>3 DEF TimersPass
    <3>2. q => g.beat # Interval
      BY DEF OwnOK
    <3> QED BY <2>4, <3>1, <3>2 DEF Up
  <2>7. CASE w = <<>>
    <3>1. e.quiet <= a + z + g.beat
      BY <1>1, <2>1, <2>7, Zenon DEF PatienceOK
    <3>2. f.quiet <= a + y + h.beat
      BY <1>10, <2>3, <2>4, <2>5, <2>6, <3>1, SMTT(40)
    <3> QED BY <2>2, <2>7, <3>2, Zenon DEF PatienceOK
  <2>8. CASE w # <<>>
    <3>1. e.quiet <= a + z + (Interval + l)
      BY <1>1, <1>8, <2>1, <2>8, Zenon DEF PatienceOK
    <3>2. f.quiet <= a + y + (Interval + 1)
      BY <1>10, <2>3, <2>4, <2>5, <3>1
    <3> QED BY <2>2, <2>8, <3>2, LateFacts, Zenon DEF PatienceOK
  <2> QED BY <2>7, <2>8
<1>12. PICK x : x = Age(e, p)
  OBVIOUS
<1>13. PICK y : y = (RetryTicks + 3) * t
  OBVIOUS
<1>14. PICK z : z = (RetryTicks + 3) * u
  OBVIOUS
<1>15. PICK x1 : x1 = Age(f, FALSE)
  OBVIOUS
<1>16. /\ x \in Int /\ x1 \in Int /\ x1 <= x + 1 /\ y \in Nat /\ z \in Nat
       /\ u = t => z = y
       /\ u = t + 1 => z >= y + 1
       /\ BaseParts \in Nat /\ e.digest_in \in Nat
  <2>1. x \in Int /\ x1 \in Int /\ x1 <= x + 1
    BY <1>4, <1>5, <1>12, <1>15, Zenon
  <2>2. /\ (RetryTicks + 3) * t \in Nat
        /\ (RetryTicks + 3) * (t + 1) = (RetryTicks + 3) * t + (RetryTicks + 3)
    BY TroubleGrows
  <2>3. (RetryTicks + 3) * u \in Nat
    BY <1>10, TroubleGrows
  <2>4. /\ y \in Nat /\ z \in Nat
        /\ u = t => z = y
        /\ u = t + 1 => z = y + (RetryTicks + 3)
    BY <1>13, <1>14, <2>2, <2>3, Zenon
  <2> QED BY <1>2, <2>1, <2>4, LinkedFacts
<1>17. ASSUME Early(h) PROVE x1 <= Age(h, FALSE) + u
  <2>1. PICK b : b = Age(g, q)
    OBVIOUS
  <2>2. b \in Int /\ x <= b + t /\ Age(h, FALSE) = b + (1 - m)
    BY <1>1, <1>4, <1>5, <1>9, <1>12, <1>17, <2>1, Zenon DEF AgesOK
  <2>3. x1 <= b + (1 - m) + u
    BY <1>10, <1>16, <2>2
  <2> QED BY <2>2, <2>3, Zenon
<1>18. ASSUME ~Early(h), ~f.hello PROVE x1 <= BaseParts - 1 + u + 1
  <2>1. x <= BaseParts - 1 + t + l
    BY <1>1, <1>3, <1>4, <1>8, <1>12, <1>18, Zenon DEF AgesOK, SameState
  <2> QED BY <1>10, <1>16, <2>1
<1>19. ASSUME f.hello, ~f.digest PROVE x1 <= BaseParts + u + 1
  <2>1. x <= BaseParts + t + l
    BY <1>1, <1>3, <1>8, <1>12, <1>19, Zenon DEF AgesOK, SameState
  <2> QED BY <1>10, <1>16, <2>1
<1>20. ASSUME f.digest, ~f.acked PROVE x1 <= z + Room(f, w, v, FALSE, FALSE)
  <2>1. e.digest /\ ~e.acked
    BY <1>3, <1>20, Zenon DEF SameState
  <2>2. x <= y + (IF Carries("digest_ack", w) THEN BaseParts + 2 + l
                  ELSE IF Carries("digest", v) THEN BaseParts + 1 + m
                  ELSE BaseParts - e.digest_in)
    BY <1>1, <1>8, <1>9, <1>12, <1>13, <2>1, Zenon DEF AgesOK, Room
  <2>3. Room(f, w, v, FALSE, FALSE) =
           IF Carries("digest_ack", w) THEN BaseParts + 2 + 1
           ELSE IF Carries("digest", v) THEN BaseParts + 1 + 1
           ELSE BaseParts - f.digest_in
    BY LateFacts, Zenon DEF Room
  <2>4. CASE Carries("digest_ack", w)
    <3>1. x <= y + (BaseParts + 2 + l)
      BY <2>2, <2>4, Zenon
    <3>2. x1 <= z + (BaseParts + 2 + 1)
      BY <1>10, <1>16, <3>1
    <3> QED BY <2>3, <2>4, <3>2, Zenon
  <2>5. CASE ~Carries("digest_ack", w) /\ Carries("digest", v)
    <3>1. x <= y + (BaseParts + 1 + m)
      BY <2>2, <2>5, Zenon
    <3>2. x1 <= z + (BaseParts + 1 + 1)
      BY <1>10, <1>16, <3>1
    <3> QED BY <2>3, <2>5, <3>2, Zenon
  <2>6. CASE ~Carries("digest_ack", w) /\ ~Carries("digest", v)
    <3>1. x <= y + (BaseParts - e.digest_in)
      BY <2>2, <2>6, Zenon
    <3>2. f.digest_in = Down(e.digest_in)
      BY <1>3 DEF TimersPass
    <3>3. p => e.digest_in # 0
      BY <1>1, <2>1, Zenon DEF OwnOK
    <3>4. x1 <= z + (BaseParts - f.digest_in)
      BY <1>10, <1>16, <3>1, <3>2, <3>3, SMTT(40) DEF Down
    <3> QED BY <2>3, <2>6, <3>4, Zenon
  <2> QED BY <2>4, <2>5, <2>6
<1>21. AgesOK(f, h, w, v, FALSE, FALSE, u)
  BY <1>14, <1>15, <1>17, <1>18, <1>19, <1>20, LateFacts, Zenon DEF AgesOK
<1> QED BY <1>6, <1>7, <1>11, <1>21, Zenon DEF EndOK

-----------------------------------------------------------------------------
\* Before the connection nobody has said or heard anything.
Untouched(e) == e.retries = 0 /\ e.part = 0 /\ ~e.said /\ ~e.hello /\ ~e.suspended

LEMMA IdleAge ==
    ASSUME Limits, NEW e \in Linked, Untouched(e)
    PROVE  Age(e, FALSE) = 0 /\ Early(e)
<1>1. e.retries = 0 /\ e.part = 0 /\ ~e.said
  BY DEF Untouched
<1>2. Round \in Nat /\ 0 < BaseParts /\ 0 * Round + 0 = 0
  <2>1. Round \in Nat /\ 0 < BaseParts
    BY LinkedFacts
  <2> QED BY <2>1
<1>3. Age(e, FALSE) = 0 * Round + 0
  BY <1>1, Zenon DEF Age
<1> QED BY <1>1, <1>2, <1>3, Zenon DEF Early

LEMMA WaitEnd ==
    ASSUME Limits, NEW e, NEW g, NEW a \in Nat, NEW t \in Nat,
           EndOK(e, g, <<>>, <<>>, FALSE, FALSE, a, t), OwnOK(g, FALSE),
           Untouched(e), Untouched(g), NEW f, f = e \/ f = Passed(e), NEW h, h = g \/ h = Passed(g)
    PROVE  EndOK(f, h, <<>>, <<>>, FALSE, FALSE, a + 1, t) /\ Untouched(f)
<1>1. /\ OwnOK(e, FALSE) /\ HearsOK(e, g, <<>>) /\ PatienceOK(e, g, <<>>, FALSE, a, t)
  BY DEF EndOK
<1>2. e \in Linked /\ g \in Linked
  BY <1>1 DEF OwnOK
<1>3. /\ f \in Linked /\ SameState(e, f) /\ f.suspended = e.suspended
      /\ f.digest_in = e.digest_in \/ f.digest_in = Down(e.digest_in)
      /\ f.quiet = e.quiet \/ f.quiet = Up(e.quiet, Silence)
  <2>1. CASE f = e
    BY <1>2, <2>1, Zenon DEF SameState
  <2>2. CASE f = Passed(e)
    BY <1>2, <2>2, PassedFacts, Zenon DEF TimersPass
  <2> QED BY <2>1, <2>2
<1>4. h \in Linked /\ SameState(g, h) /\ (h.beat = g.beat \/ h.beat = Up(g.beat, Interval))
      /\ h.suspended = g.suspended
  <2>1. CASE h = g
    BY <1>2, <2>1, Zenon DEF SameState
  <2>2. CASE h = Passed(g)
    BY <1>2, <2>2, PassedFacts, Zenon DEF TimersPass
  <2> QED BY <2>1, <2>2
<1>5. OwnOK(f, FALSE)
  BY <1>1, <1>3, OwnLasts
<1>6. Untouched(f) /\ Untouched(h)
  BY <1>3, <1>4, Zenon DEF Untouched, SameState
<1>7. Age(f, FALSE) = 0 /\ Age(h, FALSE) = 0 /\ Early(h)
  BY <1>3, <1>4, <1>6, IdleAge
<1>8. HearsOK(f, h, <<>>)
  <2>1. h.part = 0 /\ ~h.said /\ <<>> \in Seq(Signal)
    BY <1>6, EmptySeq DEF Untouched
  <2>2. \A k \in AllParts : ~(k < h.part)
    BY <2>1 DEF AllParts, Limits
  <2> QED BY <1>7, <2>1, <2>2, Zenon DEF HearsOK
<1>9. PatienceOK(f, h, <<>>, FALSE, a + 1, t)
  <2>1. PICK z : z = (Interval + 1) * t
    OBVIOUS
  <2>2. e.quiet <= a + z + g.beat
    BY <1>1, <2>1, Zenon DEF PatienceOK
  <2>3. /\ z \in Nat /\ e.quiet \in Nat /\ g.beat \in Nat /\ Interval \in Nat
        /\ Silence \in Nat
    BY <1>2, <2>1, TroubleGrows, LinkedFacts DEF Limits
  <2>4. f.quiet <= e.quiet + 1 /\ f.quiet \in Nat /\ h.beat >= g.beat /\ h.beat \in Nat
    BY <1>3, <1>4, <2>3, LinkedFacts DEF Up
  <2>5. f.quiet <= a + 1 + z + h.beat
    BY <2>2, <2>3, <2>4
  <2> QED BY <2>1, <2>5, Zenon DEF PatienceOK
<1>10. AgesOK(f, h, <<>>, <<>>, FALSE, FALSE, t)
  <2>1. 0 <= 0 + t
    OBVIOUS
  <2>2. ~f.hello /\ ~f.digest
    BY <1>5, <1>6, Zenon DEF OwnOK, Untouched
  <2> QED BY <1>7, <2>1, <2>2, Zenon DEF AgesOK
<1> QED BY <1>5, <1>6, <1>8, <1>9, <1>10, Zenon DEF EndOK

-----------------------------------------------------------------------------
\* x is y, a packet poorer perhaps, but not a part of a hello.
Thinned(y, x) ==
    /\ x \in Seq(Signal)
    /\ y = <<>> => x = <<>>
    /\ y # <<>> /\ y[1].kind = "hello" => x # <<>> /\ x[1].kind = "hello"
    /\ \A k : Told(k, y) => Told(k, x)

LEMMA LoseEnd ==
    ASSUME Limits, NEW e, NEW g \in Linked, NEW w, NEW v, NEW p, NEW q,
           NEW a \in Nat, NEW t \in Nat, EndOK(e, g, w, v, p, q, a, t),
           NEW w2, Thinned(w, w2), NEW v2
    PROVE  EndOK(e, g, w2, v2, p, q, a, t + 1)
<1>1. /\ OwnOK(e, p) /\ HearsOK(e, g, w) /\ PatienceOK(e, g, w, p, a, t)
      /\ AgesOK(e, g, w, v, p, q, t)
  BY DEF EndOK
<1>2. e \in Linked
  BY <1>1 DEF OwnOK
<1>3. HearsOK(e, g, w2)
  BY <1>1, Zenon DEF HearsOK, Thinned
<1>4. PICK l \in 0..1 : l = Late(p)
  BY LateFacts
<1>5. PICK m \in 0..1 : m = Late(q)
  BY LateFacts
<1>6. PatienceOK(e, g, w2, p, a, t + 1)
  <2>1. PICK z : z = (Interval + 1) * t
    OBVIOUS
  <2>2. PICK y : y = (Interval + 1) * (t + 1)
    OBVIOUS
  <2>3. z \in Nat /\ y = z + (Interval + 1)
    BY <2>1, <2>2, TroubleGrows, Zenon
  <2>4. g.beat \in Nat /\ g.beat <= Interval /\ Interval \in Nat /\ e.quiet \in Nat
    BY <1>2, LinkedFacts
  <2>5. \/ e.quiet <= a + z + g.beat
        \/ e.quiet <= a + z + (Interval + l)
    BY <1>1, <1>4, <2>1, Zenon DEF PatienceOK
  <2>6. e.quiet <= a + y + g.beat /\ e.quiet <= a + y + (Interval + l)
    BY <1>4, <2>3, <2>4, <2>5
  <2> QED BY <1>4, <2>2, <2>6, Zenon DEF PatienceOK
<1>7. PICK x : x = Age(e, p)
  OBVIOUS
<1>8. PICK y : y = (RetryTicks + 3) * t
  OBVIOUS
<1>9. PICK z : z = (RetryTicks + 3) * (t + 1)
  OBVIOUS
<1>10. /\ x \in Int /\ y \in Nat /\ z = y + (RetryTicks + 3) /\ RetryTicks \in Nat /\ BaseParts \in Nat
       /\ e.digest_in \in Nat /\ e.digest_in <= RetryTicks
  <2>1. x \in Int
    BY <1>2, <1>7, AgeIsNumber, Zenon
  <2>2. y \in Nat /\ z = y + (RetryTicks + 3)
    BY <1>8, <1>9, TroubleGrows, Zenon
  <2> QED BY <1>2, <2>1, <2>2, LinkedFacts
<1>11. ASSUME Early(g) PROVE x <= Age(g, q) + (t + 1)
  <2>1. PICK b : b = Age(g, q)
    OBVIOUS
  <2>2. b \in Int /\ x <= b + t
    BY <1>1, <1>7, <1>11, <2>1, AgeIsNumber, Zenon DEF AgesOK
  <2>3. x <= b + (t + 1)
    BY <1>10, <2>2
  <2> QED BY <2>1, <2>3, Zenon
<1>12. ASSUME ~Early(g), ~e.hello PROVE x <= BaseParts - 1 + (t + 1) + l
  <2>1. x <= BaseParts - 1 + t + l
    BY <1>1, <1>4, <1>7, <1>12, Zenon DEF AgesOK
  <2> QED BY <1>4, <1>10, <2>1
<1>13. ASSUME e.hello, ~e.digest PROVE x <= BaseParts + (t + 1) + l
  <2>1. x <= BaseParts + t + l
    BY <1>1, <1>4, <1>7, <1>13, Zenon DEF AgesOK
  <2> QED BY <1>4, <1>10, <2>1
<1>14. ASSUME e.digest, ~e.acked PROVE x <= z + Room(e, w2, v2, p, q)
  <2>1. x <= y + Room(e, w, v, p, q)
    BY <1>1, <1>7, <1>8, <1>14, Zenon DEF AgesOK
  <2>2. \/ Room(e, w, v, p, q) = BaseParts + 2 + l
        \/ Room(e, w, v, p, q) = BaseParts + 1 + m
        \/ Room(e, w, v, p, q) = BaseParts - e.digest_in
    BY <1>4, <1>5, Zenon DEF Room
  <2>3. \/ Room(e, w2, v2, p, q) = BaseParts + 2 + l
        \/ Room(e, w2, v2, p, q) = BaseParts + 1 + m
        \/ Room(e, w2, v2, p, q) = BaseParts - e.digest_in
    BY <1>4, <1>5, Zenon DEF Room
  <2>4. x <= y + (BaseParts + 3)
    <3>1. \/ x <= y + (BaseParts + 2 + l)
          \/ x <= y + (BaseParts + 1 + m)
          \/ x <= y + (BaseParts - e.digest_in)
      BY <2>1, <2>2, Zenon
    <3> QED BY <1>4, <1>5, <1>10, <3>1
  <2>5. /\ x <= z + (BaseParts + 2 + l)
        /\ x <= z + (BaseParts + 1 + m)
        /\ x <= z + (BaseParts - e.digest_in)
    BY <1>4, <1>5, <1>10, <2>4, SMTT(40)
  <2> QED BY <2>3, <2>5, Zenon
<1>15. AgesOK(e, g, w2, v2, p, q, t + 1)
  BY <1>4, <1>7, <1>9, <1>11, <1>12, <1>13, <1>14, Zenon DEF AgesOK
<1> QED BY <1>1, <1>3, <1>6, <1>15, Zenon DEF EndOK

\* Falling asleep and waking up.
SameLink(e, f) ==
    SameState(e, f) /\ f.hello_in = e.hello_in /\ f.digest_in = e.digest_in
      /\ f.quiet = e.quiet /\ f.beat = e.beat

LEMMA SleepEnd ==
    ASSUME NEW e, NEW g, NEW w, NEW v, NEW p, NEW q, NEW a, NEW t,
           EndOK(e, g, w, v, p, q, a, t), NEW f \in Linked, SameLink(e, f),
           NEW h \in Linked, SameLink(g, h)
    PROVE  EndOK(f, h, w, v, p, q, a, t)
<1>1. /\ OwnOK(e, p) /\ HearsOK(e, g, w) /\ PatienceOK(e, g, w, p, a, t)
      /\ AgesOK(e, g, w, v, p, q, t)
  BY DEF EndOK
<1>2. /\ f.channel = e.channel /\ f.part = e.part /\ f.said = e.said /\ f.retries = e.retries
      /\ f.known = e.known /\ f.heard = e.heard /\ f.hello = e.hello
      /\ f.compatible = e.compatible /\ f.digest = e.digest /\ f.acked = e.acked
      /\ f.hello_in = e.hello_in /\ f.digest_in = e.digest_in
      /\ f.quiet = e.quiet /\ f.beat = e.beat
  BY DEF SameLink, SameState
<1>3. /\ h.part = g.part /\ h.said = g.said /\ h.retries = g.retries
      /\ h.hello_in = g.hello_in /\ h.beat = g.beat
  BY DEF SameLink, SameState
<1>4. OwnOK(f, p)
  BY <1>1, <1>2, Zenon DEF OwnOK, HeardAll, OnCourse
<1>5. Early(h) <=> Early(g)
  BY <1>3, Zenon DEF Early
<1>6. HearsOK(f, h, w)
  BY <1>1, <1>2, <1>3, <1>5, Zenon DEF HearsOK
<1>7. PatienceOK(f, h, w, p, a, t)
  BY <1>1, <1>2, <1>3, Zenon DEF PatienceOK
<1>8. Age(f, p) = Age(e, p) /\ Age(h, q) = Age(g, q)
  BY <1>2, <1>3, Zenon DEF Age
<1>9. Room(f, w, v, p, q) = Room(e, w, v, p, q)
  BY <1>2, Zenon DEF Room
<1>10. AgesOK(f, h, w, v, p, q, t)
  BY <1>1, <1>2, <1>5, <1>8, <1>9, Zenon DEF AgesOK
<1> QED BY <1>4, <1>6, <1>7, <1>10, Zenon DEF EndOK

LEMMA PartsOfRemoveAt ==
    ASSUME NEW S, NEW s \in Seq(S), NEW i \in 1..Len(s)
    PROVE  LET a == SubSeq(s, 1, i - 1)
               b == SubSeq(s, i + 1, Len(s))
           IN  /\ a \in Seq(S) /\ Len(a) = i - 1 /\ \A j \in 1..(i - 1) : a[j] = s[j]
               /\ b \in Seq(S) /\ Len(b) = Len(s) - i
               /\ \A j \in 1..(Len(s) - i) : b[j] = s[j + i]
<1> DEFINE a == SubSeq(s, 1, i - 1)
           b == SubSeq(s, i + 1, Len(s))
<1>1. Len(s) \in Nat /\ DOMAIN s = 1..Len(s)
  OBVIOUS
<1> QED
  <2>1. a \in Seq(S) /\ Len(a) = i - 1 /\ \A j \in 1..(i - 1) : a[j] = s[j]
    BY <1>1
  <2>2. b \in Seq(S) /\ Len(b) = Len(s) - i
    <3>1. i + 1 \in Int /\ Len(s) \in Int
      BY <1>1
    <3>2. ASSUME NEW j \in (i + 1)..Len(s) PROVE s[j] \in S
      <4>1. j \in 1..Len(s)
        BY <1>1
      <4> QED
        BY <4>1
    <3>3. b \in Seq(S) /\ Len(b) = IF i + 1 <= Len(s) THEN Len(s) - (i + 1) + 1 ELSE 0
      BY <3>1, <3>2, SubSeqProperties
    <3>4. CASE i + 1 <= Len(s)
      BY <1>1, <3>3, <3>4
    <3>5. CASE i = Len(s)
      <4>1. Len(b) = 0 /\ Len(s) - i = 0
        <5>1. ~(i + 1 <= Len(s)) /\ Len(s) - i = 0
          BY <1>1, <3>5
        <5> QED
          BY <3>3, <5>1
      <4> QED
        BY <3>3, <4>1
    <3>6. i + 1 <= Len(s) \/ i = Len(s)
      <4>1. \A l \in Nat : \A k \in 1..l : k + 1 <= l \/ k = l
        OBVIOUS
      <4> QED
        BY <1>1, <4>1, Zenon
    <3> QED
      BY <3>4, <3>5, <3>6
  <2>3. ASSUME NEW j \in 1..(Len(s) - i) PROVE b[j] = s[j + i]
    <3>1. (i + 1) + j - 1 = j + i /\ i + 1 \in Nat /\ j \in 1..(Len(s) - (i + 1) + 1)
      BY <1>1
    <3>2. b[j] = s[(i + 1) + j - 1]
      BY <1>1, <3>1
    <3> QED
      BY <3>1, <3>2
  <2> QED
    BY <2>1, <2>2, <2>3

LEMMA LosesOne ==
    ASSUME NEW w \in Seq(Signal), NEW k \in 1..Len(w), w[k].kind # "hello",
           NEW r, r = RemoveAt(w, k)
    PROVE  Thinned(w, r)
<1>1. PICK a : a = SubSeq(w, 1, k - 1)
  OBVIOUS
<1>2. PICK b : b = SubSeq(w, k + 1, Len(w))
  OBVIOUS
<1>3. Len(w) \in Nat /\ DOMAIN w = 1..Len(w) /\ Len(w) # 0
  OBVIOUS
<1>4. /\ a \in Seq(Signal) /\ Len(a) = k - 1 /\ \A j \in 1..(k - 1) : a[j] = w[j]
      /\ b \in Seq(Signal) /\ Len(b) = Len(w) - k
      /\ \A j \in 1..(Len(w) - k) : b[j] = w[j + k]
  BY <1>1, <1>2, PartsOfRemoveAt, SMTT(60)
<1>5. r = a \o b
  BY <1>1, <1>2 DEF RemoveAt
<1>6. /\ r \in Seq(Signal)
      /\ \A j : Told(j, r) <=> Told(j, a) \/ Told(j, b)
      /\ a # <<>> => r # <<>> /\ r[1] = a[1]
  BY <1>4, <1>5, JoinedSignals
<1>7. DOMAIN a = 1..(k - 1) /\ DOMAIN b = 1..(Len(w) - k)
  BY <1>4
<1>8. ASSUME NEW j, Told(j, w) PROVE Told(j, r)
  <2>1. PICK i \in DOMAIN w : w[i].kind = "hello" /\ w[i].part = j
    BY <1>8 DEF Told
  <2>2. i # k /\ i \in 1..Len(w)
    BY <1>3, <2>1
  <2>3. CASE i < k
    <3>1. i \in DOMAIN a /\ a[i] = w[i]
      BY <1>4, <1>7, <2>2, <2>3
    <3>2. Told(j, a)
      BY <2>1, <3>1, Zenon DEF Told
    <3> QED BY <1>6, <3>2
  <2>4. CASE i > k
    <3>1. i - k \in 1..(Len(w) - k) /\ (i - k) + k = i
      BY <1>3, <2>2, <2>4
    <3>2. i - k \in DOMAIN b /\ b[i - k] = w[i]
      BY <1>4, <1>7, <3>1
    <3>3. Told(j, b)
      BY <2>1, <3>2, Zenon DEF Told
    <3> QED BY <1>6, <3>3
  <2> QED BY <2>2, <2>3, <2>4
<1>9. ASSUME w[1].kind = "hello" PROVE r # <<>> /\ r[1].kind = "hello"
  <2>1. k # 1 /\ 1 \in 1..(k - 1)
    BY <1>9
  <2>2. a # <<>> /\ a[1] = w[1]
    BY <1>4, <1>7, <2>1
  <2> QED BY <1>6, <1>9, <2>2
<1>10. w # <<>>
  BY <1>3
<1> QED BY <1>6, <1>8, <1>9, <1>10 DEF Thinned

-----------------------------------------------------------------------------
(* The invariant of the link between two alike consoles, nobody gone: the  *)
(* types, what holds before they are connected, and what holds of each end.*)
Together == Alike /\ gone = {}

Met(c) ==
    EndOK(ep[c], ep[OtherEnd(c)], wire[c], wire[OtherEnd(c)], c \in polled, OtherEnd(c) \in polled,
          waited, troubles)

LinkTypes ==
    /\ ep \in [Ends -> Linked] /\ wire \in [Ends -> Seq(Signal)]
    /\ fault = [c \in Ends |-> "none"] /\ polled \subseteq Ends /\ joined \in BOOLEAN
    /\ waited \in 0..MaxWait /\ troubles \in 0..MaxTroubles

Unmet ==
    ~joined => polled = {} /\ \A c \in Ends : Untouched(ep[c]) /\ wire[c] = <<>>

HandshakeInv == LinkTypes /\ Unmet /\ \A c \in Ends : Met(c)

LEMMA BoundsFacts ==
    ASSUME Limits, LinkTypes
    PROVE  /\ waited \in Nat /\ troubles \in Nat /\ MaxTroubles \in Nat /\ MaxWait \in Nat
           /\ waited <= MaxWait /\ troubles <= MaxTroubles
BY DEF Limits, LinkTypes

LEMMA HandshakeInit ==
    ASSUME Limits, ShakeInit
    PROVE  HandshakeInv
<1>1. PICK e : e = Attached
  OBVIOUS
<1>2. /\ e.channel = "waiting" /\ e.part = 0 /\ e.said = FALSE /\ e.retries = 0 /\ e.hello_in = 0
      /\ e.digest_in = 0 /\ e.known = FALSE /\ e.heard = {} /\ e.hello = FALSE
      /\ e.compatible = TRUE /\ e.digest = FALSE /\ e.acked = FALSE
      /\ e.quiet = 0 /\ e.beat = 0 /\ e.suspended = FALSE
  BY <1>1 DEF Attached
<1>3. e \in Linked
  <2>1. /\ 0 \in Places /\ 0 \in Tries /\ 0 \in Pauses /\ {} \in Heard /\ 0 \in Quiets
        /\ 0 \in Beats /\ "waiting" \in ChannelStates
    BY DEF Limits, Places, Tries, Pauses, Heard, Quiets, Beats, ChannelStates
  <2> QED BY <1>1, <2>1 DEF Attached, Linked
<1>4. {} # AllParts /\ 0 \in 0..BaseParts
  <2>1. BaseParts \in Nat \ {0}
    BY DEF Limits
  <2>2. 0 \in AllParts /\ 0 \in 0..BaseParts
    BY <2>1 DEF AllParts
  <2> QED BY <2>2
<1>5. OwnOK(e, FALSE)
  <2>1. HeardAll(e) /\ OnCourse(e)
    BY <1>2, <1>4, Zenon DEF HeardAll, OnCourse
  <2> QED BY <1>2, <1>3, <2>1 DEF OwnOK
<1>6. Untouched(e)
  BY <1>2 DEF Untouched
<1>7. <<>> \in Seq(Signal) /\ \A k \in AllParts : ~(k < 0)
  BY EmptySeq DEF AllParts, Limits
<1>8. Age(e, FALSE) = 0 /\ Early(e)
  BY <1>3, <1>6, IdleAge
<1>9. HearsOK(e, e, <<>>)
  BY <1>2, <1>7, <1>8, Zenon DEF HearsOK
<1>10. PatienceOK(e, e, <<>>, FALSE, 0, 0)
  <2>1. (Interval + 1) * 0 = 0 /\ 0 <= 0 + 0 + 0
    BY DEF Limits
  <2> QED BY <1>2, <2>1, Zenon DEF PatienceOK
<1>11. AgesOK(e, e, <<>>, <<>>, FALSE, FALSE, 0)
  <2>1. 0 <= 0 + 0
    OBVIOUS
  <2> QED BY <1>2, <1>8, <2>1, Zenon DEF AgesOK
<1>12. EndOK(e, e, <<>>, <<>>, FALSE, FALSE, 0, 0)
  BY <1>5, <1>9, <1>10, <1>11, Zenon DEF EndOK
<1>13. /\ \A c \in Ends : ep[c] = e /\ wire[c] = <<>>
       /\ polled = {} /\ waited = 0 /\ troubles = 0 /\ ~joined
  BY <1>1 DEF ShakeInit
<1>14. ASSUME NEW c \in Ends PROVE Met(c)
  <2>1. OtherEnd(c) \in Ends
    BY EndsFacts
  <2>2. ep[c] = e /\ ep[OtherEnd(c)] = e /\ wire[c] = <<>> /\ wire[OtherEnd(c)] = <<>>
    BY <1>13, <2>1
  <2>3. (c \in polled) = FALSE /\ (OtherEnd(c) \in polled) = FALSE
    BY <1>13
  <2> QED BY <1>12, <1>13, <2>2, <2>3, Zenon DEF Met
<1>15. LinkTypes
  <2>1. /\ ep \in [Ends -> Linked] /\ wire \in [Ends -> Seq(Signal)]
    BY <1>1, <1>3, <1>7 DEF ShakeInit
  <2>2. 0 \in 0..MaxWait /\ 0 \in 0..MaxTroubles
    BY DEF Limits
  <2> QED BY <2>1, <2>2 DEF ShakeInit, LinkTypes
<1>16. Unmet
  BY <1>6, <1>13, Zenon DEF Unmet
<1> QED BY <1>14, <1>15, <1>16 DEF HandshakeInv

LEMMA PollHolds ==
    ASSUME Limits, Together, HandshakeInv, NEW c \in Ends, Poll(c)
    PROVE  HandshakeInv'
<1>1. PICK d \in Ends : d = OtherEnd(c) /\ OtherEnd(d) = c /\ d # c /\ \A b \in Ends : b = c \/ b = d
  BY EndsFacts
<1>2. /\ LinkTypes /\ Met(c) /\ Met(d) /\ joined /\ c \notin polled
      /\ Alike /\ gone = {}
  BY DEF HandshakeInv, Poll, Alive, Together
<1>3. (c \in polled) = FALSE
  BY <1>2
<1>4. PICK e : e = ep[c]
  OBVIOUS
<1>5. PICK g : g = ep[d]
  OBVIOUS
<1>6. PICK w : w = wire[c]
  OBVIOUS
<1>7. PICK v : v = wire[d]
  OBVIOUS
<1>8. PICK q : q = (d \in polled)
  OBVIOUS
<1>9. /\ EndOK(e, g, w, v, FALSE, q, waited, troubles)
      /\ EndOK(g, e, v, w, q, FALSE, waited, troubles)
  BY <1>1, <1>2, <1>3, <1>4, <1>5, <1>6, <1>7, <1>8, Zenon DEF Met
<1>10. e \in Linked /\ g \in Linked /\ v \in Seq(Signal) /\ g.channel # "closed"
  <2>1. OwnOK(e, FALSE) /\ OwnOK(g, q) /\ HearsOK(g, e, v)
    BY <1>9 DEF EndOK
  <2> QED BY <2>1 DEF OwnOK, HearsOK
<1>11. waited \in Nat /\ troubles \in Nat /\ waited \in 0..MaxWait /\ troubles \in 0..MaxTroubles
  BY <1>2, BoundsFacts DEF LinkTypes
<1>12. Fit(e, w)
  BY <1>9, <1>10, <1>11, MayGoOn
<1>13. PICK n : n = PollOpen(c)
  OBVIOUS
<1>14. PICK f : f = [n.ep EXCEPT !.channel = "open"]
  OBVIOUS
<1>15. /\ n.fault = "none" /\ n.out \in Seq(Signal)
       /\ f \in Linked /\ f.compatible /\ HeardAll(f) /\ f.channel = "open"
       /\ Course(e, f, n.out) /\ Learns(e, w, f) /\ Answers(e, w, n.out)
  BY <1>2, <1>4, <1>6, <1>12, <1>13, <1>14, PolledEnd
<1>16. PICK o : o = n.out
  OBVIOUS
<1>17. Polls(e, w, f, o)
  BY <1>15, <1>16, Zenon DEF Polls
<1>18. EndOK(f, g, <<>>, v \o o, TRUE, q, waited, troubles)
  BY <1>9, <1>10, <1>11, <1>17, PollSelf
<1>19. EndOK(g, f, v \o o, <<>>, q, TRUE, waited, troubles)
  BY <1>9, <1>11, <1>17, PollPeer
<1>20. /\ polled' = polled \cup {c}
       /\ ep' = [ep EXCEPT ![c] = f]
       /\ wire' = [wire EXCEPT ![c] = <<>>, ![d] = v \o o]
       /\ fault' = [fault EXCEPT ![c] = "none"]
       /\ joined' = joined /\ waited' = waited /\ troubles' = troubles
  <2>1. ep[OtherEnd(c)].channel # "closed"
    BY <1>1, <1>5, <1>10, Zenon
  <2>2. /\ ep' = [ep EXCEPT ![c] = [n.ep EXCEPT !.channel =
                                     IF n.fault = "none" THEN "open" ELSE "closed"]]
        /\ wire' = [wire EXCEPT ![c] = <<>>, ![OtherEnd(c)] = Carried(c, @ \o n.out)]
        /\ fault' = [fault EXCEPT ![c] = n.fault]
    BY <1>13, <2>1 DEF Poll
  <2>3. ep' = [ep EXCEPT ![c] = f]
    BY <1>14, <1>15, <2>2, Zenon
  <2>4. \A x : Carried(c, x) = x
    BY <1>2 DEF Carried
  <2>5. wire' = [wire EXCEPT ![c] = <<>>, ![d] = v \o o]
    <3>1. wire' = [wire EXCEPT ![c] = <<>>, ![d] = wire[d] \o n.out]
      BY <1>1, <1>2, <2>2, <2>4 DEF LinkTypes
    <3> QED BY <1>7, <1>16, <3>1, Zenon
  <2>6. fault' = [fault EXCEPT ![c] = "none"]
    BY <1>15, <2>2
  <2> QED BY <2>3, <2>5, <2>6 DEF Poll
<1>21. /\ ep'[c] = f /\ ep'[d] = g /\ wire'[c] = <<>> /\ wire'[d] = v \o o
       /\ c \in polled' /\ (d \in polled' <=> d \in polled)
  BY <1>1, <1>2, <1>5, <1>20 DEF LinkTypes
<1>22. (c \in polled') = TRUE /\ (d \in polled') = q
  BY <1>8, <1>21
<1>23. Met(c)'
  BY <1>1, <1>18, <1>20, <1>21, <1>22, Zenon DEF Met
<1>24. Met(d)'
  BY <1>1, <1>19, <1>20, <1>21, <1>22, Zenon DEF Met
<1>25. LinkTypes'
  <2>1. ep' \in [Ends -> Linked]
    BY <1>2, <1>15, <1>20 DEF LinkTypes
  <2>2. <<>> \in Seq(Signal) /\ v \o o \in Seq(Signal)
    BY <1>10, <1>15, <1>16, EmptySeq
  <2>3. wire' \in [Ends -> Seq(Signal)]
    <3> HIDE DEF Signal
    <3> QED BY <1>2, <1>20, <2>2 DEF LinkTypes
  <2>4. fault' = fault
    BY <1>2, <1>20 DEF LinkTypes
  <2> QED BY <1>2, <1>20, <2>1, <2>3, <2>4 DEF LinkTypes
<1>26. Unmet'
  BY <1>2, <1>20 DEF Unmet
<1>27. \A b \in Ends : Met(b)'
  BY <1>1, <1>23, <1>24
<1> QED BY <1>25, <1>26, <1>27 DEF HandshakeInv

\* Every end has polled in the tick that ends, or there was trouble.
LEMMA TickHolds ==
    ASSUME Limits, Together, HandshakeInv, PassTick
    PROVE  HandshakeInv'
<1>1. /\ LinkTypes /\ Unmet /\ \A c \in Ends : Met(c)
      /\ gone = {}
  BY DEF HandshakeInv, Together
<1>2. PICK aging \in {{Host}, Ends} :
        /\ polled' = {} /\ joined' = joined /\ wire' = wire /\ fault' = fault
        /\ ep' = [c \in Ends |-> IF Alive(c) \/ (~joined /\ c \in aging)
                                 THEN Passed(ep[c]) ELSE ep[c]]
  BY DEF PassTick
<1>3. waited \in Nat /\ troubles \in Nat /\ MaxWait \in Nat /\ MaxTroubles \in Nat
  BY <1>1, BoundsFacts
<1>4. ASSUME NEW c \in Ends
      PROVE  /\ OtherEnd(c) \in Ends
             /\ EndOK(ep[c], ep[OtherEnd(c)], wire[c], wire[OtherEnd(c)], c \in polled,
                      OtherEnd(c) \in polled, waited, troubles)
             /\ OwnOK(ep[c], c \in polled) /\ ep[c] \in Linked
  <2>1. OtherEnd(c) \in Ends
    BY EndsFacts
  <2>2. EndOK(ep[c], ep[OtherEnd(c)], wire[c], wire[OtherEnd(c)], c \in polled,
              OtherEnd(c) \in polled, waited, troubles)
    BY <1>1, Zenon DEF Met
  <2>3. OwnOK(ep[c], c \in polled)
    BY <2>2, Zenon DEF EndOK
  <2>4. ep[c] \in Linked
    BY <1>1 DEF LinkTypes
  <2> QED BY <2>1, <2>2, <2>3, <2>4
<1>5. CASE joined
  <2>1. ASSUME NEW c \in Ends PROVE Alive(c) /\ ep'[c] = Passed(ep[c])
    <3>1. ep[c].channel # "closed"
      BY <1>4, Zenon DEF OwnOK
    <3>2. Alive(c)
      BY <1>1, <1>5, <3>1, Zenon DEF Alive
    <3> QED BY <1>2, <3>2
  <2>2. waited' = waited
    BY <1>5 DEF PassTick
  <2>3. /\ troubles' \in 0..MaxTroubles
        /\ troubles' = troubles + 1 \/ (troubles' = troubles /\ Sleepers = {})
    <3>1. CASE Sleepers = {}
      BY <1>1, <3>1 DEF PassTick, LinkTypes
    <3>2. CASE Sleepers # {}
      <4>1. troubles < MaxTroubles /\ troubles' = troubles + 1
        BY <3>2 DEF PassTick, Trouble
      <4> QED BY <1>3, <4>1
    <3> QED BY <3>1, <3>2
  <2>4. Sleepers = {} => \A c \in Ends : c \in polled
    <3>1. \A c \in Ends \ (Sleepers \union polled) : ~Alive(c)
      BY DEF PassTick
    <3> QED BY <2>1, <3>1
  <2>5. ASSUME NEW c \in Ends PROVE Met(c)'
    <3>1. PICK d \in Ends : d = OtherEnd(c)
      BY <1>4
    <3>2. PICK p : p = (c \in polled)
      OBVIOUS
    <3>3. PICK q : q = (d \in polled)
      OBVIOUS
    <3>4. p \in BOOLEAN /\ q \in BOOLEAN
      BY <3>2, <3>3
    <3>5. PICK u : u = troubles'
      OBVIOUS
    <3>6. u = troubles + 1 \/ (u = troubles /\ p /\ q)
      BY <2>3, <2>4, <3>2, <3>3, <3>5
    <3>7. PICK e : e = ep[c]
      OBVIOUS
    <3>8. PICK g : g = ep[d]
      OBVIOUS
    <3>9. /\ EndOK(e, g, wire[c], wire[d], p, q, waited, troubles)
          /\ OwnOK(g, q) /\ g \in Linked
      BY <1>4, <3>1, <3>2, <3>3, <3>7, <3>8, Zenon
    <3>10. PICK f : f = Passed(e)
      OBVIOUS
    <3>11. PICK h : h = Passed(g)
      OBVIOUS
    <3>12. EndOK(f, h, wire[c], wire[d], FALSE, FALSE, waited, u)
      BY <1>3, <3>4, <3>6, <3>9, <3>10, <3>11, TickEnd, ZenonT(60)
    <3>13. ep'[c] = f /\ ep'[d] = h
      BY <2>1, <3>7, <3>8, <3>10, <3>11, Zenon
    <3>14. (c \in polled') = FALSE /\ (d \in polled') = FALSE
      BY <1>2
    <3> QED BY <1>2, <2>2, <3>1, <3>5, <3>12, <3>13, <3>14, Zenon DEF Met
  <2>6. LinkTypes'
    <3>1. ep' \in [Ends -> Linked]
      <4>1. \A c \in Ends : ep'[c] \in Linked
        BY <1>4, <2>1, PassedFacts
      <4>2. ep' = [c \in Ends |-> ep'[c]]
        BY <1>2
      <4> QED BY <4>1, <4>2
    <3> QED BY <1>1, <1>2, <2>2, <2>3, <3>1 DEF LinkTypes
  <2>7. Unmet'
    BY <1>2, <1>5 DEF Unmet
  <2> QED BY <2>5, <2>6, <2>7 DEF HandshakeInv
<1>6. CASE ~joined
  <2>1. /\ polled = {} /\ \A c \in Ends : Untouched(ep[c]) /\ wire[c] = <<>>
    BY <1>1, <1>6 DEF Unmet
  <2>2. waited < MaxWait /\ waited' = waited + 1
    BY <1>6 DEF PassTick
  <2>3. Sleepers = {}
    <3>1. \A c \in Ends : ~ep[c].suspended
      BY <2>1 DEF Untouched
    <3> QED BY <3>1 DEF Sleepers
  <2>4. troubles' = troubles
    BY <2>3 DEF PassTick
  <2>5. ASSUME NEW c \in Ends PROVE ep'[c] = ep[c] \/ ep'[c] = Passed(ep[c])
    BY <1>2
  <2>6. ASSUME NEW c \in Ends PROVE Met(c)' /\ Untouched(ep'[c]) /\ ep'[c] \in Linked
    <3>1. PICK d \in Ends : d = OtherEnd(c)
      BY <1>4
    <3>2. (c \in polled) = FALSE /\ (d \in polled) = FALSE
      BY <2>1
    <3>3. PICK e : e = ep[c]
      OBVIOUS
    <3>4. PICK g : g = ep[d]
      OBVIOUS
    <3>5. PICK f : f = ep'[c]
      OBVIOUS
    <3>6. PICK h : h = ep'[d]
      OBVIOUS
    <3>7. EndOK(e, g, <<>>, <<>>, FALSE, FALSE, waited, troubles)
      BY <1>4, <2>1, <3>1, <3>2, <3>3, <3>4, Zenon
    <3>8. OwnOK(g, FALSE) /\ Untouched(e) /\ Untouched(g)
      BY <1>4, <2>1, <3>1, <3>2, <3>3, <3>4, Zenon
    <3>9. (f = e \/ f = Passed(e)) /\ (h = g \/ h = Passed(g))
      BY <2>5, <3>3, <3>4, <3>5, <3>6, Zenon
    <3>10. EndOK(f, h, <<>>, <<>>, FALSE, FALSE, waited + 1, troubles) /\ Untouched(f)
      BY <1>3, <3>7, <3>8, <3>9, WaitEnd
    <3>11. (c \in polled') = FALSE /\ (d \in polled') = FALSE
      BY <1>2
    <3>12. Met(c)'
      BY <1>2, <2>1, <2>2, <2>4, <3>1, <3>5, <3>6, <3>10, <3>11, Zenon DEF Met
    <3>13. f \in Linked
      BY <3>10, Zenon DEF EndOK, OwnOK
    <3> QED BY <3>5, <3>10, <3>12, <3>13, Zenon
  <2>7. LinkTypes'
    <3>1. ep' \in [Ends -> Linked]
      <4>1. ep' = [c \in Ends |-> ep'[c]]
        BY <1>2
      <4> QED BY <2>6, <4>1
    <3>2. waited' \in 0..MaxWait
      BY <1>3, <2>2
    <3> QED BY <1>1, <1>2, <2>4, <3>1, <3>2 DEF LinkTypes
  <2>8. Unmet'
    BY <1>2, <2>1, <2>6 DEF Unmet
  <2> QED BY <2>6, <2>7, <2>8 DEF HandshakeInv
<1> QED BY <1>5, <1>6

\* Whose state of sleep alone has changed.
LEMMA SleepHolds ==
    ASSUME Limits, Together, HandshakeInv, NEW c \in Ends, NEW b \in BOOLEAN,
           ~joined => ~b, ep' = [ep EXCEPT ![c].suspended = b],
           UNCHANGED <<alike, wire, fault, gone, joined, polled, waited, troubles>>
    PROVE  HandshakeInv'
<1>1. LinkTypes /\ Unmet /\ \A d \in Ends : Met(d)
  BY DEF HandshakeInv
<1>2. ASSUME NEW d \in Ends
      PROVE  ep'[d] \in Linked /\ SameLink(ep[d], ep'[d]) /\ (~joined => Untouched(ep'[d]))
  <2>1. ep[d] \in Linked /\ ep[c] \in Linked
    BY <1>1 DEF LinkTypes
  <2>2. CASE d = c
    <3>1. PICK e : e = ep[c]
      OBVIOUS
    <3>2. PICK f : f = ep'[c]
      OBVIOUS
    <3>3. f = [e EXCEPT !.suspended = b]
      BY <1>1, <3>1, <3>2 DEF LinkTypes
    <3>4. e \in Linked
      BY <2>1, <3>1
    <3>5. f \in Linked /\ SameLink(e, f) /\ f.suspended = b
      BY <3>3, <3>4 DEF Linked, SameLink, SameState
    <3>6. ~joined => Untouched(e)
      BY <1>1, <3>1, Zenon DEF Unmet
    <3>7. ~joined => Untouched(f)
      BY <3>5, <3>6, Zenon DEF Untouched, SameLink, SameState
    <3> QED BY <2>2, <3>1, <3>2, <3>5, <3>7, Zenon
  <2>3. CASE d # c
    <3>1. ep'[d] = ep[d]
      BY <1>1, <2>3 DEF LinkTypes
    <3>2. SameLink(ep[d], ep[d])
      BY Zenon DEF SameLink, SameState
    <3>3. ~joined => Untouched(ep[d])
      BY <1>1, Zenon DEF Unmet
    <3> QED BY <2>1, <3>1, <3>2, <3>3, Zenon
  <2> QED BY <2>2, <2>3
<1>3. ASSUME NEW d \in Ends PROVE Met(d)'
  <2>1. PICK x \in Ends : x = OtherEnd(d)
    BY EndsFacts
  <2>2. EndOK(ep[d], ep[x], wire[d], wire[x], d \in polled, x \in polled, waited, troubles)
    BY <1>1, <2>1, Zenon DEF Met
  <2>3. EndOK(ep'[d], ep'[x], wire[d], wire[x], d \in polled, x \in polled, waited, troubles)
    BY <1>2, <2>2, SleepEnd, Zenon
  <2> QED BY <2>1, <2>3, Zenon DEF Met
<1>4. LinkTypes'
  <2>1. ep' \in [Ends -> Linked]
    <3>1. ep' = [d \in Ends |-> ep'[d]]
      BY <1>1 DEF LinkTypes
    <3> QED BY <1>2, <3>1
  <2> QED BY <1>1, <2>1 DEF LinkTypes
<1>5. Unmet'
  BY <1>1, <1>2 DEF Unmet
<1> QED BY <1>3, <1>4, <1>5 DEF HandshakeInv

LEMMA LoseHolds ==
    ASSUME Limits, Together, HandshakeInv, NEW c \in Ends, Lose(c)
    PROVE  HandshakeInv'
<1>1. /\ LinkTypes /\ Unmet /\ \A d \in Ends : Met(d)
  BY DEF HandshakeInv
<1>2. PICK i \in DOMAIN wire[c] :
         wire[c][i].kind \in Lossy /\ wire' = [wire EXCEPT ![c] = RemoveAt(@, i)]
  BY DEF Lose
<1>3. /\ troubles' = troubles + 1 /\ troubles < MaxTroubles
      /\ UNCHANGED <<alike, ep, fault, gone, joined, polled, waited>>
  BY DEF Lose, Trouble
<1>4. waited \in Nat /\ troubles \in Nat /\ MaxTroubles \in Nat
  BY <1>1, BoundsFacts
<1>5. PICK w : w = wire[c]
  OBVIOUS
<1>6. PICK r : r = RemoveAt(w, i)
  OBVIOUS
<1>7. w \in Seq(Signal) /\ i \in 1..Len(w) /\ w[i].kind # "hello"
  <2>1. w \in Seq(Signal)
    BY <1>1, <1>5 DEF LinkTypes
  <2>2. "hello" \notin Lossy
    BY DEF Limits
  <2> QED BY <1>2, <1>5, <2>1, <2>2
<1>8. Thinned(w, r)
  BY <1>6, <1>7, LosesOne
<1>9. wire' = [wire EXCEPT ![c] = r]
  BY <1>2, <1>5, <1>6, Zenon
<1>10. ASSUME NEW d \in Ends PROVE Thinned(wire[d], wire'[d])
  <2>1. CASE d = c
    BY <1>1, <1>5, <1>8, <1>9, <2>1 DEF LinkTypes
  <2>2. CASE d # c
    <3>1. wire'[d] = wire[d] /\ wire[d] \in Seq(Signal)
      BY <1>1, <1>9, <2>2 DEF LinkTypes
    <3> QED BY <3>1, Zenon DEF Thinned
  <2> QED BY <2>1, <2>2
<1>11. ASSUME NEW d \in Ends PROVE Met(d)'
  <2>1. PICK x \in Ends : x = OtherEnd(d)
    BY EndsFacts
  <2>2. EndOK(ep[d], ep[x], wire[d], wire[x], d \in polled, x \in polled, waited, troubles)
    BY <1>1, <2>1, Zenon DEF Met
  <2>3. ep[x] \in Linked
    BY <1>1 DEF LinkTypes
  <2>4. EndOK(ep[d], ep[x], wire'[d], wire'[x], d \in polled, x \in polled, waited, troubles + 1)
    BY <1>4, <1>10, <2>2, <2>3, LoseEnd, Zenon
  <2> QED BY <1>3, <2>1, <2>4, Zenon DEF Met
<1>12. LinkTypes'
  <2>1. wire' \in [Ends -> Seq(Signal)]
    <3>1. r \in Seq(Signal)
      BY <1>8 DEF Thinned
    <3> HIDE DEF Signal
    <3> QED BY <1>1, <1>9, <3>1 DEF LinkTypes
  <2>2. troubles' \in 0..MaxTroubles
    BY <1>3, <1>4
  <2> QED BY <1>1, <1>3, <2>1, <2>2 DEF LinkTypes
<1>13. Unmet'
  <2>1. ASSUME ~joined PROVE FALSE
    BY <1>1, <1>2, <2>1 DEF Unmet
  <2> QED BY <1>3, <2>1 DEF Unmet
<1> QED BY <1>11, <1>12, <1>13 DEF HandshakeInv

LEMMA HandshakeStep ==
    ASSUME Limits, Together => HandshakeInv, [ShakeNext]_shakeVars
    PROVE  (Together => HandshakeInv)'
<1> SUFFICES ASSUME Together' PROVE HandshakeInv'
  OBVIOUS
<1>1. Together
  <2>1. alike' = alike /\ gone \subseteq gone'
    BY DEF ShakeNext, shakeVars, Link, PassTick, Poll, TurnAway, Suspend, Resume, Vanish, Lose
  <2> QED BY <2>1 DEF Together, Alike
<1>2. HandshakeInv /\ gone = {} /\ gone' = {}
  BY <1>1 DEF Together
<1>3. /\ LinkTypes /\ Unmet /\ \A c \in Ends : Met(c)
  BY <1>2 DEF HandshakeInv
<1>4. CASE Link
  <2>1. /\ joined' = TRUE
        /\ UNCHANGED <<alike, ep, wire, fault, gone, polled, waited, troubles>>
    BY <1>4 DEF Link
  <2>2. \A c \in Ends : Met(c)'
    BY <1>3, <2>1, Zenon DEF Met
  <2>3. LinkTypes' /\ Unmet'
    BY <1>3, <2>1 DEF LinkTypes, Unmet
  <2> QED BY <2>2, <2>3 DEF HandshakeInv
<1>5. CASE PassTick
  BY <1>1, <1>2, <1>5, TickHolds
<1>6. ASSUME NEW c \in Ends, Poll(c) PROVE HandshakeInv'
  BY <1>1, <1>2, <1>6, PollHolds
<1>7. ASSUME NEW c \in Ends, TurnAway(c) PROVE FALSE
  <2>1. ep[c].compatible
    BY <1>3, <1>7, Zenon DEF Met, EndOK, OwnOK
  <2> QED BY <1>7, <2>1 DEF TurnAway
<1>8. ASSUME NEW c \in Ends, Suspend(c) PROVE HandshakeInv'
  <2>1. joined
    BY <1>3, <1>8 DEF Unmet, Suspend
  <2>2. ep' = [ep EXCEPT ![c].suspended = TRUE]
        /\ UNCHANGED <<alike, wire, fault, gone, joined, polled, waited, troubles>>
    BY <1>8 DEF Suspend
  <2> QED BY <1>1, <1>2, <2>1, <2>2, SleepHolds
<1>9. ASSUME NEW c \in Ends, Resume(c) PROVE HandshakeInv'
  <2>1. ep' = [ep EXCEPT ![c].suspended = FALSE]
        /\ UNCHANGED <<alike, wire, fault, gone, joined, polled, waited, troubles>>
    BY <1>9 DEF Resume
  <2> QED BY <1>1, <1>2, <2>1, SleepHolds
<1>10. ASSUME NEW c \in Ends, Vanish(c) PROVE FALSE
  BY <1>2, <1>10 DEF Vanish
<1>11. ASSUME NEW c \in Ends, Lose(c) PROVE HandshakeInv'
  BY <1>1, <1>2, <1>11, LoseHolds
<1>12. CASE UNCHANGED shakeVars
  <2>1. UNCHANGED <<alike, ep, wire, fault, gone, joined, polled, waited, troubles>>
    BY <1>12 DEF shakeVars
  <2>2. \A c \in Ends : Met(c)'
    BY <1>3, <2>1, Zenon DEF Met
  <2>3. LinkTypes' /\ Unmet'
    BY <1>3, <2>1 DEF LinkTypes, Unmet
  <2> QED BY <2>2, <2>3 DEF HandshakeInv
<1> QED
  BY <1>4, <1>5, <1>6, <1>7, <1>8, <1>9, <1>10, <1>11, <1>12 DEF ShakeNext

(* AlikeStayTogether of every link whose limits are in proportion: poll()  *)
(* of tcp_serial_endpoint.cpp, run in any order by the two ends, with lost *)
(* digests, acknowledgements and heartbeats, ticks of suspension and a     *)
(* wait for the peer, never gives up the hello and never times out on a    *)
(* peer that is there and can play.                                        *)
THEOREM AlikeAreNeverParted ==
    ASSUME Limits PROVE HandshakeSpec => []AlikeStayTogether
<1>1. ShakeInit => (Together => HandshakeInv)
  BY HandshakeInit
<1>2. (Together => HandshakeInv) /\ [ShakeNext]_shakeVars => (Together => HandshakeInv)'
  BY HandshakeStep
<1>3. (Together => HandshakeInv) => AlikeStayTogether
  BY DEF Together, HandshakeInv, LinkTypes, AlikeStayTogether
<1> QED BY <1>1, <1>2, <1>3, PTL DEF HandshakeSpec
================================================================================
