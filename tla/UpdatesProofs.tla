---------------------------- MODULE UpdatesProofs ---------------------------
(***************************************************************************)
(* The safety of Updates for any apps, any history of releases and any     *)
(* bounds: the lock, the task under it, the installer outside of the box   *)
(* and the progress fit, and nobody is told twice of a release.            *)
(***************************************************************************)
EXTENDS Updates, TLAPS

\* The task that holds the lock, and how far it can be.
WorkFits ==
    /\ lock = "box_update" <=> task.kind \in {"update", "upgrade"}
    /\ lock = "migrate" <=> task.kind = "migrate"
    /\ task.kind = "none" <=> task.step = "idle"
    /\ task.step \in {"download", "watch"} => task.kind = "update"
    /\ task.kind = "update" => task.version \in Releases

\* Whoever runs the installer waits for it, or is dead; the box it stopped holds nothing.
InstallerFits ==
    /\ installer.step \in {"prepare", "switch", "configure", "start"} => installer.version \in Releases
    /\ installer.step = "prepare" /\ ~installer.orphan => task.step = "watch"
    /\ installer.step \in {"switch", "configure", "start"} => box = "down"
    /\ box = "down" => lock = "none"

LockInv == WorkFits /\ InstallerFits /\ ProgressMatchesLock

\* What a check of the box was told is no older than what the users were told of.
OneBoxCheck ==
    \A c, d \in Checkers : check[c].step \in BoxSteps /\ check[d].step \in BoxSteps => c = d

ToldInOrder ==
    /\ file.box <= released.box
    /\ \A v \in Releases : mailed[v] <= 1 /\ (mailed[v] > 0 => v <= file.box)
    /\ \A c \in Checkers :
         /\ check[c].step \in BoxSteps \ {"ask"} =>
               file.box <= check[c].version /\ check[c].version <= released.box
         /\ check[c].step \in {"plan", "pattern"} => file.box # check[c].version

MailInv == overlapped \/ unsaved \/ (OneBoxCheck /\ ToldInOrder)

-----------------------------------------------------------------------------
USE DEF stateFile

(* The numbers the types are made of. *)
LEMMA Bounds ==
    /\ MaxRelease \in Nat /\ MaxAppRelease \in Nat /\ MaxChanges \in Nat /\ MaxChecks \in Nat
    /\ 1 \in Releases /\ 1 \in 1..MaxAppRelease /\ Releases \subseteq 0..MaxRelease
    /\ 0 \in 0..MaxRelease /\ 0 \in 0..MaxAppRelease /\ 1..MaxAppRelease \subseteq 0..MaxAppRelease
BY UpdatesAssumption DEF UpdatesAssumption, Releases

LEMMA Empty ==
    /\ NoInfo \in AppInfo
    /\ Nothing \in Info
    /\ NoCheck \in Check
    /\ NoAuto \in AutoState
    /\ NoProgress \in Progress
    /\ NoTask \in Task
    /\ NoInstaller \in Installer
<1>1. NoInfo \in AppInfo
  BY Bounds DEF NoInfo, AppInfo
<1>2. Nothing \in Info
  BY <1>1, Bounds DEF Nothing, Info
<1>3. NoCheck \in Check /\ NoAuto \in AutoState
  BY <1>1, <1>2, Bounds DEF NoCheck, Check, NoAuto, AutoState
<1>4. NoProgress \in Progress
  BY DEF NoProgress, Progress, Shown
<1>5. NoTask \in Task /\ NoInstaller \in Installer
  BY Bounds DEF NoTask, Task, NoInstaller, Installer
<1> QED
  BY <1>1, <1>2, <1>3, <1>4, <1>5

(* A box that starts: it checks, updates and locks nothing. *)
LEMMA FreshTypes ==
    ASSUME FreshMemory, setting \in Settings
    PROVE  /\ known' \in Info /\ check' \in [Checkers -> Check] /\ auto' \in AutoState
           /\ lock' = "none" /\ progress' \in Progress /\ task' \in Task /\ autojob' \in Patterns
<1>1. setting.pattern \in Patterns
  BY DEF Settings
<1> QED
  BY <1>1, Empty DEF FreshMemory

LEMMA InitTypes == Init => TypeOK
<1> SUFFICES ASSUME Init PROVE TypeOK
  OBVIOUS
<1>1. /\ known \in Info /\ file \in Info /\ check \in [Checkers -> Check] /\ auto \in AutoState
      /\ progress \in Progress /\ task \in Task /\ installer \in Installer
  BY Empty DEF Init
<1>2. /\ caas \in BOOLEAN /\ kind \in Histories
      /\ released \in [box : Releases, apps : [Apps -> 1..MaxAppRelease]]
      /\ setting \in Settings /\ autojob \in Patterns
  BY DEF Init, Settings, Patterns
<1>3. app \in [Apps -> Row]
  BY Bounds DEF Init, Row
<1>4. version = 1 /\ box = "up" /\ lock = "none" /\ overlapped = FALSE /\ unsaved = FALSE /\ changes = 0 /\ checks = 0
  BY DEF Init
<1>5. mailed = [v \in Releases |-> 0]
  BY DEF Init
<1>6. mailed \in [Releases -> Nat] /\ changes \in 0..MaxChanges /\ checks \in 0..MaxChecks
  BY <1>4, <1>5, Bounds
<1> QED
  BY <1>1, <1>2, <1>3, <1>4, <1>6, Bounds DEF TypeOK

-----------------------------------------------------------------------------
(* The types, check by check. *)

\* What a step of a check may change keeps its type.
CheckTypes ==
    /\ known \in Info /\ file \in Info /\ check \in [Checkers -> Check] /\ auto \in AutoState
    /\ mailed \in [Releases -> Nat] /\ overlapped \in BOOLEAN /\ unsaved \in BOOLEAN
    /\ checks \in 0..MaxChecks

LEMMA ForgetTypes ==
    ASSUME TypeOK, ForgetApps
    PROVE  known' \in Info /\ auto' \in AutoState
<1>1. known \in Info /\ auto \in AutoState /\ NoInfo \in AppInfo
  BY Empty DEF TypeOK
<1>2. [a \in Apps |-> Offered(a)] \in AppInfo
  BY <1>1 DEF Offered, AppInfo, Info, AutoState
<1> QED
  BY <1>1, <1>2 DEF ForgetApps, Info, AutoState

\* A write of the file, and one that fails.
LEMMA SaveTypes ==
    ASSUME file \in Info, unsaved \in BOOLEAN, NEW state \in Info, saveState(state)
    PROVE  file' \in Info /\ unsaved' \in BOOLEAN
BY Empty DEF saveState

\* A check that goes on with what it has found.
LEMMA ContinueTypes ==
    ASSUME TypeOK, NEW c \in Checkers, NEW found \in Info, NEW new \in AppInfo,
           NEW todo \in SUBSET Apps, Continue(c, found, new, todo)
    PROVE  /\ check' \in [Checkers -> Check] /\ known' \in Info /\ file' \in Info
           /\ overlapped' \in BOOLEAN /\ unsaved' \in BOOLEAN
<1>1. check \in [Checkers -> Check] /\ file \in Info /\ overlapped \in BOOLEAN /\ unsaved \in BOOLEAN
  BY DEF TypeOK
<1>2. CASE todo # {}
  <2>1. [check[c] EXCEPT !.step = "next", !.new = new, !.todo = todo, !.current = {}] \in Check
    BY <1>1 DEF Check
  <2> QED
    BY <1>1, <1>2, <2>1 DEF Continue, Set
<1>3. CASE todo = {}
  <2>1. saveState(NewState(c, new)) /\ NewState(c, new) \in Info
    BY <1>1, <1>3 DEF Continue, NewState, Info
  <2>2. file' \in Info /\ unsaved' \in BOOLEAN
    BY <1>1, <2>1, SaveTypes
  <2>3. CASE ThenBox(c)
    <3>1. BoxCheckStarts(c) /\ known' = [found EXCEPT !.box = 0]
      BY <1>3, <2>3 DEF Continue
    <3>2. known' \in Info
      BY <3>1, Bounds DEF Info
    <3>3. [NoCheck EXCEPT !.step = "ask"] \in Check
      BY Empty DEF Check, BoxSteps
    <3>4. check' \in [Checkers -> Check] /\ overlapped' \in BOOLEAN
      BY <1>1, <3>1, <3>3 DEF BoxCheckStarts, Set, BoxChecked
    <3> QED
      BY <2>2, <3>2, <3>4
  <2>4. CASE ~ThenBox(c)
    BY <1>1, <1>3, <2>2, <2>4, Empty DEF Continue, Set
  <2> QED
    BY <2>3, <2>4
<1> QED
  BY <1>2, <1>3

LEMMA SetTypes ==
    ASSUME check \in [Checkers -> Check], NEW c \in Checkers, NEW r \in Check, Set(c, r)
    PROVE  check' \in [Checkers -> Check]
BY DEF Set

(* What the store offers is a release. *)
LEMMA OfferTypes ==
    ASSUME TypeOK
    PROVE  /\ BoxUpdate \in 0..MaxRelease
           /\ \A a \in Apps : \A seen : AppUpdate(a, seen) \in 0..MaxAppRelease
<1>1. released.box \in Releases /\ \A a \in Apps : released.apps[a] \in 1..MaxAppRelease
  BY DEF TypeOK
<1> QED
  BY <1>1, Bounds DEF BoxUpdate, AppUpdate

LEMMA CheckFrame ==
    ASSUME TypeOK, CheckTypes', UNCHANGED <<boxVars, setting, autojob, app, workVars, changes>>
    PROVE  TypeOK'
BY DEF TypeOK, CheckTypes, boxVars, workVars

(* The checks of the apps. *)
LEMMA AppCheckTypes ==
    ASSUME TypeOK, NEW c \in Checkers,
           \/ StartAppCheck(c) \/ ReadApps(c) \/ TellOfApp(c) \/ AppPlanIsPaid(c)
           \/ \E a \in Apps : NothingToTell(c, a) \/ AppUpdateFound(c, a)
    PROVE  TypeOK'
<1> USE DEF Reading
<1>1. CheckTypes
  BY DEF TypeOK, CheckTypes
<1>2. check[c] \in Check /\ file \in Info /\ known \in Info
  BY <1>1 DEF CheckTypes
<1>3. /\ check[c].todo \in SUBSET Apps /\ check[c].current \in SUBSET Apps
      /\ check[c].new \in AppInfo /\ check[c].old \in Info
  BY <1>2 DEF Check
<1>4. \A r \in Check : Set(c, r) => check' \in [Checkers -> Check]
  BY <1>1, SetTypes DEF CheckTypes
<1>5. CASE StartAppCheck(c)
  <2>1. known' \in Info /\ auto' \in AutoState
    BY <1>5, ForgetTypes DEF StartAppCheck
  <2>2. [NoCheck EXCEPT !.step = "apps", !.old = file] \in Check
    BY <1>2, Empty DEF Check
  <2>3. check' \in [Checkers -> Check]
    BY <1>4, <1>5, <2>2 DEF StartAppCheck
  <2>4. checks' \in 0..MaxChecks
    BY <1>1, <1>5, Bounds DEF StartAppCheck, StartsCheck, CheckTypes
  <2>5. UNCHANGED <<boxVars, setting, autojob, app, workVars, changes, stateFile, mailed, overlapped>>
    BY <1>5 DEF StartAppCheck
  <2>6. CheckTypes'
    BY <1>1, <2>1, <2>3, <2>4, <2>5 DEF CheckTypes
  <2> QED
    BY <2>5, <2>6, CheckFrame
<1>6. CASE ReadApps(c)
  <2>1. \A a \in Apps : app[a].version \in 0..MaxAppRelease
    BY Bounds DEF TypeOK, Row
  <2>2. [a \in Apps |-> app[a].version] \in AppInfo
    BY <2>1 DEF AppInfo
  <2>3. [check[c] EXCEPT !.step = "next", !.todo = Apps, !.seen = [a \in Apps |-> app[a].version]]
          \in Check
    BY <1>2, <2>2 DEF Check
  <2>4. check' \in [Checkers -> Check]
    BY <1>4, <1>6, <2>3, Empty DEF ReadApps
  <2>5. UNCHANGED <<boxVars, setting, autojob, app, workVars, changes, known, stateFile, auto, mailed,
                    overlapped, checks>>
    BY <1>6 DEF ReadApps
  <2>6. CheckTypes'
    BY <1>1, <2>4, <2>5 DEF CheckTypes
  <2> QED
    BY <2>5, <2>6, CheckFrame
<1>7. CASE TellOfApp(c)
  <2>1. /\ check' \in [Checkers -> Check] /\ known' \in Info /\ file' \in Info
        /\ overlapped' \in BOOLEAN /\ unsaved' \in BOOLEAN
    <3>1. check[c].todo \ check[c].current \in SUBSET Apps
      BY <1>3
    <3> QED
      BY <1>2, <1>3, <1>7, <3>1, ContinueTypes DEF TellOfApp
  <2>2. UNCHANGED <<boxVars, setting, autojob, app, workVars, changes, auto, mailed, checks>>
    BY <1>7 DEF TellOfApp
  <2>3. CheckTypes'
    BY <1>1, <2>1, <2>2 DEF CheckTypes
  <2> QED
    BY <2>2, <2>3, CheckFrame
<1>8. CASE AppPlanIsPaid(c)
  <2>1. [check[c] EXCEPT !.step = "app pattern"] \in Check
    BY <1>2 DEF Check
  <2>2. check' \in [Checkers -> Check]
    BY <1>4, <1>8, <2>1 DEF AppPlanIsPaid
  <2>3. UNCHANGED <<boxVars, setting, autojob, app, workVars, changes, known, stateFile, auto, mailed,
                    overlapped, checks>>
    BY <1>8 DEF AppPlanIsPaid
  <2>4. CheckTypes'
    BY <1>1, <2>2, <2>3 DEF CheckTypes
  <2> QED
    BY <2>3, <2>4, CheckFrame
<1>9. ASSUME NEW a \in Apps, NothingToTell(c, a) PROVE TypeOK'
  <2> DEFINE v == AppUpdate(a, check[c].seen)
             todo == check[c].todo \ {a}
  <2>1. v \in 0..MaxAppRelease /\ todo \in SUBSET Apps
    BY <1>3, OfferTypes
  <2>2. \/ Continue(c, known, check[c].new, todo)
        \/ Continue(c, resetAppUpdateInfo(a), check[c].new, todo)
        \/ Continue(c, [known EXCEPT !.apps[a] = v], [check[c].new EXCEPT ![a] = v], todo)
    BY <1>9 DEF NothingToTell
  <2>3. resetAppUpdateInfo(a) \in Info /\ [known EXCEPT !.apps[a] = v] \in Info
    <3>1. known.apps \in AppInfo
      BY <1>2 DEF Info
    <3>2. [known.apps EXCEPT ![a] = 0] \in AppInfo /\ [known.apps EXCEPT ![a] = v] \in AppInfo
      BY <2>1, <3>1, Bounds DEF AppInfo
    <3> HIDE DEF v
    <3> QED
      BY <1>2, <3>2 DEF resetAppUpdateInfo, Info
  <2>4. [check[c].new EXCEPT ![a] = v] \in AppInfo
    BY <1>3, <2>1 DEF AppInfo
  <2>5. /\ check' \in [Checkers -> Check] /\ known' \in Info /\ file' \in Info
        /\ overlapped' \in BOOLEAN /\ unsaved' \in BOOLEAN
    <3> HIDE DEF v, todo
    <3> QED
      BY <1>2, <1>3, <2>1, <2>2, <2>3, <2>4, ContinueTypes
  <2>6. UNCHANGED <<boxVars, setting, autojob, app, workVars, changes, auto, mailed, checks>>
    BY <1>9 DEF NothingToTell
  <2>7. CheckTypes'
    BY <1>1, <2>5, <2>6 DEF CheckTypes
  <2> QED
    BY <2>6, <2>7, CheckFrame
<1>10. ASSUME NEW a \in Apps, AppUpdateFound(c, a) PROVE TypeOK'
  <2> DEFINE v == AppUpdate(a, check[c].seen)
  <2>1. v \in 0..MaxAppRelease
    BY OfferTypes
  <2>2. /\ known' = [known EXCEPT !.apps[a] = v]
        /\ Set(c, [check[c] EXCEPT !.step = "app plan", !.new[a] = v, !.current = {a}])
    BY <1>10 DEF AppUpdateFound
  <2>3. UNCHANGED <<boxVars, setting, autojob, app, workVars, changes, stateFile, auto, mailed,
                    overlapped, checks>>
    BY <1>10 DEF AppUpdateFound
  <2> HIDE DEF v
  <2>4. known' \in Info
    BY <1>2, <2>1, <2>2 DEF Info, AppInfo
  <2>5. [check[c].new EXCEPT ![a] = v] \in AppInfo
    BY <1>3, <2>1 DEF AppInfo
  <2>6. [check[c] EXCEPT !.step = "app plan", !.new[a] = v, !.current = {a}] \in Check
    BY <1>2, <2>5 DEF Check
  <2>7. check' \in [Checkers -> Check]
    BY <1>4, <2>2, <2>6
  <2>8. CheckTypes'
    BY <1>1, <2>3, <2>4, <2>7 DEF CheckTypes
  <2> QED
    BY <2>3, <2>8, CheckFrame
<1> QED
  BY <1>5, <1>6, <1>7, <1>8, <1>9, <1>10

(* The checks of the box. *)
LEMMA BoxCheckTypes ==
    ASSUME TypeOK, NEW c \in Checkers,
           \/ AskBoxUpdate(c) \/ ReadUpdateConfig(c) \/ BoxCheckEnds(c) \/ TellOfBox(c)
           \/ BoxPlanIsPaid(c) \/ NobodyToTell(c) \/ StartBoxCheck
    PROVE  TypeOK'
<1> USE DEF Reading
<1>1. CheckTypes
  BY DEF TypeOK, CheckTypes
<1>2. check[c] \in Check /\ file \in Info /\ known \in Info
  BY <1>1 DEF CheckTypes
<1>3. check[c].version \in 0..MaxRelease /\ check[c].old \in Info
  BY <1>2 DEF Check
<1>4. \A d \in Checkers : \A r \in Check : Set(d, r) => check' \in [Checkers -> Check]
  BY <1>1, SetTypes DEF CheckTypes
<1>5. CASE AskBoxUpdate(c)
  <2>1. [check[c] EXCEPT !.step = "config", !.version = BoxUpdate] \in Check
    BY <1>2, OfferTypes DEF Check, BoxSteps
  <2>2. check' \in [Checkers -> Check]
    BY <1>4, <1>5, <2>1, Empty DEF AskBoxUpdate
  <2>3. UNCHANGED <<boxVars, setting, autojob, app, workVars, changes, known, stateFile, auto, mailed,
                    overlapped, checks>>
    BY <1>5 DEF AskBoxUpdate
  <2>4. CheckTypes'
    BY <1>1, <2>2, <2>3 DEF CheckTypes
  <2> QED
    BY <2>3, <2>4, CheckFrame
<1>6. CASE ReadUpdateConfig(c)
  <2>1. [check[c] EXCEPT !.step = "plan", !.old = file] \in Check
    BY <1>2 DEF Check, BoxSteps
  <2>2. check' \in [Checkers -> Check]
    BY <1>4, <1>6, <2>1, Empty DEF ReadUpdateConfig
  <2>3. known' \in Info
    BY <1>2, <1>3, <1>6 DEF ReadUpdateConfig, Info
  <2>4. UNCHANGED <<boxVars, setting, autojob, app, workVars, changes, stateFile, auto, mailed,
                    overlapped, checks>>
    BY <1>6 DEF ReadUpdateConfig
  <2>5. CheckTypes'
    BY <1>1, <2>2, <2>3, <2>4 DEF CheckTypes
  <2> QED
    BY <2>4, <2>5, CheckFrame
<1>7. CASE BoxCheckEnds(c)
  <2>1. check' \in [Checkers -> Check]
    BY <1>4, <1>7, Empty DEF BoxCheckEnds
  <2>2. UNCHANGED <<boxVars, setting, autojob, app, workVars, changes, known, stateFile, auto, mailed,
                    overlapped, checks>>
    BY <1>7 DEF BoxCheckEnds
  <2>3. CheckTypes'
    BY <1>1, <2>1, <2>2 DEF CheckTypes
  <2> QED
    BY <2>2, <2>3, CheckFrame
<1>8. SaveBoxState(c) => file' \in Info /\ unsaved' \in BOOLEAN
  <2>1. [check[c].old EXCEPT !.box = check[c].version] \in Info
    BY <1>3 DEF Info
  <2> QED
    BY <1>1, <1>2, <2>1, SaveTypes DEF SaveBoxState, CheckTypes
<1>9. CASE TellOfBox(c)
  <2>1. check' \in [Checkers -> Check]
    BY <1>4, <1>9, Empty DEF TellOfBox
  <2>2. mailed' \in [Releases -> Nat]
    <3>1. mailed \in [Releases -> Nat]
      BY <1>1 DEF CheckTypes
    <3>2. PICK v : mailed' = [mailed EXCEPT ![v] = @ + 1]
      BY <1>9 DEF TellOfBox, Mail
    <3>3. \A w \in Releases : mailed'[w] \in Nat
      BY <3>1, <3>2
    <3> QED
      BY <3>1, <3>2, <3>3
  <2>3. UNCHANGED <<boxVars, setting, autojob, app, workVars, changes, known, auto, overlapped, checks>>
    BY <1>9 DEF TellOfBox
  <2>4. CheckTypes'
    BY <1>1, <1>8, <1>9, <2>1, <2>2, <2>3 DEF CheckTypes, TellOfBox
  <2> QED
    BY <2>3, <2>4, CheckFrame
<1>10. CASE BoxPlanIsPaid(c)
  <2>1. [check[c] EXCEPT !.step = "pattern"] \in Check
    BY <1>2 DEF Check, BoxSteps
  <2>2. check' \in [Checkers -> Check]
    BY <1>4, <1>10, <2>1 DEF BoxPlanIsPaid
  <2>3. UNCHANGED <<boxVars, setting, autojob, app, workVars, changes, known, stateFile, auto, mailed,
                    overlapped, checks>>
    BY <1>10 DEF BoxPlanIsPaid
  <2>4. CheckTypes'
    BY <1>1, <2>2, <2>3 DEF CheckTypes
  <2> QED
    BY <2>3, <2>4, CheckFrame
<1>11. CASE NobodyToTell(c)
  <2>1. check' \in [Checkers -> Check]
    BY <1>4, <1>11, Empty DEF NobodyToTell
  <2>2. UNCHANGED <<boxVars, setting, autojob, app, workVars, changes, known, auto, mailed,
                    overlapped, checks>>
    BY <1>11 DEF NobodyToTell
  <2>3. CheckTypes'
    BY <1>1, <1>8, <1>11, <2>1, <2>2 DEF CheckTypes, NobodyToTell
  <2> QED
    BY <2>2, <2>3, CheckFrame
<1>12. CASE StartBoxCheck
  <2>1. "box" \in Checkers
    BY DEF Checkers
  <2>2. [NoCheck EXCEPT !.step = "ask"] \in Check
    BY Empty DEF Check, BoxSteps
  <2>3. check' \in [Checkers -> Check] /\ overlapped' \in BOOLEAN
    BY <1>1, <1>4, <1>12, <2>1, <2>2 DEF StartBoxCheck, BoxCheckStarts, BoxChecked, CheckTypes
  <2>4. known' \in Info
    BY <1>2, <1>12, Bounds DEF StartBoxCheck, Info
  <2>5. checks' \in 0..MaxChecks
    BY <1>1, <1>12, Bounds DEF StartBoxCheck, StartsCheck, CheckTypes
  <2>6. UNCHANGED <<boxVars, setting, autojob, app, stateFile, auto, mailed, workVars, changes>>
    BY <1>12 DEF StartBoxCheck
  <2>7. CheckTypes'
    BY <1>1, <2>3, <2>4, <2>5, <2>6 DEF CheckTypes
  <2> QED
    BY <2>6, <2>7, CheckFrame
<1> QED
  BY <1>5, <1>6, <1>7, <1>9, <1>10, <1>11, <1>12

LEMMA CheckStepTypes == TypeOK /\ CheckStep => TypeOK'
<1>1. "box" \in Checkers
  BY DEF Checkers
<1> QED
  BY <1>1, AppCheckTypes, BoxCheckTypes DEF CheckStep

-----------------------------------------------------------------------------
(* The types, for the updates of the box and the installer. *)

\* What these may change keeps its type.
WorkTypes ==
    /\ version \in Releases /\ box \in {"up", "down", "retired"} /\ autojob \in Patterns
    /\ known \in Info /\ check \in [Checkers -> Check] /\ auto \in AutoState
    /\ lock \in {"none", "box_update", "migrate", "apptask"}
    /\ progress \in Progress /\ task \in Task /\ installer \in Installer
    /\ changes \in 0..MaxChanges

LEMMA WorkFrame ==
    ASSUME TypeOK, WorkTypes',
           UNCHANGED <<caas, kind, released, setting, app, stateFile, mailed, overlapped, checks>>
    PROVE  TypeOK'
BY DEF TypeOK, WorkTypes

(* A task that fails shows it. *)
LEMMA FailTypes ==
    ASSUME TypeOK, TaskFails
    PROVE  progress' \in Progress /\ task' \in Task /\ lock' = "none"
<1>1. progress \in Progress
  BY DEF TypeOK
<1>2. /\ [progress EXCEPT !.migrate = "failed"] \in Progress
      /\ [progress EXCEPT !.update = "failed"] \in Progress
  BY <1>1 DEF Progress, Shown
<1> QED
  BY <1>2, Empty DEF TaskFails

(* A user or the autoupdater updates the box: with known.box a release. *)
LEMMA LatestTypes ==
    ASSUME TypeOK, UpdateToLatest
    PROVE  /\ known.box \in Releases
           /\ version' \in Releases /\ progress' \in Progress /\ known' \in Info /\ auto' \in AutoState
           /\ lock' \in {"none", "box_update", "migrate", "apptask"} /\ task' \in Task
<1>1. /\ known \in Info /\ auto \in AutoState /\ progress \in Progress /\ version \in Releases
      /\ lock \in {"none", "box_update", "migrate", "apptask"} /\ task \in Task
  BY DEF TypeOK
<1>2. known.box \in Releases
  BY <1>1, Bounds DEF UpdateToLatest, Info, Releases
<1>3. CASE DoShortCircuitUpdate
  <2>1. [a \in Apps |-> Offered(a)] \in AppInfo
    BY <1>1 DEF Offered, AppInfo, Info, AutoState
  <2>2. auto' \in AutoState
    BY <1>1, <1>3, <2>1 DEF DoShortCircuitUpdate, AutoState
  <2>3. progress' \in Progress
    BY <1>1, <1>3 DEF DoShortCircuitUpdate, Progress, Shown
  <2> QED
    BY <1>1, <1>2, <1>3, <2>2, <2>3, Empty DEF DoShortCircuitUpdate
<1>4. CASE Update(known.box)
  <2>1. progress' \in Progress
    BY <1>1, <1>4 DEF Update, updating, Progress, Shown
  <2>2. task' \in Task
    BY <1>2, <1>4, Bounds DEF Update, Task
  <2> QED
    BY <1>1, <1>2, <1>4, <2>1, <2>2 DEF Update
<1> QED
  BY <1>3, <1>4 DEF UpdateToLatest

LEMMA UpdateStepTypes == TypeOK /\ LockInv /\ UpdateStep => TypeOK'
<1> SUFFICES ASSUME TypeOK, LockInv, UpdateStep PROVE TypeOK'
  OBVIOUS
<1>1. WorkTypes
  BY DEF TypeOK, WorkTypes
<1>2. changes' = changes + 1 /\ changes < MaxChanges => changes' \in 0..MaxChanges
  BY <1>1, Bounds DEF WorkTypes
<1>3. setting \in Settings /\ task \in Task /\ installer \in Installer /\ progress \in Progress
  BY DEF TypeOK
<1> USE DEF boxVars, otherVars, checkVars
<1>4. CASE UserUpdatesBox \/ AutoUpdateBox
  <2>1. UpdateToLatest /\ UNCHANGED <<caas, kind, released, box, setting, autojob, app, check, stateFile,
                                      mailed, overlapped, installer, changes, checks>>
    BY <1>4 DEF UserUpdatesBox, AutoUpdateBox
  <2>2. WorkTypes'
    BY <1>1, <2>1, LatestTypes DEF WorkTypes
  <2> QED
    BY <2>1, <2>2, WorkFrame
<1>5. CASE Migrate
  <2>1. progress' \in Progress
    BY <1>3, <1>5 DEF Migrate, Progress, Shown
  <2>2. task' \in Task
    BY <1>5, Bounds DEF Migrate, Task
  <2>3. lock' = "migrate" /\ changes' \in 0..MaxChanges
    BY <1>2, <1>5 DEF Migrate, Change
  <2>4. UNCHANGED <<caas, kind, released, version, box, setting, autojob, app, known, auto, check, stateFile,
                    mailed, overlapped, installer, checks>>
    BY <1>5 DEF Migrate
  <2>5. WorkTypes'
    BY <1>1, <2>1, <2>2, <2>3, <2>4 DEF WorkTypes
  <2> QED
    BY <2>4, <2>5, WorkFrame
<1>6. CASE BackupEnds \/ ServerAnswers \/ DownloadFails \/ WatchInstaller
  <2>1. \A s \in {"download", "server", "retire"} : [task EXCEPT !.step = s] \in Task
    BY <1>3 DEF Task
  <2>2. task' \in Task /\ progress' \in Progress /\ (UNCHANGED lock \/ lock' = "none")
    BY <1>3, <1>6, <2>1, FailTypes DEF BackupEnds, ServerAnswers, DownloadFails, WatchInstaller
  <2>3. UNCHANGED <<caas, kind, released, version, box, otherVars, installer>>
    BY <1>6 DEF BackupEnds, ServerAnswers, DownloadFails, WatchInstaller
  <2>4. WorkTypes'
    BY <1>1, <2>2, <2>3 DEF WorkTypes
  <2> QED
    BY <2>3, <2>4, WorkFrame
<1>7. CASE Retire
  <2>1. [task EXCEPT !.step = "lost"] \in Task
    BY <1>3 DEF Task
  <2>2. /\ task' \in Task /\ progress' \in Progress /\ (UNCHANGED lock \/ lock' = "none")
        /\ (UNCHANGED box \/ box' = "retired")
    BY <1>3, <1>7, <2>1, Empty DEF Retire
  <2>3. UNCHANGED <<caas, kind, released, version, otherVars, installer>>
    BY <1>7 DEF Retire
  <2>4. WorkTypes'
    BY <1>1, <2>2, <2>3 DEF WorkTypes
  <2> QED
    BY <2>3, <2>4, WorkFrame
<1>8. CASE StartInstaller
  <2>1. task' \in Task
    BY <1>3, <1>8 DEF StartInstaller, Task
  <2>2. installer' \in Installer
    BY <1>3, <1>8 DEF StartInstaller, Task, Installer
  <2>3. UNCHANGED <<caas, kind, released, version, box, otherVars, lock, progress>>
    BY <1>8 DEF StartInstaller
  <2>4. WorkTypes'
    BY <1>1, <2>1, <2>2, <2>3 DEF WorkTypes
  <2> QED
    BY <2>3, <2>4, WorkFrame
<1>9. CASE InstallerFails \/ SwitchCode \/ ConfigureHost \/ SetupFails
  <2>1. \A s \in {"failed", "configure", "start"} : [installer EXCEPT !.step = s] \in Installer
    BY <1>3 DEF Installer
  <2>2. installer' \in Installer
    BY <1>9, <2>1 DEF InstallerFails, SwitchCode, ConfigureHost, SetupFails
  <2>3. UNCHANGED <<caas, kind, released, version, box, otherVars, lock, progress, task>>
    BY <1>9 DEF InstallerFails, SwitchCode, ConfigureHost, SetupFails
  <2>4. WorkTypes'
    BY <1>1, <2>2, <2>3 DEF WorkTypes
  <2> QED
    BY <2>3, <2>4, WorkFrame
<1>10. CASE StopBox
  <2>1. installer' \in Installer
    BY <1>3, <1>10 DEF StopBox, Installer
  <2>2. FreshMemory /\ box' = "down"
        /\ UNCHANGED <<caas, kind, released, version, setting, app, stateFile, mailed, overlapped, changes, checks>>
    BY <1>10 DEF StopBox
  <2>3. WorkTypes'
    BY <1>1, <1>3, <2>1, <2>2, FreshTypes DEF WorkTypes
  <2> QED
    BY <2>2, <2>3, WorkFrame
<1>11. CASE Crash
  <2>1. installer' \in Installer
    BY <1>3, <1>11 DEF Crash, Installer
  <2>2. FreshMemory /\ changes' \in 0..MaxChanges
        /\ UNCHANGED <<caas, kind, released, version, box, setting, app, stateFile, mailed, overlapped, checks>>
    BY <1>2, <1>11 DEF Crash, Change
  <2>3. WorkTypes'
    BY <1>1, <1>3, <2>1, <2>2, FreshTypes DEF WorkTypes
  <2> QED
    BY <2>2, <2>3, WorkFrame
<1>12. CASE StartCloudron
  <2>1. installer.version \in Releases
    BY <1>12 DEF StartCloudron, LockInv, InstallerFits
  <2>2. version' \in Releases /\ box' = "up" /\ installer' \in Installer
    BY <1>12, <2>1, Empty DEF StartCloudron
  <2>3. UNCHANGED <<caas, kind, released, otherVars, lock, progress, task>>
    BY <1>12 DEF StartCloudron
  <2>4. WorkTypes'
    BY <1>1, <2>2, <2>3 DEF WorkTypes
  <2> QED
    BY <2>3, <2>4, WorkFrame
<1> QED
  BY <1>4, <1>5, <1>6, <1>7, <1>8, <1>9, <1>10, <1>11, <1>12 DEF UpdateStep

-----------------------------------------------------------------------------
(* The types, for the apps and the rest. *)
LEMMA AppStepTypes == TypeOK /\ AppStep => TypeOK'
<1> SUFFICES ASSUME TypeOK, AppStep PROVE TypeOK'
  OBVIOUS
<1>1. WorkTypes /\ app \in [Apps -> Row]
  BY DEF TypeOK, WorkTypes
<1>2. changes' = changes + 1 /\ changes < MaxChanges => changes' \in 0..MaxChanges
  BY <1>1, Bounds DEF WorkTypes
<1>3. /\ setting \in Settings /\ installer \in Installer /\ auto \in AutoState /\ known \in Info
      /\ \A a \in Apps : released.apps[a] \in 1..MaxAppRelease
  BY DEF TypeOK
<1>4. \A a \in Apps : resetAppUpdateInfo(a) \in Info
  BY <1>3, Bounds DEF resetAppUpdateInfo, Info, AppInfo
<1>5. \A a \in Apps : Offered(a) \in 0..MaxAppRelease
  BY <1>3 DEF Offered, Info, AppInfo, AutoState
<1>6. ASSUME NEW a \in Apps, NEW v \in 1..MaxAppRelease, SetUpdating(a, v)
      PROVE  app' \in [Apps -> Row]
  <2>1. [state |-> "pending_update", version |-> app[a].version, target |-> v] \in Row
    BY <1>1, <1>6 DEF Row
  <2> QED
    BY <1>1, <1>6, <2>1 DEF SetUpdating
<1> USE DEF boxVars, appVars, checkVars
<1>7. CASE AutoUpdateApps
  <2>1. auto' \in AutoState
    BY <1>7, Empty DEF AutoUpdateApps, AutoState
  <2> QED
    BY <1>1, <1>7, <2>1 DEF AutoUpdateApps, TypeOK
<1>8. ASSUME NEW a \in Apps, AutoUpdateApp(a) PROVE TypeOK'
  <2>1. auto' \in AutoState
    BY <1>3, <1>8, Empty DEF AutoUpdateApp, AutoState
  <2>2. Offered(a) \in 1..MaxAppRelease
    BY <1>5, <1>8, Bounds DEF AutoUpdateApp
  <2>3. app' \in [Apps -> Row] /\ known' \in Info
    BY <1>1, <1>3, <1>4, <1>6, <1>8, <2>2 DEF AutoUpdateApp
  <2> QED
    BY <1>8, <2>1, <2>3 DEF AutoUpdateApp, TypeOK
<1>9. ASSUME NEW a \in Apps, AutoUpdateThrows(a) PROVE TypeOK'
  <2>1. installer' \in Installer
    BY <1>3, <1>9 DEF AutoUpdateThrows, Installer
  <2>2. FreshMemory
        /\ UNCHANGED <<caas, kind, released, version, box, setting, app, stateFile, mailed, overlapped,
                       changes, checks>>
    BY <1>9 DEF AutoUpdateThrows
  <2>3. WorkTypes'
    BY <1>1, <1>3, <2>1, <2>2, FreshTypes DEF WorkTypes
  <2> QED
    BY <2>2, <2>3, WorkFrame
<1>10. ASSUME NEW a \in Apps, UserUpdatesApp(a) PROVE TypeOK'
  <2>1. app' \in [Apps -> Row] /\ known' \in Info
    BY <1>3, <1>4, <1>6, <1>10 DEF UserUpdatesApp
  <2>2. changes' \in 0..MaxChanges
    BY <1>2, <1>10 DEF UserUpdatesApp, Change
  <2> QED
    BY <1>10, <2>1, <2>2 DEF UserUpdatesApp, TypeOK
<1>11. ASSUME NEW a \in Apps, BeginOther(a) PROVE TypeOK'
  BY <1>11 DEF BeginOther, TypeOK
<1>12. ASSUME NEW a \in Apps, EndOther(a) PROVE TypeOK'
  <2>1. PICK state \in {"installed", "error"} :
            app' = [app EXCEPT ![a].state = state,
                               ![a].version = IF state = "installed" THEN app[a].target ELSE @]
    BY <1>12 DEF EndOther
  <2>2. app' \in [Apps -> Row]
    BY <1>1, <2>1 DEF Row
  <2> QED
    BY <1>12, <2>2 DEF EndOther, TypeOK
<1> QED
  BY <1>7, <1>8, <1>9, <1>10, <1>11, <1>12 DEF AppStep

LEMMA OtherStepTypes == TypeOK /\ OtherStep => TypeOK'
<1> SUFFICES ASSUME TypeOK, OtherStep PROVE TypeOK'
  OBVIOUS
<1>1. changes \in 0..MaxChanges /\ setting \in Settings /\ setting.pattern \in Patterns
  BY DEF TypeOK, Settings
<1>2. Change => changes' \in 0..MaxChanges
  BY <1>1, Bounds DEF Change
<1> USE DEF boxVars, checkVars, workVars
<1>3. CASE Publish
  <2>1. released \in [box : Releases, apps : [Apps -> 1..MaxAppRelease]]
    BY DEF TypeOK
  <2>2. released.box < MaxRelease => released.box + 1 \in Releases
    BY <2>1, Bounds DEF Releases
  <2>3. \A a \in Apps : released.apps[a] < MaxAppRelease => released.apps[a] + 1 \in 1..MaxAppRelease
    BY <2>1, Bounds
  <2>4. released' \in [box : Releases, apps : [Apps -> 1..MaxAppRelease]]
    BY <1>3, <2>1, <2>2, <2>3 DEF Publish
  <2> QED
    BY <1>2, <1>3, <2>4 DEF Publish, TypeOK
<1>4. CASE SetAutoupdatePattern
  <2>1. setting' \in Settings
    BY <1>1, <1>4 DEF SetAutoupdatePattern, Settings, Patterns
  <2> QED
    BY <1>2, <1>4, <2>1 DEF SetAutoupdatePattern, TypeOK
<1>5. CASE AutoupdatePatternChanged
  BY <1>1, <1>5 DEF AutoupdatePatternChanged, TypeOK
<1>6. CASE SetUpdateConfig
  <2>1. setting' \in Settings
    BY <1>1, <1>6 DEF SetUpdateConfig, Settings
  <2> QED
    BY <1>2, <1>6, <2>1 DEF SetUpdateConfig, TypeOK
<1>7. CASE Subscribe
  <2>1. setting' \in Settings
    BY <1>1, <1>7 DEF Subscribe, Settings
  <2> QED
    BY <1>2, <1>7, <2>1 DEF Subscribe, TypeOK
<1> QED
  BY <1>3, <1>4, <1>5, <1>6, <1>7 DEF OtherStep

-----------------------------------------------------------------------------
(* The lock: what has it, and what is shown of it.                         *)

(* Only the new code comes in, and only while nothing is locked, or the    *)
(* box becomes the final release of its prerelease.                        *)
LEMMA LockFrame ==
    ASSUME LockInv, UNCHANGED <<kind, version, box, workVars>>
    PROVE  LockInv'
BY DEF LockInv, WorkFits, InstallerFits, ProgressMatchesLock, workVars

(* A box that starts holds nothing and shows nothing. *)
LEMMA FreshLocks ==
    ASSUME LockInv, FreshMemory
    PROVE  WorkFits' /\ ProgressMatchesLock' /\ lock' = "none" /\ task' = NoTask
BY DEF LockInv, WorkFits, ProgressMatchesLock, FreshMemory, NoTask, NoProgress

(* A task that fails lets go of the lock it has. *)
LEMMA FailLocks ==
    ASSUME TypeOK, LockInv, task.kind # "none", TaskFails
    PROVE  WorkFits' /\ ProgressMatchesLock'
<1>1. /\ progress \in Progress /\ task \in Task
      /\ lock \in {"none", "box_update", "migrate", "apptask"}
  BY DEF TypeOK
<1>2. task' = NoTask /\ lock' = "none"
  BY DEF TaskFails
<1>3. WorkFits'
  BY <1>2 DEF WorkFits, NoTask
<1>4. progress'.update # "running" /\ progress'.migrate # "running"
  BY <1>1 DEF TaskFails, LockInv, WorkFits, ProgressMatchesLock, Progress, Task
<1> QED
  BY <1>2, <1>3, <1>4 DEF ProgressMatchesLock

LEMMA UpdateStepLocks == TypeOK /\ LockInv /\ UpdateStep => LockInv'
<1> SUFFICES ASSUME TypeOK, LockInv, UpdateStep PROVE LockInv'
  OBVIOUS
<1>1. /\ progress \in Progress /\ task \in Task /\ installer \in Installer
      /\ lock \in {"none", "box_update", "migrate", "apptask"}
  BY DEF TypeOK
<1>2. WorkFits /\ InstallerFits /\ ProgressMatchesLock
  BY DEF LockInv
<1> USE DEF boxVars
<1>3. CASE UserUpdatesBox \/ AutoUpdateBox
  <2>1. Up /\ UpdateToLatest /\ UNCHANGED <<kind, box, installer>>
    BY <1>3 DEF UserUpdatesBox, AutoUpdateBox
  <2>2. CASE ShortCircuit(known.box) /\ DoShortCircuitUpdate
    <3>1. kind'[version'] = "final" /\ UNCHANGED <<lock, task>>
      BY <2>1, <2>2 DEF ShortCircuit, DoShortCircuitUpdate
    <3>2. progress'.update # "running" /\ progress'.migrate = progress.migrate
      BY <1>1, <2>2 DEF DoShortCircuitUpdate, Progress
    <3> QED
      BY <1>2, <2>1, <3>1, <3>2 DEF LockInv, WorkFits, InstallerFits, ProgressMatchesLock
  <2>3. CASE Update(known.box)
    <3>1. known.box \in Releases
      BY <2>1, LatestTypes
    <3>2. /\ lock = "none" /\ lock' = "box_update" /\ UNCHANGED version
          /\ task'.kind \in {"update", "upgrade"} /\ task'.step = "backup" /\ task'.version = known.box
      BY <2>3 DEF Update, Free
    <3>3. progress'.update = "running" /\ progress'.migrate = progress.migrate
      BY <1>1, <2>3 DEF Update, updating, Progress
    <3>4. WorkFits'
      BY <3>1, <3>2 DEF WorkFits
    <3>5. ProgressMatchesLock'
      BY <1>2, <3>2, <3>3 DEF ProgressMatchesLock
    <3>6. InstallerFits'
      BY <1>1, <1>2, <2>1, <3>2 DEF InstallerFits, WorkFits, Up, Task
    <3> QED
      BY <3>4, <3>5, <3>6 DEF LockInv
  <2> QED
    BY <2>1, <2>2, <2>3 DEF UpdateToLatest
<1>4. CASE Migrate
  <2>1. /\ lock = "none" /\ lock' = "migrate" /\ box = "up"
        /\ task' = [kind |-> "migrate", step |-> "backup", version |-> 0]
        /\ UNCHANGED <<kind, version, box, installer>>
    BY <1>4 DEF Migrate, Free, Up
  <2>2. progress'.migrate = "running" /\ progress'.update = progress.update
    BY <1>1, <1>4 DEF Migrate, Progress
  <2>3. WorkFits' /\ ProgressMatchesLock'
    BY <1>2, <2>1, <2>2 DEF WorkFits, ProgressMatchesLock
  <2>4. InstallerFits'
    BY <1>1, <1>2, <2>1 DEF InstallerFits, WorkFits, Task
  <2> QED
    BY <2>3, <2>4 DEF LockInv
<1>5. CASE BackupEnds \/ ServerAnswers
  <2>1. /\ box = "up" /\ task.step \in {"backup", "server"} /\ UNCHANGED <<kind, version, box, installer>>
    BY <1>5 DEF BackupEnds, ServerAnswers, Up
  <2>2. InstallerFits'
    BY <1>2, <2>1 DEF InstallerFits
  <2>3. CASE TaskFails
    BY <1>2, <2>1, <2>2, <2>3, FailLocks DEF LockInv, WorkFits
  <2>4. CASE ~TaskFails
    <3>1. /\ task'.kind = task.kind /\ task'.version = task.version /\ UNCHANGED <<lock, progress>>
          /\ task'.step = IF task.step = "backup" /\ task.kind = "update" THEN "download"
                          ELSE IF task.step = "backup" THEN "server" ELSE "retire"
      BY <1>1, <1>5, <2>4 DEF BackupEnds, ServerAnswers, Task
    <3>2. WorkFits'
      BY <1>2, <2>1, <3>1 DEF WorkFits
    <3> QED
      BY <1>2, <2>1, <2>2, <3>1, <3>2 DEF LockInv, ProgressMatchesLock
  <2> QED
    BY <2>3, <2>4
<1>6. CASE DownloadFails \/ WatchInstaller
  <2>1. /\ box = "up" /\ task.step \in {"download", "watch"} /\ TaskFails
        /\ task.step = "watch" => installer.step = "failed"
        /\ UNCHANGED <<kind, version, box, installer>>
    BY <1>6 DEF DownloadFails, WatchInstaller, Up
  <2>2. InstallerFits'
    BY <1>2, <2>1 DEF InstallerFits
  <2> QED
    BY <1>2, <2>1, <2>2, FailLocks DEF LockInv, WorkFits
<1>7. CASE Retire
  <2>1. box = "up" /\ task.step = "retire" /\ UNCHANGED <<kind, version, installer>>
    BY <1>7 DEF Retire, Up
  <2>2. CASE box' = "retired" /\ task' = NoTask /\ lock' = "none" /\ progress' = NoProgress
    <3>1. WorkFits' /\ ProgressMatchesLock'
      BY <2>2 DEF WorkFits, ProgressMatchesLock, NoTask, NoProgress
    <3>2. InstallerFits'
      BY <1>2, <2>1, <2>2 DEF InstallerFits
    <3> QED
      BY <3>1, <3>2 DEF LockInv
  <2>3. CASE task' = [task EXCEPT !.step = "lost"] /\ UNCHANGED <<box, lock, progress>>
    <3>1. task'.kind = task.kind /\ task'.version = task.version /\ task'.step = "lost"
      BY <1>1, <2>3 DEF Task
    <3> QED
      BY <1>2, <2>1, <2>3, <3>1 DEF LockInv, WorkFits, InstallerFits, ProgressMatchesLock
  <2> QED
    BY <1>7, <2>2, <2>3 DEF Retire
<1>8. CASE StartInstaller
  <2>1. /\ box = "up" /\ task.step = "download" /\ task.kind = "update" /\ task.version \in Releases
        /\ installer' = [step |-> "prepare", version |-> task.version, orphan |-> FALSE]
        /\ UNCHANGED <<kind, version, box, lock, progress>>
    BY <1>2, <1>8 DEF StartInstaller, Up, WorkFits
  <2>2. task'.step = "watch" /\ task'.kind = task.kind /\ task'.version = task.version
    BY <1>1, <1>8 DEF StartInstaller, Task
  <2>3. WorkFits' /\ ProgressMatchesLock'
    BY <1>2, <2>1, <2>2 DEF WorkFits, ProgressMatchesLock
  <2>4. InstallerFits'
    BY <2>1, <2>2 DEF InstallerFits
  <2> QED
    BY <2>3, <2>4 DEF LockInv
<1>9. CASE InstallerFails \/ SwitchCode \/ ConfigureHost \/ SetupFails
  <2>1. /\ UNCHANGED <<kind, version, box, lock, progress, task>>
        /\ installer'.version = installer.version /\ installer'.orphan = installer.orphan
        /\ \/ installer'.step = "failed"
           \/ installer.step = "switch" /\ installer'.step = "configure"
           \/ installer.step = "configure" /\ installer'.step = "start"
    BY <1>1, <1>9 DEF InstallerFails, SwitchCode, ConfigureHost, SetupFails, Installer
  <2>2. WorkFits' /\ ProgressMatchesLock'
    BY <1>2, <2>1 DEF WorkFits, ProgressMatchesLock
  <2>3. InstallerFits'
    BY <1>2, <2>1 DEF InstallerFits
  <2> QED
    BY <2>2, <2>3 DEF LockInv
<1>10. CASE StopBox
  <2>1. FreshMemory /\ box' = "down" /\ installer.step = "prepare" /\ UNCHANGED <<kind, version>>
    BY <1>10 DEF StopBox
  <2>2. installer'.step = "switch" /\ installer'.version = installer.version
    BY <1>1, <1>10 DEF StopBox, Installer
  <2>3. InstallerFits'
    BY <1>2, <2>1, <2>2, FreshLocks DEF InstallerFits
  <2> QED
    BY <2>1, <2>3, FreshLocks DEF LockInv
<1>11. CASE StartCloudron
  <2>1. /\ lock = "none" /\ box' = "up" /\ installer' = NoInstaller
        /\ UNCHANGED <<lock, progress, task>>
    BY <1>2, <1>11 DEF StartCloudron, InstallerFits
  <2> QED
    BY <1>2, <2>1 DEF LockInv, WorkFits, InstallerFits, ProgressMatchesLock, NoInstaller
<1>12. CASE Crash
  <2>1. FreshMemory /\ box' = "up" /\ box = "up" /\ UNCHANGED <<kind, version>>
    BY <1>12 DEF Crash, Up
  <2>2. /\ installer'.step = installer.step /\ installer'.version = installer.version
        /\ installer'.orphan = (installer.step = "prepare")
    BY <1>1, <1>12 DEF Crash, Installer
  <2>3. InstallerFits'
    BY <1>2, <2>1, <2>2 DEF InstallerFits
  <2> QED
    BY <2>1, <2>3, FreshLocks DEF LockInv
<1> QED
  BY <1>3, <1>4, <1>5, <1>6, <1>7, <1>8, <1>9, <1>10, <1>11, <1>12 DEF UpdateStep

(* The checks leave the lock alone; a task of an app takes it when it is   *)
(* free and gives it back; a box that throws is as one that crashed.       *)
LEMMA LockKept == TypeOK /\ LockInv /\ [Next]_vars => LockInv'
<1> SUFFICES ASSUME TypeOK, LockInv, [Next]_vars PROVE LockInv'
  OBVIOUS
<1>1. WorkFits /\ InstallerFits /\ ProgressMatchesLock
  BY DEF LockInv
<1>2. CASE CheckStep
  <2>1. UNCHANGED <<kind, version, box, workVars>>
    BY <1>2 DEF CheckStep, StartAppCheck, ReadApps, TellOfApp, AppPlanIsPaid, NothingToTell,
       AppUpdateFound, AskBoxUpdate, ReadUpdateConfig, BoxCheckEnds, TellOfBox, BoxPlanIsPaid,
       NobodyToTell, StartBoxCheck, boxVars
  <2> QED
    BY <2>1, LockFrame
<1>3. CASE UpdateStep
  BY <1>3, UpdateStepLocks
<1>4. CASE AutoUpdateApps \/ \E a \in Apps : AutoUpdateApp(a) \/ UserUpdatesApp(a)
  <2>1. UNCHANGED <<kind, version, box, workVars>>
    BY <1>4 DEF AutoUpdateApps, AutoUpdateApp, UserUpdatesApp, appVars, boxVars, workVars
  <2> QED
    BY <2>1, LockFrame
<1>5. ASSUME NEW a \in Apps, AutoUpdateThrows(a) PROVE LockInv'
  <2>1. installer \in Installer
    BY DEF TypeOK
  <2>2. FreshMemory /\ box' = "up" /\ box = "up" /\ UNCHANGED <<kind, version>>
    BY <1>5 DEF AutoUpdateThrows, boxVars, Up
  <2>3. /\ installer'.step = installer.step /\ installer'.version = installer.version
        /\ installer'.orphan = (installer.step = "prepare")
    BY <1>5, <2>1 DEF AutoUpdateThrows, Installer
  <2>4. InstallerFits'
    BY <1>1, <2>2, <2>3 DEF InstallerFits
  <2> QED
    BY <2>2, <2>4, FreshLocks DEF LockInv
<1>6. ASSUME NEW a \in Apps, BeginOther(a) \/ EndOther(a) PROVE LockInv'
  <2>1. /\ UNCHANGED <<kind, version, box, progress, task, installer>> /\ box = "up"
        /\ lock \in {"none", "apptask"} /\ lock' \in {"none", "apptask"}
    BY <1>6 DEF BeginOther, EndOther, appVars, boxVars, Up, Free
  <2> QED
    BY <1>1, <2>1 DEF LockInv, WorkFits, InstallerFits, ProgressMatchesLock
<1>7. CASE OtherStep \/ UNCHANGED vars
  <2>1. UNCHANGED <<kind, version, box, workVars>>
    BY <1>7 DEF OtherStep, Publish, SetAutoupdatePattern, AutoupdatePatternChanged, SetUpdateConfig,
       Subscribe, boxVars, workVars, vars
  <2> QED
    BY <2>1, LockFrame
<1> QED
  BY <1>2, <1>3, <1>4, <1>5, <1>6, <1>7 DEF Next, AppStep

-----------------------------------------------------------------------------
(* Who is told of what.                                                    *)

(* Nobody is told by a step that leaves the checks of the box and what the *)
(* file says of it alone; releases only get newer.                         *)
LEMMA MailFrame ==
    ASSUME TypeOK, TypeOK', MailInv, UNCHANGED <<mailed, overlapped, unsaved>>,
           file'.box = file.box, released.box <= released'.box,
           \A d \in Checkers :
              check'[d].step \in BoxSteps =>
                 check'[d].step = check[d].step /\ check'[d].version = check[d].version
    PROVE  MailInv'
<1>1. CASE overlapped \/ unsaved
  BY <1>1 DEF MailInv
<1>2. CASE ~overlapped /\ ~unsaved
  <2>1. OneBoxCheck /\ ToldInOrder
    BY <1>2 DEF MailInv
  <2>2. /\ file.box \in 0..MaxRelease /\ released.box \in Releases /\ released'.box \in Releases
        /\ \A d \in Checkers : check[d].version \in 0..MaxRelease
    BY DEF TypeOK, Info, Check
  <2>3. OneBoxCheck'
    BY <2>1 DEF OneBoxCheck
  <2>4. ToldInOrder'
    <3>1. file'.box <= released'.box
      BY <2>1, <2>2, Bounds DEF ToldInOrder, Releases
    <3>2. \A v \in Releases : mailed'[v] <= 1 /\ (mailed'[v] > 0 => v <= file'.box)
      BY <2>1 DEF ToldInOrder
    <3>3. ASSUME NEW d \in Checkers, check'[d].step \in BoxSteps \ {"ask"}
          PROVE  /\ file'.box <= check'[d].version /\ check'[d].version <= released'.box
                 /\ check'[d].step \in {"plan", "pattern"} => file'.box # check'[d].version
      BY <2>1, <2>2, <3>3, Bounds DEF ToldInOrder, Releases
    <3> QED
      BY <3>1, <3>2, <3>3 DEF ToldInOrder, BoxSteps
  <2> QED
    BY <2>3, <2>4 DEF MailInv
<1> QED
  BY <1>1, <1>2

(* A check of the box begins: it has read nothing; if another is at work,  *)
(* they overlap.                                                           *)
LEMMA BeginMail ==
    ASSUME TypeOK, MailInv, NEW c \in Checkers, BoxCheckStarts(c),
           UNCHANGED <<mailed, released, unsaved>>, file'.box = file.box
    PROVE  MailInv'
<1>1. CASE overlapped \/ unsaved \/ BoxChecked
  BY <1>1 DEF MailInv, BoxCheckStarts
<1>2. CASE ~overlapped /\ ~unsaved /\ ~BoxChecked
  <2>1. ToldInOrder /\ \A d \in Checkers : check[d].step \notin BoxSteps
    BY <1>2 DEF MailInv, BoxChecked
  <2>2. \A d \in Checkers : check'[d] = IF d = c THEN [NoCheck EXCEPT !.step = "ask"] ELSE check[d]
    BY DEF TypeOK, BoxCheckStarts, Set
  <2>3. \A d \in Checkers : check'[d].step \in BoxSteps => d = c /\ check'[d].step = "ask"
    BY <2>1, <2>2 DEF NoCheck
  <2>4. OneBoxCheck'
    BY <2>3 DEF OneBoxCheck
  <2>5. ToldInOrder'
    BY <2>1, <2>3 DEF ToldInOrder, BoxSteps
  <2> QED
    BY <2>4, <2>5 DEF MailInv
<1> QED
  BY <1>1, <1>2

LEMMA ContinueMail ==
    ASSUME TypeOK, TypeOK', MailInv, NEW c \in Checkers, NEW found, NEW new, NEW todo,
           Continue(c, found, new, todo), UNCHANGED <<mailed, released>>
    PROVE  MailInv'
<1>1. check \in [Checkers -> Check] /\ released.box \in Releases
  BY DEF TypeOK
<1>2. CASE todo # {}
  <2>1. /\ Set(c, [check[c] EXCEPT !.step = "next", !.new = new, !.todo = todo, !.current = {}])
        /\ UNCHANGED <<file, unsaved, overlapped>>
    BY <1>2 DEF Continue
  <2>2. \A d \in Checkers \ {c} : check'[d] = check[d]
    BY <1>1, <2>1 DEF Set
  <2>3. check'[c].step = "next"
    BY <1>1, <2>1 DEF Set, Check
  <2> QED
    BY <1>1, <2>1, <2>2, <2>3, MailFrame, Bounds DEF BoxSteps, Releases
<1>3. CASE todo = {} /\ unsaved'
  BY <1>3 DEF MailInv
<1>4. CASE todo = {} /\ ~unsaved'
  <2>1. file'.box = file.box /\ UNCHANGED unsaved
    BY <1>1, <1>4 DEF Continue, NewState, saveState, TypeOK
  <2>2. CASE ThenBox(c)
    BY <1>4, <2>1, <2>2, BeginMail DEF Continue
  <2>3. CASE ~ThenBox(c)
    <3>1. Set(c, NoCheck) /\ UNCHANGED overlapped
      BY <1>4, <2>3 DEF Continue
    <3>2. \A d \in Checkers : check'[d] = IF d = c THEN NoCheck ELSE check[d]
      BY <1>1, <3>1 DEF Set
    <3>3. \A d \in Checkers : check'[d].step \in BoxSteps => check'[d] = check[d]
      BY <3>2 DEF NoCheck, BoxSteps
    <3> QED
      BY <1>1, <2>1, <3>1, <3>3, MailFrame, Bounds DEF Releases
  <2> QED
    BY <2>2, <2>3
<1> QED
  BY <1>2, <1>3, <1>4

(* A check of the box that goes on: another one at work has overlapped it. *)
LEMMA BoxCheckMail ==
    ASSUME TypeOK, TypeOK', MailInv, NEW c \in Checkers,
           \/ AskBoxUpdate(c) \/ ReadUpdateConfig(c) \/ BoxCheckEnds(c) \/ TellOfBox(c)
           \/ BoxPlanIsPaid(c) \/ NobodyToTell(c)
    PROVE  MailInv'
<1> USE DEF Reading
<1>1. /\ check \in [Checkers -> Check] /\ file \in Info /\ mailed \in [Releases -> Nat]
      /\ released.box \in Releases /\ version \in Releases /\ check[c] \in Check
  BY DEF TypeOK
<1>2. UNCHANGED <<overlapped, released>> /\ check[c].step \in BoxSteps
  BY DEF AskBoxUpdate, ReadUpdateConfig, BoxCheckEnds, TellOfBox, BoxPlanIsPaid, NobodyToTell,
     boxVars, BoxSteps
<1>3. PICK r : Set(c, r)
  BY DEF AskBoxUpdate, ReadUpdateConfig, BoxCheckEnds, TellOfBox, BoxPlanIsPaid, NobodyToTell
<1>4. \A d \in Checkers : check'[d] = IF d = c THEN r ELSE check[d]
  BY <1>1, <1>3 DEF Set
<1>5. CASE overlapped \/ unsaved'
  BY <1>2, <1>5 DEF MailInv
<1>6. CASE ~overlapped /\ ~unsaved'
  <2>1. OneBoxCheck /\ ToldInOrder /\ ~unsaved
    <3>1. ~unsaved
      BY <1>1, <1>6 DEF AskBoxUpdate, ReadUpdateConfig, BoxCheckEnds, TellOfBox, BoxPlanIsPaid,
         NobodyToTell, SaveBoxState, saveState
    <3> QED
      BY <1>6, <3>1 DEF MailInv
  <2>2. \A d \in Checkers \ {c} : check[d].step \notin BoxSteps /\ check'[d] = check[d]
    BY <1>2, <1>4, <2>1 DEF OneBoxCheck
  <2>3. OneBoxCheck'
    BY <2>2 DEF OneBoxCheck
  <2>4. \A d \in Checkers \ {c} : check'[d].step \notin BoxSteps
    BY <2>2
  <2>5. /\ file.box \in 0..MaxRelease /\ check[c].version \in 0..MaxRelease
        /\ file.box <= released.box
        /\ check[c].step # "ask" => file.box <= check[c].version /\ check[c].version <= released.box
        /\ check[c].step \in {"plan", "pattern"} => file.box # check[c].version
    BY <1>1, <1>2, <2>1 DEF ToldInOrder, Info, Check
  <2>6. SUFFICES ToldInOrder'
    BY <2>3 DEF MailInv
  <2>7. ASSUME UNCHANGED <<file, mailed>>,
               check'[c].step \in BoxSteps \ {"ask"} =>
                  file.box <= check'[c].version /\ check'[c].version <= released.box,
               check'[c].step \in {"plan", "pattern"} => file.box # check'[c].version
        PROVE  ToldInOrder'
    BY <1>2, <2>1, <2>4, <2>7 DEF ToldInOrder, BoxSteps
  <2>8. CASE Set(c, NoCheck) /\ UNCHANGED <<file, mailed>>
    <3>1. check'[c].step = "idle"
      BY <1>1, <2>8 DEF Set, NoCheck
    <3> QED
      BY <2>7, <2>8, <3>1 DEF BoxSteps
  <2>9. CASE AskBoxUpdate(c) /\ ~Set(c, NoCheck)
    <3>1. BoxUpdate = released.box
      BY <2>9 DEF AskBoxUpdate, BoxUpdate
    <3>2. Set(c, [check[c] EXCEPT !.step = "config", !.version = BoxUpdate])
      BY <2>9 DEF AskBoxUpdate
    <3>3. check'[c].step = "config" /\ check'[c].version = released.box
      BY <1>1, <3>1, <3>2 DEF Set, Check
    <3>4. UNCHANGED <<file, mailed>>
      BY <2>9 DEF AskBoxUpdate
    <3>5. released.box <= released.box
      BY <1>1, Bounds DEF Releases
    <3> QED
      BY <2>5, <2>7, <3>3, <3>4, <3>5
  <2>10. CASE ReadUpdateConfig(c) /\ ~Set(c, NoCheck)
    <3>1. /\ check[c].step = "config" /\ file.box # check[c].version /\ UNCHANGED <<file, mailed>>
          /\ Set(c, [check[c] EXCEPT !.step = "plan", !.old = file])
      BY <2>10 DEF ReadUpdateConfig
    <3>2. check'[c].step = "plan" /\ check'[c].version = check[c].version
      BY <1>1, <3>1 DEF Set, Check
    <3> QED
      BY <2>5, <2>7, <3>1, <3>2
  <2>11. CASE BoxPlanIsPaid(c)
    <3>1. check[c].step = "plan" /\ UNCHANGED <<file, mailed>>
      BY <2>11 DEF BoxPlanIsPaid
    <3>2. check'[c].step = "pattern" /\ check'[c].version = check[c].version
      BY <1>1, <2>11 DEF BoxPlanIsPaid, Set, Check
    <3> QED
      BY <2>5, <2>7, <3>1, <3>2
  <2>12. CASE TellOfBox(c) \/ NobodyToTell(c)
    <3>1. /\ check[c].step \in {"plan", "pattern"} /\ Set(c, NoCheck) /\ SaveBoxState(c)
          /\ Mail(check[c].version) \/ UNCHANGED mailed
      BY <2>12 DEF TellOfBox, NobodyToTell
    <3>2. \A d \in Checkers : check'[d].step \notin BoxSteps
      BY <1>1, <2>4, <3>1 DEF Set, NoCheck, BoxSteps
    <3>3. file'.box = check[c].version
      BY <1>1, <1>6, <3>1 DEF SaveBoxState, saveState, Check, Info
    <3>4. file.box < check[c].version /\ check[c].version <= released.box
      BY <2>5, <3>1, Bounds
    <3>5. ASSUME NEW v \in Releases
          PROVE  mailed'[v] <= 1 /\ (mailed'[v] > 0 => v <= file'.box)
      <4>1. mailed[v] \in Nat /\ v \in Nat /\ mailed[v] <= 1 /\ (mailed[v] > 0 => v <= file.box)
        BY <1>1, <2>1, Bounds DEF ToldInOrder, Releases
      <4>2. mailed'[v] = mailed[v] \/ (v = check[c].version /\ mailed'[v] = mailed[v] + 1)
        BY <1>1, <3>1 DEF Mail
      <4> QED
        BY <2>5, <3>3, <3>4, <4>1, <4>2, Bounds
    <3> QED
      BY <1>2, <3>2, <3>3, <3>4, <3>5 DEF ToldInOrder, BoxSteps
  <2>13. CASE BoxCheckEnds(c)
    BY <2>8, <2>13 DEF BoxCheckEnds
  <2> QED
    BY <2>8, <2>9, <2>10, <2>11, <2>12, <2>13 DEF AskBoxUpdate, ReadUpdateConfig
<1> QED
  BY <1>5, <1>6

(* A check of the apps keeps what the file says of the box.                *)
LEMMA AppCheckMail ==
    ASSUME TypeOK, TypeOK', MailInv, NEW c \in Checkers,
           \/ StartAppCheck(c) \/ ReadApps(c) \/ TellOfApp(c) \/ AppPlanIsPaid(c)
           \/ \E a \in Apps : NothingToTell(c, a) \/ AppUpdateFound(c, a)
    PROVE  MailInv'
<1> USE DEF Reading, boxVars
<1>1. check \in [Checkers -> Check] /\ released.box \in Releases
  BY DEF TypeOK
<1>2. UNCHANGED <<mailed, released>>
  BY DEF StartAppCheck, ReadApps, TellOfApp, AppPlanIsPaid, NothingToTell, AppUpdateFound
<1>3. CASE \E found, new, todo : Continue(c, found, new, todo)
  BY <1>2, <1>3, ContinueMail
<1>4. CASE \/ StartAppCheck(c) \/ ReadApps(c) \/ AppPlanIsPaid(c)
           \/ \E a \in Apps : AppUpdateFound(c, a)
  <2>1. UNCHANGED <<stateFile, overlapped>>
    BY <1>4 DEF StartAppCheck, ReadApps, AppPlanIsPaid, AppUpdateFound
  <2>2. PICK s : Set(c, s)
    BY <1>4 DEF StartAppCheck, ReadApps, AppPlanIsPaid, AppUpdateFound
  <2>3. \A d \in Checkers : check'[d] = IF d = c THEN s ELSE check[d]
    BY <1>1, <2>2 DEF Set
  <2>4. check'[c].step \in {"apps", "next", "idle", "app plan", "app pattern"}
    <3>1. CASE StartAppCheck(c)
      BY <1>1, <3>1 DEF StartAppCheck, Set, NoCheck
    <3>2. CASE ReadApps(c)
      <4> DEFINE seen == [a \in Apps |-> app[a].version]
                 r == [check[c] EXCEPT !.step = "next", !.todo = Apps, !.seen = seen]
      <4>1. Set(c, r) \/ Set(c, NoCheck)
        BY <3>2 DEF ReadApps
      <4> HIDE DEF seen
      <4>2. r.step = "next" /\ NoCheck.step = "idle"
        BY <1>1 DEF Check, NoCheck
      <4> HIDE DEF r
      <4> QED
        BY <1>1, <4>1, <4>2 DEF Set
    <3>3. CASE AppPlanIsPaid(c)
      BY <1>1, <3>3 DEF AppPlanIsPaid, Set, Check
    <3>4. CASE \E a \in Apps : AppUpdateFound(c, a)
      <4>1. PICK a \in Apps : AppUpdateFound(c, a)
        BY <3>4
      <4> DEFINE v == AppUpdate(a, check[c].seen)
                 r == [check[c] EXCEPT !.step = "app plan", !.new[a] = v, !.current = {a}]
      <4>2. Set(c, r)
        BY <4>1 DEF AppUpdateFound
      <4> HIDE DEF v
      <4>3. r.step = "app plan"
        BY <1>1 DEF Check
      <4> HIDE DEF r
      <4> QED
        BY <1>1, <4>2, <4>3 DEF Set
    <3> QED
      BY <1>4, <3>1, <3>2, <3>3, <3>4
  <2>5. \A d \in Checkers : check'[d].step \in BoxSteps => check'[d] = check[d]
    BY <2>3, <2>4 DEF BoxSteps
  <2> QED
    BY <1>1, <1>2, <2>1, <2>5, MailFrame, Bounds DEF Releases
<1> QED
  BY <1>3, <1>4 DEF TellOfApp, NothingToTell

LEMMA MailKept == TypeOK /\ TypeOK' /\ MailInv /\ [Next]_vars => MailInv'
<1> SUFFICES ASSUME TypeOK, TypeOK', MailInv, [Next]_vars PROVE MailInv'
  OBVIOUS
<1>1. released.box \in Nat /\ released.box <= released.box
  BY Bounds DEF TypeOK, Releases
<1>2. CASE CheckStep
  <2>1. CASE StartBoxCheck
    <3>1. "box" \in Checkers /\ BoxCheckStarts("box") /\ UNCHANGED <<mailed, released, stateFile>>
      BY <2>1 DEF StartBoxCheck, Checkers, boxVars
    <3> QED
      BY <3>1, BeginMail
  <2> QED
    BY <1>2, <2>1, AppCheckMail, BoxCheckMail DEF CheckStep
<1>3. CASE StopBox \/ Crash \/ \E a \in Apps : AutoUpdateThrows(a)
  <2>1. FreshMemory /\ UNCHANGED <<stateFile, mailed, overlapped, released>>
    BY <1>3 DEF StopBox, Crash, AutoUpdateThrows, boxVars
  <2>2. \A d \in Checkers : check'[d].step \notin BoxSteps
    BY <2>1 DEF FreshMemory, NoCheck, BoxSteps
  <2> QED
    BY <1>1, <2>1, <2>2, MailFrame
<1>4. CASE Publish
  <2>1. UNCHANGED <<check, stateFile, mailed, overlapped>>
    BY <1>4 DEF Publish, checkVars
  <2>2. released'.box = released.box \/ released'.box = released.box + 1
    BY <1>4 DEF Publish, TypeOK
  <2> QED
    BY <1>1, <2>1, <2>2, MailFrame
<1>5. CASE \/ UserUpdatesBox \/ AutoUpdateBox \/ Migrate \/ BackupEnds \/ ServerAnswers \/ Retire
           \/ StartInstaller \/ DownloadFails \/ WatchInstaller \/ InstallerFails \/ SwitchCode
           \/ ConfigureHost \/ StartCloudron \/ SetupFails
  <2>1. UNCHANGED <<released, check, stateFile, mailed, overlapped>>
    BY <1>5 DEF UserUpdatesBox, AutoUpdateBox, Migrate, BackupEnds, ServerAnswers, Retire,
       StartInstaller, DownloadFails, WatchInstaller, InstallerFails, SwitchCode, ConfigureHost,
       StartCloudron, SetupFails, boxVars, otherVars, checkVars
  <2> QED
    BY <1>1, <2>1, MailFrame
<1>6. CASE \/ AutoUpdateApps \/ \E a \in Apps : AutoUpdateApp(a) \/ UserUpdatesApp(a)
           \/ \E a \in Apps : BeginOther(a) \/ EndOther(a)
           \/ SetAutoupdatePattern \/ AutoupdatePatternChanged \/ SetUpdateConfig \/ Subscribe
           \/ UNCHANGED vars
  <2>1. UNCHANGED <<released, check, stateFile, mailed, overlapped>>
    BY <1>6 DEF AutoUpdateApps, AutoUpdateApp, UserUpdatesApp, BeginOther, EndOther,
       SetAutoupdatePattern, AutoupdatePatternChanged, SetUpdateConfig, Subscribe, appVars, boxVars,
       checkVars, vars
  <2> QED
    BY <1>1, <2>1, MailFrame
<1> QED
  BY <1>2, <1>3, <1>4, <1>5, <1>6 DEF Next, UpdateStep, AppStep, OtherStep

-----------------------------------------------------------------------------
(* The theorems. *)
LEMMA Inductive == Spec => [](TypeOK /\ LockInv /\ MailInv)
<1>1. Init => TypeOK /\ LockInv /\ MailInv
  <2> SUFFICES ASSUME Init PROVE TypeOK /\ LockInv /\ MailInv
    OBVIOUS
  <2>1. TypeOK
    BY InitTypes
  <2>2. /\ lock = "none" /\ box = "up" /\ installer = NoInstaller /\ task = NoTask
        /\ progress = NoProgress
    BY DEF Init
  <2>3. LockInv
    BY <2>2 DEF LockInv, WorkFits, InstallerFits, ProgressMatchesLock, NoInstaller, NoTask, NoProgress
  <2>4. /\ \A c \in Checkers : check[c].step = "idle"
        /\ file.box = 0 /\ \A v \in Releases : mailed[v] = 0
    BY DEF Init, NoCheck, Nothing
  <2>5. released.box \in Releases
    BY <2>1 DEF TypeOK
  <2>6. MailInv
    BY <2>4, <2>5, Bounds DEF MailInv, OneBoxCheck, ToldInOrder, BoxSteps, Releases
  <2> QED
    BY <2>1, <2>3, <2>6
<1>2. TypeOK /\ LockInv /\ MailInv /\ [Next]_vars => (TypeOK /\ LockInv /\ MailInv)'
  <2> SUFFICES ASSUME TypeOK, LockInv, MailInv, [Next]_vars PROVE (TypeOK /\ LockInv /\ MailInv)'
    OBVIOUS
  <2>1. TypeOK'
    <3>1. CASE UNCHANGED vars
      BY <3>1 DEF vars, TypeOK
    <3> QED
      BY <3>1, CheckStepTypes, UpdateStepTypes, AppStepTypes, OtherStepTypes DEF Next
  <2> QED
    BY <2>1, LockKept, MailKept
<1> QED
  BY <1>1, <1>2, PTL DEF Spec

(***************************************************************************)
(* Every variable holds a value the code can give it, whatever is released *)
(* when: the release that is installed and the one the installer brings    *)
(* are releases of the box.                                                *)
(***************************************************************************)
THEOREM TypeCorrect == Spec => []TypeOK
BY Inductive, PTL

(***************************************************************************)
(* The progress that is shown is that of the operation that holds the lock *)
(* (cloudron.js updateToLatest, updateError, upgradeError, migrate), but   *)
(* for the change to a final release, which asks for no lock.              *)
(***************************************************************************)
THEOREM ProgressIsLock == Spec => []ProgressMatchesLock
<1>1. LockInv => ProgressMatchesLock
  BY DEF LockInv
<1> QED
  BY <1>1, Inductive, PTL

(***************************************************************************)
(* The installer stops a box only while that box waits for it and holds    *)
(* the lock (update.sh, installer.sh), unless the box died meanwhile.      *)
(***************************************************************************)
THEOREM InstallerLocked == Spec => []InstallerFindsLock
<1>1. LockInv => InstallerFindsLock
  BY DEF LockInv, WorkFits, InstallerFits, InstallerFindsLock
<1> QED
  BY <1>1, Inductive, PTL

(***************************************************************************)
(* As long as no two checks of the box were at work at once and no write   *)
(* of the file failed, nobody is mailed twice of a release, whatever the   *)
(* checks of the apps write to the same file meanwhile (updatechecker.js   *)
(* checkAppUpdates, checkBoxUpdates) and however often the box crashes.    *)
(***************************************************************************)
THEOREM ToldOnce == Spec => []BoxMailedOnce
<1>1. MailInv => BoxMailedOnce
  BY DEF MailInv, ToldInOrder, BoxMailedOnce
<1> QED
  BY <1>1, Inductive, PTL

=============================================================================
