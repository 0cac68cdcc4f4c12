------------------------------ MODULE Updates -------------------------------
(***************************************************************************)
(* Updates: how the box learns of new versions of itself and of its apps,  *)
(* whom it tells, what it installs by itself, and how it is replaced       *)
(* (src/src/updatechecker.js, appstore.js, cloudron.js, cron.js, apps.js,  *)
(* progress.js, src/src/scripts/update.sh, src/scripts/installer.sh).      *)
(*                                                                         *)
(* The checks for updates of apps and of the box are two jobs of cron and  *)
(* one request; each waits for the database and the app store in between,  *)
(* and all of them share what is known in memory and one file.  The box    *)
(* may crash at any time; systemd starts it again.  The installer runs     *)
(* outside of the box and stops it.                                        *)
(***************************************************************************)
EXTENDS Naturals, FiniteSets

CONSTANTS
    Apps,           \* apps that come from the app store
    Histories,      \* what the releases of the box are to the ones before: "update",
                    \* "upgrade" (needs a new server), "major" (another major version),
                    \* "prerelease", or "final" (what a prerelease becomes)
    MaxRelease,     \* bound: releases of the box
    MaxAppRelease,  \* bound: releases of an app
    MaxChanges,     \* bound: settings, manual updates, crashes and other work
    MaxChecks       \* bound: checks

ASSUME UpdatesAssumption ==
    /\ IsFiniteSet(Apps)
    /\ MaxRelease \in Nat \ {0} /\ MaxAppRelease \in Nat \ {0}
    /\ MaxChanges \in Nat /\ MaxChecks \in Nat
    /\ \A k \in Histories :
         /\ DOMAIN k = 1..MaxRelease
         /\ \A v \in DOMAIN k : k[v] = "final" => v > 1 /\ k[v - 1] = "prerelease"

VARIABLES
    caas,      \* the box is hosted by the provider of the app store
    kind,      \* kind[v]: what release v of the box is to the one before it
    released,  \* the newest release of the box, and of each app
    setting,   \* the saved settings that matter here
    autojob,   \* the pattern the autoupdater runs with
    version,   \* the release of the box that is installed
    app,       \* app[a]: the row of an app
    box,       \* "up", "down" or "retired"
    known,     \* what is known in memory: the update of the box, of each app; 0 for none
    file,      \* updatechecker.json: the versions the user was told of
    check,     \* check[c]: how far a check is and what it has read
    auto,      \* the automatic update of the apps at work
    lock,      \* the operation that holds the lock
    progress,  \* what the progress of an update and of a migration shows
    task,      \* how far the update, upgrade or migration of the box is
    installer, \* the installer, outside of the box
    mailed,    \* mailed[v]: mails about release v of the box
    overlapped,\* two checks for updates of the box were at work at once
    unsaved,   \* a write of the file has failed
    changes, checks

vars == <<caas, kind, released, setting, autojob, version, app, box, known, file, check, auto,
          lock, progress, task, installer, mailed, overlapped, unsaved, changes, checks>>

Releases == 1..MaxRelease

\* The job of cron for the apps, the one for the box, and the request of a user.
Checkers == {"apps", "box", "user"}

NoInfo == [a \in Apps |-> 0]
Nothing == [box |-> 0, apps |-> NoInfo]
NoCheck == [step |-> "idle", version |-> 0, old |-> Nothing, new |-> NoInfo,
            todo |-> {}, current |-> {}, seen |-> NoInfo]
NoAuto == [todo |-> {}, apps |-> NoInfo, shared |-> FALSE]
NoTask == [kind |-> "none", step |-> "idle", version |-> 0]
NoInstaller == [step |-> "off", version |-> 0, orphan |-> FALSE]
NoProgress == [update |-> "none", migrate |-> "none"]

\* A box that runs its first release; nobody was told of anything.
Init ==
    /\ caas \in BOOLEAN
    /\ kind \in Histories
    /\ released \in [box : Releases, apps : [Apps -> 1..MaxAppRelease]]
    /\ setting \in [pattern : {"daily", "never"}, prerelease : {FALSE}, plan : {"free", "paid"}]
    /\ autojob = setting.pattern
    /\ version = 1
    /\ app = [a \in Apps |-> [state |-> "installed", version |-> 1, target |-> 1]]
    /\ box = "up"
    /\ known = Nothing
    /\ file = Nothing
    /\ check = [c \in Checkers |-> NoCheck]
    /\ auto = NoAuto
    /\ lock = "none"
    /\ progress = NoProgress
    /\ task = NoTask
    /\ installer = NoInstaller
    /\ mailed = [v \in Releases |-> 0]
    /\ overlapped = FALSE
    /\ unsaved = FALSE
    /\ changes = 0
    /\ checks = 0

boxVars == <<caas, kind, released, version, box>>
workVars == <<lock, progress, task, installer>>
stateFile == <<file, unsaved>>
checkVars == <<check, stateFile, mailed, overlapped>>

Up == box = "up"
Change == changes < MaxChanges /\ changes' = changes + 1

-----------------------------------------------------------------------------
\* What is known in memory.

\* The automatic update keeps the object it was given: it sees what is removed from
\* it until a check makes a new one.
Offered(a) == IF auto.shared THEN known.apps[a] ELSE auto.apps[a]

ForgetApps ==
    /\ known' = [known EXCEPT !.apps = NoInfo]
    /\ auto' = [auto EXCEPT !.apps = [a \in Apps |-> Offered(a)], !.shared = FALSE]

resetAppUpdateInfo(a) == [known EXCEPT !.apps[a] = 0]

\* What the app store offers: the newest release, if it is newer than what the
\* request names.
BoxUpdate == IF released.box > version THEN released.box ELSE 0
AppUpdate(a, seen) == IF released.apps[a] > seen[a] THEN released.apps[a] ELSE 0

\* Mails go to those who have no automatic updates: by their plan, or by their pattern.
MailsByPlan == setting.plan = "free"
MailsByPattern == setting.pattern = "never"

-----------------------------------------------------------------------------
\* Checks for updates of the apps.

Reading(c, step) == Up /\ check[c].step = step
Set(c, r) == check' = [check EXCEPT ![c] = r]

StartsCheck == checks < MaxChecks /\ checks' = checks + 1

\* A request checks the box after the apps, in the same turn.
ThenBox(c) == c = "user"

BoxSteps == {"ask", "config", "plan", "pattern"}
BoxChecked == \E c \in Checkers : check[c].step \in BoxSteps

BoxCheckStarts(c) ==
    /\ Set(c, [NoCheck EXCEPT !.step = "ask"])
    /\ overlapped' = (overlapped \/ BoxChecked)

\* A write that fails is ignored, and leaves the file as it was or empty.
saveState(state) ==
    \/ file' = state /\ UNCHANGED unsaved
    \/ file' \in {file, Nothing} /\ unsaved' = TRUE

\* A mutant: the file is written with what it said of the box when the check began.
StateAsRead(c, new) == [box |-> check[c].old.box, apps |-> new]

\* What the check of the apps saves: what the file says of the box by now is kept.
NewState(c, new) == [box |-> file.box, apps |-> new]

\* The check has found all this and goes on with the apps of todo, or ends.
Continue(c, found, new, todo) ==
    IF todo # {}
    THEN /\ Set(c, [check[c] EXCEPT !.step = "next", !.new = new, !.todo = todo, !.current = {}])
         /\ known' = found
         /\ UNCHANGED <<stateFile, overlapped>>
    ELSE /\ saveState(NewState(c, new))
         /\ IF ThenBox(c)
            THEN BoxCheckStarts(c) /\ known' = [found EXCEPT !.box = 0]
            ELSE Set(c, NoCheck) /\ known' = found /\ UNCHANGED overlapped

StartAppCheck(c) ==
    /\ c # "box"
    /\ Reading(c, "idle")
    /\ StartsCheck
    /\ ForgetApps
    /\ Set(c, [NoCheck EXCEPT !.step = "apps", !.old = file])
    /\ UNCHANGED <<boxVars, setting, autojob, app, stateFile, mailed, overlapped, workVars, changes>>

\* The rows of the apps, or an error, which also ends the request.
ReadApps(c) ==
    /\ Reading(c, "apps")
    /\ \/ Set(c, [check[c] EXCEPT !.step = "next", !.todo = Apps,
                                  !.seen = [a \in Apps |-> app[a].version]])
       \/ Set(c, NoCheck)
    /\ UNCHANGED <<boxVars, setting, autojob, app, known, stateFile, auto, mailed, overlapped, workVars,
                   changes, checks>>

\* The store does not answer, or has nothing newer or what the user was told of.
NothingToTell(c, a) ==
    LET v == AppUpdate(a, check[c].seen)
        todo == check[c].todo \ {a}
    IN /\ Reading(c, "next") /\ a \in check[c].todo
       /\ \/ Continue(c, known, check[c].new, todo)
          \/ /\ v = 0
             /\ Continue(c, resetAppUpdateInfo(a), check[c].new, todo)
          \/ /\ v # 0 /\ v = check[c].old.apps[a]
             /\ Continue(c, [known EXCEPT !.apps[a] = v], [check[c].new EXCEPT ![a] = v], todo)
       /\ UNCHANGED <<boxVars, setting, autojob, app, auto, mailed, workVars, changes, checks>>

\* There is news for the user.
AppUpdateFound(c, a) ==
    LET v == AppUpdate(a, check[c].seen)
    IN /\ Reading(c, "next") /\ a \in check[c].todo
       /\ v # 0 /\ v # check[c].old.apps[a]
       /\ known' = [known EXCEPT !.apps[a] = v]
       /\ Set(c, [check[c] EXCEPT !.step = "app plan", !.new[a] = v, !.current = {a}])
       /\ UNCHANGED <<boxVars, setting, autojob, app, stateFile, auto, mailed, overlapped, workVars,
                      changes, checks>>

\* An error or a mail ends it; who pays is asked for the pattern, which ends it too.
TellOfApp(c) ==
    /\ \/ Reading(c, "app plan")
       \/ Reading(c, "app pattern")
    /\ Continue(c, known, check[c].new, check[c].todo \ check[c].current)
    /\ UNCHANGED <<boxVars, setting, autojob, app, auto, mailed, workVars, changes, checks>>

AppPlanIsPaid(c) ==
    /\ Reading(c, "app plan")
    /\ ~MailsByPlan
    /\ Set(c, [check[c] EXCEPT !.step = "app pattern"])
    /\ UNCHANGED <<boxVars, setting, autojob, app, known, stateFile, auto, mailed, overlapped, workVars,
                   changes, checks>>

-----------------------------------------------------------------------------
\* Checks for updates of the box.

StartBoxCheck ==
    /\ Reading("box", "idle")
    /\ StartsCheck
    /\ BoxCheckStarts("box")
    /\ known' = [known EXCEPT !.box = 0]
    /\ UNCHANGED <<boxVars, setting, autojob, app, stateFile, auto, mailed, workVars, changes>>

\* The store has a newer release, or has none or does not answer.
AskBoxUpdate(c) ==
    /\ Reading(c, "ask")
    /\ \/ /\ BoxUpdate # 0
          /\ Set(c, [check[c] EXCEPT !.step = "config", !.version = BoxUpdate])
       \/ Set(c, NoCheck)
    /\ UNCHANGED <<boxVars, setting, autojob, app, known, stateFile, auto, mailed, overlapped, workVars,
                   changes, checks>>

\* The box is told of the release, unless it is a prerelease nobody wants; the state
\* of the file is read before the next wait.
ReadUpdateConfig(c) ==
    LET v == check[c].version
    IN /\ Reading(c, "config")
       /\ kind[v] = "prerelease" => setting.prerelease
       /\ known' = [known EXCEPT !.box = v]
       /\ Set(c, IF file.box = v THEN NoCheck
                                 ELSE [check[c] EXCEPT !.step = "plan", !.old = file])
       /\ UNCHANGED <<boxVars, setting, autojob, app, stateFile, auto, mailed, overlapped, workVars,
                      changes, checks>>

\* A query or the store fails, or the prerelease is not wanted: nothing was saved.
BoxCheckEnds(c) ==
    /\ \/ Reading(c, "config")
       \/ Reading(c, "plan")
    /\ Set(c, NoCheck)
    /\ UNCHANGED <<boxVars, setting, autojob, app, known, stateFile, auto, mailed, overlapped, workVars,
                   changes, checks>>

\* The state as it was read before the waits, with this release.
SaveBoxState(c) == saveState([check[c].old EXCEPT !.box = check[c].version])

Mail(v) == mailed' = [mailed EXCEPT ![v] = @ + 1]

TellOfBox(c) ==
    /\ \/ Reading(c, "plan") /\ MailsByPlan
       \/ Reading(c, "pattern") /\ MailsByPattern
    /\ Mail(check[c].version)
    /\ SaveBoxState(c)
    /\ Set(c, NoCheck)
    /\ UNCHANGED <<boxVars, setting, autojob, app, known, auto, overlapped, workVars, changes, checks>>

BoxPlanIsPaid(c) ==
    /\ Reading(c, "plan")
    /\ ~MailsByPlan
    /\ Set(c, [check[c] EXCEPT !.step = "pattern"])
    /\ UNCHANGED <<boxVars, setting, autojob, app, known, stateFile, auto, mailed, overlapped, workVars,
                   changes, checks>>

\* The box updates itself, or the pattern could not be read.
NobodyToTell(c) ==
    /\ Reading(c, "pattern")
    /\ SaveBoxState(c)
    /\ Set(c, NoCheck)
    /\ UNCHANGED <<boxVars, setting, autojob, app, known, auto, mailed, overlapped, workVars,
                   changes, checks>>

-----------------------------------------------------------------------------
\* The lock, and the progress the webadmin shows.

Free == lock = "none"

updating == [progress EXCEPT !.update = "running"]

\* A mutant: a failure is shown and the lock is kept.
FailsLocked ==
    /\ progress' = IF task.kind = "migrate" THEN [progress EXCEPT !.migrate = "failed"]
                                            ELSE [progress EXCEPT !.update = "failed"]
    /\ task' = NoTask
    /\ UNCHANGED lock

\* updateError, upgradeError and the unlock of a migration, with what their callers do.
TaskFails ==
    /\ progress' = IF task.kind = "migrate" THEN [progress EXCEPT !.migrate = "failed"]
                                            ELSE [progress EXCEPT !.update = "failed"]
    /\ task' = NoTask
    /\ lock' = "none"

\* Memory of a box that has just been started.
FreshMemory ==
    /\ known' = Nothing
    /\ check' = [c \in Checkers |-> NoCheck]
    /\ auto' = NoAuto
    /\ lock' = "none"
    /\ progress' = NoProgress
    /\ task' = NoTask
    /\ autojob' = setting.pattern

-----------------------------------------------------------------------------
\* Updates of the box.

SameMajor(v) == kind[v] # "major"

\* Only the name changes: the box is the prerelease of this release.
ShortCircuit(v) == kind[v] = "final" /\ v = version + 1

\* A mutant: what is known is reset first.
ShortCircuitAfterReset ==
    /\ known' = Nothing
    /\ version' = known'.box
    /\ progress' = [progress EXCEPT !.update = "none"]
    /\ auto' = [auto EXCEPT !.apps = [a \in Apps |-> Offered(a)], !.shared = FALSE]
    /\ UNCHANGED <<lock, task>>

DoShortCircuitUpdate ==
    /\ version' = known.box
    /\ progress' = [progress EXCEPT !.update = "none"]
    /\ known' = Nothing
    /\ auto' = [auto EXCEPT !.apps = [a \in Apps |-> Offered(a)], !.shared = FALSE]
    /\ UNCHANGED <<lock, task>>

\* Who is not hosted by the provider is not upgraded to a new server.
CanUpdate(v) == kind[v] = "upgrade" => caas

Update(v) ==
    /\ Free
    /\ lock' = "box_update"
    /\ progress' = updating
    /\ task' = [kind |-> IF kind[v] = "upgrade" THEN "upgrade" ELSE "update",
                step |-> "backup", version |-> v]
    /\ UNCHANGED <<version, known, auto>>

UpdateToLatest ==
    /\ known.box # 0
    /\ IF ShortCircuit(known.box) THEN DoShortCircuitUpdate
                                  ELSE CanUpdate(known.box) /\ Update(known.box)

\* A user who asks for it may have any release.
UserUpdatesBox ==
    /\ Up
    /\ UpdateToLatest
    /\ UNCHANGED <<caas, kind, released, box, setting, autojob, app, checkVars, installer,
                   changes, checks>>

\* The job of the autoupdater, when it finds an update of the box.
AutoUpdateBox ==
    /\ Up
    /\ autojob # "never"
    /\ known.box # 0 /\ SameMajor(known.box)
    /\ UpdateToLatest
    /\ UNCHANGED <<caas, kind, released, box, setting, autojob, app, checkVars, installer,
                   changes, checks>>

Migrate ==
    /\ Up /\ caas
    /\ Change
    /\ Free
    /\ lock' = "migrate"
    /\ progress' = [progress EXCEPT !.migrate = "running"]
    /\ task' = [kind |-> "migrate", step |-> "backup", version |-> 0]
    /\ UNCHANGED <<boxVars, setting, autojob, app, known, auto, checkVars, installer, checks>>

otherVars == <<setting, autojob, app, known, auto, checkVars, changes, checks>>

\* The backup before it is done, or failed.
BackupEnds ==
    /\ Up /\ task.step = "backup"
    /\ \/ /\ task' = [task EXCEPT !.step = IF task.kind = "update" THEN "download" ELSE "server"]
          /\ UNCHANGED <<lock, progress>>
       \/ TaskFails
    /\ UNCHANGED <<boxVars, otherVars, installer>>

\* The server agrees to an upgrade or a migration, or the request fails.
ServerAnswers ==
    /\ Up /\ task.step = "server"
    /\ \/ task' = [task EXCEPT !.step = "retire"] /\ UNCHANGED <<lock, progress>>
       \/ TaskFails
    /\ UNCHANGED <<boxVars, otherVars, installer>>

\* Nobody waits for retire.sh: when it fails, the box stays as it is.
Retire ==
    /\ Up /\ task.step = "retire"
    /\ \/ box' = "retired" /\ task' = NoTask /\ lock' = "none" /\ progress' = NoProgress
       \/ task' = [task EXCEPT !.step = "lost"] /\ UNCHANGED <<box, lock, progress>>
    /\ UNCHANGED <<caas, kind, released, version, otherVars, installer>>

\* A mutant: update.sh returns when the unit runs.
StartInstallerAndLeave ==
    /\ Up /\ task.step = "download"
    /\ installer.step \in {"off", "failed"}
    /\ installer' = [step |-> "prepare", version |-> task.version, orphan |-> FALSE]
    /\ task' = NoTask
    /\ lock' = "none"
    /\ progress' = [progress EXCEPT !.update = "none"]
    /\ UNCHANGED <<boxVars, otherVars>>

\* update.sh: the tarball is there and the installer runs as a unit of its own, which
\* fails when there is one already.
StartInstaller ==
    /\ Up /\ task.step = "download"
    /\ installer.step \in {"off", "failed"}
    /\ installer' = [step |-> "prepare", version |-> task.version, orphan |-> FALSE]
    /\ task' = [task EXCEPT !.step = "watch"]
    /\ UNCHANGED <<boxVars, otherVars, lock, progress>>

DownloadFails ==
    /\ Up /\ task.step = "download"
    /\ TaskFails
    /\ UNCHANGED <<boxVars, otherVars, installer>>

\* A mutant: update.sh only waits to be stopped.
WatchBoxStop ==
    /\ Up /\ task.step = "watch" /\ installer.step = "switch"
    /\ TaskFails
    /\ UNCHANGED <<boxVars, otherVars, installer>>

\* update.sh sees that the unit has failed.
WatchInstaller ==
    /\ Up /\ task.step = "watch" /\ installer.step = "failed"
    /\ TaskFails
    /\ UNCHANGED <<boxVars, otherVars, installer>>

-----------------------------------------------------------------------------
\* The installer.

\* Packages cannot be built; the box is still there.
InstallerFails ==
    /\ installer.step = "prepare"
    /\ installer' = [installer EXCEPT !.step = "failed"]
    /\ UNCHANGED <<boxVars, otherVars, lock, progress, task>>

\* The box is stopped, with all that runs in it.
StopBox ==
    /\ installer.step = "prepare" /\ box = "up"
    /\ installer' = [installer EXCEPT !.step = "switch"]
    /\ box' = "down"
    /\ FreshMemory
    /\ UNCHANGED <<caas, kind, released, version, setting, app, stateFile, mailed, overlapped,
                   changes, checks>>

\* The old code is removed and the new one takes its place.
SwitchCode ==
    /\ installer.step = "switch"
    /\ installer' = [installer EXCEPT !.step = "configure"]
    /\ UNCHANGED <<boxVars, otherVars, lock, progress, task>>

\* start.sh: the host is configured for the new code.
ConfigureHost ==
    /\ installer.step = "configure"
    /\ installer' = [installer EXCEPT !.step = "start"]
    /\ UNCHANGED <<boxVars, otherVars, lock, progress, task>>

\* start.sh: the database is migrated, the configuration written, the box started.
StartCloudron ==
    /\ installer.step = "start"
    /\ version' = installer.version
    /\ box' = "up"
    /\ installer' = NoInstaller
    /\ UNCHANGED <<caas, kind, released, otherVars, lock, progress, task>>

\* The script ends at the first command that fails: nothing puts the old code back.
SetupFails ==
    /\ installer.step \in {"switch", "configure", "start"}
    /\ installer' = [installer EXCEPT !.step = "failed"]
    /\ UNCHANGED <<boxVars, otherVars, lock, progress, task>>

\* The box dies and is started again; the installer is not part of it.
Crash ==
    /\ Up
    /\ Change
    /\ FreshMemory
    /\ installer' = [installer EXCEPT !.orphan = installer.step = "prepare"]
    /\ UNCHANGED <<boxVars, setting, app, stateFile, mailed, overlapped, checks>>

-----------------------------------------------------------------------------
\* Updates of the apps.

appVars == <<boxVars, setting, autojob, checkVars, progress, task, installer>>

\* The job of the autoupdater, when there is none of the box.
AutoUpdateApps ==
    /\ Up
    /\ autojob # "never"
    /\ known.box = 0
    /\ auto.todo = {}
    /\ {a \in Apps : known.apps[a] # 0} # {}
    /\ auto' = [todo |-> {a \in Apps : known.apps[a] # 0}, apps |-> NoInfo, shared |-> TRUE]
    /\ UNCHANGED <<appVars, app, known, lock, changes, checks>>

SetUpdating(a, v) ==
    app' = [app EXCEPT ![a] = [state |-> "pending_update", version |-> app[a].version, target |-> v]]

\* The next app: it cannot be updated by itself, or is not installed any more, or is
\* told to update.
AutoUpdateApp(a) ==
    /\ Up
    /\ a \in auto.todo
    /\ Offered(a) # 0
    /\ auto' = IF auto.todo = {a} THEN NoAuto ELSE [auto EXCEPT !.todo = @ \ {a}]
    /\ \/ UNCHANGED <<app, known>>
       \/ /\ app[a].state = "installed"
          /\ SetUpdating(a, Offered(a))
          /\ known' = resetAppUpdateInfo(a)
    /\ UNCHANGED <<appVars, lock, changes, checks>>

\* The next app was taken out of what is known meanwhile: reading its manifest throws
\* and the box starts again.
AutoUpdateThrows(a) ==
    /\ Up
    /\ a \in auto.todo
    /\ Offered(a) = 0
    /\ FreshMemory
    /\ installer' = [installer EXCEPT !.orphan = installer.step = "prepare"]
    /\ UNCHANGED <<boxVars, setting, app, stateFile, mailed, overlapped, changes, checks>>

\* A user updates an app to what the store has.
UserUpdatesApp(a) ==
    /\ Up
    /\ Change
    /\ app[a].state = "installed"
    /\ released.apps[a] > app[a].version
    /\ SetUpdating(a, released.apps[a])
    /\ known' = resetAppUpdateInfo(a)
    /\ UNCHANGED <<appVars, auto, lock, checks>>

\* Tasks of apps and full backups take the lock like an update of the box.
BeginOther(a) ==
    /\ Up
    /\ Free
    /\ app[a].state = "pending_update"
    /\ lock' = "apptask"
    /\ UNCHANGED <<appVars, app, known, auto, changes, checks>>

EndOther(a) ==
    /\ Up
    /\ lock = "apptask"
    /\ app[a].state = "pending_update"
    /\ \E state \in {"installed", "error"} :
         app' = [app EXCEPT ![a].state = state,
                            ![a].version = IF state = "installed" THEN app[a].target ELSE @]
    /\ lock' = "none"
    /\ UNCHANGED <<appVars, known, auto, changes, checks>>

-----------------------------------------------------------------------------
\* What others do.

Publish ==
    /\ Change
    /\ \/ /\ released.box < MaxRelease
          /\ released' = [released EXCEPT !.box = @ + 1]
       \/ \E a \in Apps : /\ released.apps[a] < MaxAppRelease
                          /\ released' = [released EXCEPT !.apps[a] = @ + 1]
    /\ UNCHANGED <<caas, kind, version, box, setting, autojob, app, known, auto, checkVars, workVars,
                   checks>>

\* The pattern is saved; whoever listens hears of it in the next turn.
SetAutoupdatePattern ==
    /\ Up
    /\ Change
    /\ autojob = setting.pattern
    /\ \E p \in {"daily", "never"} \ {setting.pattern} : setting' = [setting EXCEPT !.pattern = p]
    /\ UNCHANGED <<boxVars, autojob, app, known, auto, checkVars, workVars, checks>>

AutoupdatePatternChanged ==
    /\ Up
    /\ autojob # setting.pattern
    /\ autojob' = setting.pattern
    /\ UNCHANGED <<boxVars, setting, app, known, auto, checkVars, workVars, changes, checks>>

SetUpdateConfig ==
    /\ Up
    /\ Change
    /\ setting' = [setting EXCEPT !.prerelease = ~@]
    /\ UNCHANGED <<boxVars, autojob, app, known, auto, checkVars, workVars, checks>>

\* The user subscribes at the store.
Subscribe ==
    /\ Change
    /\ setting.plan = "free"
    /\ setting' = [setting EXCEPT !.plan = "paid"]
    /\ UNCHANGED <<boxVars, autojob, app, known, auto, checkVars, workVars, checks>>

-----------------------------------------------------------------------------
CheckStep ==
    \/ \E c \in Checkers :
         \/ StartAppCheck(c) \/ ReadApps(c) \/ TellOfApp(c) \/ AppPlanIsPaid(c)
         \/ \E a \in Apps : NothingToTell(c, a) \/ AppUpdateFound(c, a)
         \/ AskBoxUpdate(c) \/ ReadUpdateConfig(c) \/ BoxCheckEnds(c) \/ TellOfBox(c)
         \/ BoxPlanIsPaid(c) \/ NobodyToTell(c)
    \/ StartBoxCheck

UpdateStep ==
    \/ UserUpdatesBox \/ AutoUpdateBox \/ Migrate
    \/ BackupEnds \/ ServerAnswers \/ Retire \/ StartInstaller \/ DownloadFails \/ WatchInstaller
    \/ InstallerFails \/ StopBox \/ SwitchCode \/ ConfigureHost \/ StartCloudron \/ SetupFails
    \/ Crash

AppStep ==
    \/ AutoUpdateApps
    \/ \E a \in Apps : \/ AutoUpdateApp(a) \/ AutoUpdateThrows(a) \/ UserUpdatesApp(a)
                       \/ BeginOther(a) \/ EndOther(a)

OtherStep ==
    \/ Publish \/ SetAutoupdatePattern \/ AutoupdatePatternChanged \/ SetUpdateConfig \/ Subscribe

Next == CheckStep \/ UpdateStep \/ AppStep \/ OtherStep

Spec == Init /\ [][Next]_vars

\* Backups, requests and downloads have timeouts; the installer runs to its end.
Fairness ==
    /\ WF_vars(BackupEnds)
    /\ WF_vars(ServerAnswers)
    /\ WF_vars(Retire)
    /\ WF_vars(StartInstaller \/ DownloadFails)
    /\ WF_vars(WatchInstaller)
    /\ WF_vars(InstallerFails \/ StopBox)
    /\ WF_vars(SwitchCode \/ ConfigureHost \/ StartCloudron \/ SetupFails)

FairSpec == Spec /\ Fairness

-----------------------------------------------------------------------------
\* What is known of updates: a version, or 0 for none.
AppInfo == [Apps -> 0..MaxAppRelease]
Info == [box : 0..MaxRelease, apps : AppInfo]

\* How far a check is and what it has read: of its steps, the later ones are of the box.
Check == [step : {"idle", "apps", "next", "app plan", "app pattern"} \cup BoxSteps,
          version : 0..MaxRelease, old : Info, new : AppInfo,
          todo : SUBSET Apps, current : SUBSET Apps, seen : AppInfo]

AutoState == [todo : SUBSET Apps, apps : AppInfo, shared : BOOLEAN]

Patterns == {"daily", "never"}
Settings == [pattern : Patterns, prerelease : BOOLEAN, plan : {"free", "paid"}]

Row == [state : {"installed", "pending_update", "error"},
        version : 1..MaxAppRelease, target : 1..MaxAppRelease]

Shown == {"none", "running", "failed"}
Progress == [update : Shown, migrate : Shown]

Task == [kind : {"none", "update", "upgrade", "migrate"},
         step : {"idle", "backup", "server", "download", "watch", "retire", "lost"},
         version : 0..MaxRelease]

Installer == [step : {"off", "prepare", "switch", "configure", "start", "failed"},
              version : 0..MaxRelease, orphan : BOOLEAN]

\* Every variable holds a value the code can give it.
TypeOK ==
    /\ caas \in BOOLEAN
    /\ kind \in Histories
    /\ released \in [box : Releases, apps : [Apps -> 1..MaxAppRelease]]
    /\ setting \in Settings
    /\ autojob \in Patterns
    /\ version \in Releases
    /\ app \in [Apps -> Row]
    /\ box \in {"up", "down", "retired"}
    /\ known \in Info
    /\ file \in Info
    /\ check \in [Checkers -> Check]
    /\ auto \in AutoState
    /\ lock \in {"none", "box_update", "migrate", "apptask"}
    /\ progress \in Progress
    /\ task \in Task
    /\ installer \in Installer
    /\ mailed \in [Releases -> Nat]
    /\ overlapped \in BOOLEAN /\ unsaved \in BOOLEAN
    /\ changes \in 0..MaxChanges
    /\ checks \in 0..MaxChecks

(***************************************************************************)
(* A user is mailed once about a release of the box, although the checks   *)
(* of the apps and of the box write one file with what they read before    *)
(* they waited ("preserve the latest box state information"): only two     *)
(* checks of the box at once, or a write of the file that failed, could    *)
(* tell twice.                                                             *)
(***************************************************************************)
BoxMailedOnce == overlapped \/ unsaved \/ \A v \in Releases : mailed[v] <= 1

(***************************************************************************)
(* The installer, which stops the box without asking it, never does so in  *)
(* the middle of a task of an app or a backup: as long as it runs, the box *)
(* that started it holds the lock for the update.  (A box that died        *)
(* meanwhile and came back knows nothing of it.)                           *)
(***************************************************************************)
InstallerFindsLock ==
    installer.step = "prepare" /\ ~installer.orphan => lock = "box_update"

(***************************************************************************)
(* The webadmin shows an update or a migration as running only while the   *)
(* lock is held for it, and as long as it is, so that a failure lets the   *)
(* next one in.  One update can hide another: a box that becomes the final *)
(* release of its prerelease without an update, which does not ask for the *)
(* lock, clears the progress of an update to a later release at work.      *)
(***************************************************************************)
ProgressMatchesLock ==
    /\ progress.update = "running" => lock = "box_update"
    /\ lock = "box_update" => progress.update = "running" \/ kind[version] = "final"
    /\ progress.migrate = "running" <=> lock = "migrate"

(***************************************************************************)
(* An update of the box comes to an end: the lock is released or the box   *)
(* that held it is gone, unless the server took over and retire.sh failed. *)
(***************************************************************************)
UpdateSettles == lock = "box_update" ~> lock # "box_update" \/ task.step = "lost"

-----------------------------------------------------------------------------
(***************************************************************************)
(* What the code says of itself and does not do; each of these fails.      *)
(***************************************************************************)

\* A box that was stopped for an update is started again.
BoxComesBack == box = "down" ~> box = "up"

\* The automatic update of apps does not end the box.
AutoUpdateNeverThrows == \A a \in auto.todo : Offered(a) # 0

\* An app is not updated to the version it has.
NoNeedlessUpdate == \A a \in Apps : app[a].state = "pending_update" => app[a].target > app[a].version
=============================================================================
