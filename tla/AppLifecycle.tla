---------------------------- MODULE AppLifecycle ----------------------------
(***************************************************************************)
(* The life of an app: the commands of src/src/apps.js, the states they    *)
(* and the tasks write to the database through src/src/appdb.js, the       *)
(* program an apptask process runs (src/src/apptask.js) and the app's      *)
(* container, composed with the task manager.                              *)
(*                                                                         *)
(* A command is two turns of the event loop with a database in between:    *)
(* the database accepts it or not (SetCommand), and its callback restarts  *)
(* the app's task (Callback).  The task reads what it has to do from the   *)
(* database, once, and then works through a program one external call or   *)
(* database write at a time.  It can be killed between any two of them.    *)
(***************************************************************************)
EXTENDS TaskManager

CONSTANTS
    Commands,      \* the commands users give in this instance
    Faults,        \* whether tasks and queries may fail or crash by themselves
    MaxCommands,   \* bound: commands accepted
    MaxRestarts    \* bound: restarts of the box

VARIABLES
    istate,       \* installationState; "fresh" and "gone" when there is no row
    rstate,       \* runState
    containerId,  \* whether the row has a containerId
    container,    \* the app's container, as docker has it
    built,        \* built[a]: the container is of the last accepted configuration
    prog,         \* prog[a]: what the apptask process of a is doing
    callbacks,    \* callbacks[a]: accepted commands whose callback is to come
    marked,       \* marked[a]: uninstall requests among uninstalls[a] whose mark is made
    crashWrites,  \* crashWrites[a]: "Apptask crashed" writes outstanding
    worklist,     \* the apps resumeTasks' query found, or NotRead
    commands,     \* commands accepted so far
    restarts,     \* restarts so far
    lost          \* the apps whose last task left no outcome in the database

dbVars == <<istate, rstate, containerId>>
boundVars == <<commands, restarts, lost>>
lifeVars == <<dbVars, container, built, prog, callbacks, marked, crashWrites, worklist, boundVars>>
vars == <<tmVars, lifeVars>>

PENDING_CONFIGURE    == "pending_configure"
PENDING_UPDATE       == "pending_update"
PENDING_FORCE_UPDATE == "pending_force_update"
PENDING_RESTORE      == "pending_restore"
PENDING_BACKUP       == "pending_backup"
PENDING_INSTALL      == "pending_install"   \* and pending_clone, which is its twin
PENDING_UNINSTALL    == "pending_uninstall"
PENDING_START        == "pending_start"
PENDING_STOP         == "pending_stop"

\* The commands that go through setInstallationCommand and restart the task.
InstallationCommands == {PENDING_CONFIGURE, PENDING_UPDATE, PENDING_FORCE_UPDATE,
                         PENDING_RESTORE, PENDING_BACKUP}
RunCommands == {PENDING_START, PENDING_STOP}

\* The commands that change what the container is made of.
BuildCommands == (InstallationCommands \ {PENDING_BACKUP}) \cup {PENDING_INSTALL}

\* Users give these commands and no others.
ASSUME AppLifecycleAssumption ==
    /\ Commands \subseteq InstallationCommands \cup RunCommands
                            \cup {PENDING_INSTALL, PENDING_UNINSTALL}
    /\ Faults \in BOOLEAN
    /\ MaxCommands \in Nat
    /\ MaxRestarts \in Nat

PendingStates == InstallationCommands \cup {PENDING_INSTALL, PENDING_UNINSTALL}
NoRow == {"fresh", "gone"}
IStates == PendingStates \cup {"installed", "error"} \cup NoRow
RStates == RunCommands \cup {"null", "running", "stopped"}

HasRow(a) == istate[a] \notin NoRow

NotRead == {"not read"}

-----------------------------------------------------------------------------
(***************************************************************************)
(* The programs of apptask.js.  A step is one call of docker (stop,        *)
(* delete, create, start) or one write to the database (the others), in    *)
(* the order of the code; what happens in between (nginx, DNS, icons,      *)
(* images, addons, the backup before an update) shows only by failing.     *)
(***************************************************************************)
Reinstall == <<"stop", "stopped", "delete", "deleted", "create", "created",
               "start", "started", "done">>
Uninstall == <<"stop", "stopped", "delete", "deleted", "remove">>

Steps == {Reinstall[i] : i \in DOMAIN Reinstall} \cup {"remove", "failed"}

\* Mutant: the database is told before docker.
HandleRunCommandEarly(r) ==
    CASE r = PENDING_STOP                -> <<"stop", "stopped">>
      [] r \in {PENDING_START, "running"} -> <<"started", "start">>
      [] OTHER                           -> <<>>

HandleRunCommand(r) ==
    CASE r = PENDING_STOP                -> <<"stop", "stopped">>
      [] r \in {PENDING_START, "running"} -> <<"start", "started">>
      [] OTHER                           -> <<>>

\* startTask: the switch on the state the task read.
Program(i, r) ==
    CASE i = PENDING_UNINSTALL -> Uninstall
      [] i = PENDING_BACKUP    -> <<"done">>
      [] i = "installed"       -> HandleRunCommand(r)
      [] i = "error"           -> <<>>
      [] OTHER                 -> Reinstall

\* "fresh": no later command than the one the program reads has been accepted.
\* The code is the one the program is going to end with, or "hung": it waits for
\* an answer that never comes, and ends when it is killed.
NoProgram == [cmd |-> "none", todo |-> <<>>, code |-> "exited0", fresh |-> FALSE]

\* What a program that fails at some step has left to do: a backup returns
\* the app to installed "intentionally", a run command leaves it alone.
AfterFailure(cmd) == IF cmd = "installed" THEN <<>> ELSE <<"failed">>

StateAfterFailure(cmd) == IF cmd = PENDING_BACKUP THEN "installed" ELSE "error"

-----------------------------------------------------------------------------
LifeInit ==
    /\ Init
    /\ istate = [a \in Apps |-> "fresh"]
    /\ rstate = [a \in Apps |-> "null"]
    /\ containerId = [a \in Apps |-> FALSE]
    /\ container = [a \in Apps |-> "none"]
    /\ built = [a \in Apps |-> FALSE]
    /\ prog = [a \in Apps |-> NoProgram]
    /\ callbacks = [a \in Apps |-> 0]
    /\ marked = [a \in Apps |-> 0]
    /\ crashWrites = [a \in Apps |-> 0]
    /\ worklist = NotRead
    /\ commands = 0
    /\ restarts = 0
    /\ lost = {}

\* A new task has read nothing yet, and one that ended runs nothing any more.
ProgramsAfter(newMem) ==
    [a \in Apps |-> IF newMem.tasks[a] = "ready" THEN prog[a] ELSE NoProgram]

\* Mutant: a backup is accepted after an error, too.
AllowedAfterError(a, c) ==
    CASE c = PENDING_FORCE_UPDATE -> HasRow(a)
      [] c \in {PENDING_RESTORE, PENDING_BACKUP} -> istate[a] \in {"installed", "error"}
      [] c = PENDING_UPDATE       -> istate[a] = "installed"
      [] c = PENDING_CONFIGURE    -> istate[a] \in {"installed", PENDING_CONFIGURE, "error"}
      [] c \in RunCommands        -> istate[a] = "installed" /\ rstate[a] \in {"running", "stopped"}
      [] c = PENDING_INSTALL      -> istate[a] = "fresh"

(***************************************************************************)
(* The commands.  setInstallationCommand and setRunCommand are one UPDATE  *)
(* whose WHERE decides; a command it refuses changes nothing here.         *)
(***************************************************************************)
Allowed(a, c) ==
    CASE c = PENDING_FORCE_UPDATE -> HasRow(a)
      [] c = PENDING_RESTORE      -> istate[a] \in {"installed", "error"}
      [] c \in {PENDING_UPDATE, PENDING_BACKUP} -> istate[a] = "installed"
      [] c = PENDING_CONFIGURE    -> istate[a] \in {"installed", PENDING_CONFIGURE, "error"}
      [] c \in RunCommands        -> istate[a] = "installed" /\ rstate[a] \in {"running", "stopped"}
      [] c = PENDING_INSTALL      -> istate[a] = "fresh"

SetCommand(a, c) ==
    /\ Running
    /\ Allowed(a, c)
    /\ commands < MaxCommands
    /\ commands' = commands + 1
    /\ callbacks' = [callbacks EXCEPT ![a] = @ + 1]
    /\ IF c \in RunCommands
       THEN rstate' = [rstate EXCEPT ![a] = c] /\ UNCHANGED istate
       ELSE istate' = [istate EXCEPT ![a] = c] /\ UNCHANGED rstate
    /\ IF c \in BuildCommands
       THEN /\ built' = [built EXCEPT ![a] = FALSE]
            /\ prog' = [prog EXCEPT ![a].fresh = FALSE]
       ELSE UNCHANGED <<built, prog>>
    /\ UNCHANGED <<tmVars, containerId, container, marked, crashWrites, worklist,
                   restarts, lost>>

Callback(a) ==
    /\ callbacks[a] > 0
    /\ callbacks' = [callbacks EXCEPT ![a] = @ - 1]
    /\ RestartAppTask(a)
    /\ prog' = ProgramsAfter(mem')
    /\ UNCHANGED <<dbVars, container, built, marked, crashWrites, worklist, boundVars>>

\* apps.uninstall stops the task, marks the row, whatever its state, and then
\* starts a task.
RequestUninstall(a) ==
    /\ HasRow(a)
    /\ commands < MaxCommands
    /\ commands' = commands + 1
    /\ StopForUninstall(a)
    /\ prog' = ProgramsAfter(mem')
    /\ UNCHANGED <<dbVars, container, built, callbacks, marked, crashWrites, worklist,
                   restarts, lost>>

MarkUninstall(a) ==
    /\ Running
    /\ marked[a] < uninstalls[a]
    /\ HasRow(a)
    /\ istate' = [istate EXCEPT ![a] = PENDING_UNINSTALL]
    /\ marked' = [marked EXCEPT ![a] = @ + 1]
    /\ UNCHANGED <<tmVars, rstate, containerId, container, built, prog, callbacks,
                   crashWrites, worklist, boundVars>>

UninstallCallback(a) ==
    /\ marked[a] > 0
    /\ marked' = [marked EXCEPT ![a] = @ - 1]
    /\ StartForUninstall(a)
    /\ prog' = ProgramsAfter(mem')
    /\ UNCHANGED <<dbVars, container, built, callbacks, crashWrites, worklist, boundVars>>

UninstallNotFound(a) ==
    /\ marked[a] < uninstalls[a]
    /\ ~HasRow(a)
    /\ DropUninstall(a)
    /\ UNCHANGED lifeVars

-----------------------------------------------------------------------------
(***************************************************************************)
(* The apptask process.                                                    *)
(***************************************************************************)
Boot(a) == TaskReady(a) /\ UNCHANGED lifeVars

Busy(a) == mem.tasks[a] = "ready" /\ prog[a].cmd # "none" /\ prog[a].code # "hung"

\* startTask reads the row; without one the task ends with an error.
Load(a) ==
    /\ mem.tasks[a] = "ready"
    /\ prog[a].cmd = "none"
    /\ prog' = [prog EXCEPT ![a] =
                  [cmd  |-> istate[a],
                   todo |-> IF HasRow(a) THEN Program(istate[a], rstate[a]) ELSE <<>>,
                   code |-> IF HasRow(a) THEN "exited0" ELSE "exited50",
                   fresh |-> TRUE]]
    /\ lost' = lost \ {a}
    /\ UNCHANGED <<tmVars, dbVars, container, built, callbacks, marked, crashWrites, worklist,
                   commands, restarts>>

\* The query fails: the task ends with an error, and the row stays as it is.
LoadFails(a) ==
    /\ mem.tasks[a] = "ready"
    /\ prog[a].cmd = "none"
    /\ prog' = [prog EXCEPT ![a] = [cmd  |-> istate[a], todo |-> <<>>,
                                    code |-> "exited50", fresh |-> FALSE]]
    /\ lost' = lost \cup {a}
    /\ UNCHANGED <<tmVars, dbVars, container, built, callbacks, marked, crashWrites, worklist,
                   commands, restarts>>

Docker(step, c) ==
    CASE step = "stop"   -> IF c = "running" THEN "stopped" ELSE c
      [] step = "delete" -> "none"
      [] step = "create" -> "stopped"
      [] step = "start"  -> "running"
      [] OTHER           -> c

Step(a) ==
    /\ Busy(a)
    /\ prog[a].todo # <<>>
    /\ LET step == Head(prog[a].todo)
       IN  /\ step = "start" => container[a] # "none"
           /\ container' = [container EXCEPT ![a] = Docker(step, @)]
           /\ rstate' = [rstate EXCEPT ![a] = CASE step = "stopped" -> "stopped"
                                                [] step = "started" -> "running"
                                                [] OTHER            -> @]
           /\ containerId' = [containerId EXCEPT ![a] = CASE step = "deleted" -> FALSE
                                                          [] step = "created" -> TRUE
                                                          [] OTHER            -> @]
           /\ istate' = [istate EXCEPT ![a] =
                           CASE step = "done"   -> "installed"
                             [] step = "failed" -> StateAfterFailure(prog[a].cmd)
                             [] step = "remove" -> "gone"
                             [] OTHER           -> @]
           /\ built' = [built EXCEPT ![a] = IF step = "create" THEN prog[a].fresh ELSE @]
    /\ prog' = [prog EXCEPT ![a].todo = Tail(@)]
    /\ UNCHANGED <<tmVars, callbacks, marked, crashWrites, worklist, boundVars>>

\* A call of the step to come, or of what is left out before it, fails.
Fail(a) ==
    /\ Busy(a)
    /\ prog[a].todo \notin {<<>>, <<"failed">>}
    /\ prog' = [prog EXCEPT ![a].todo = AfterFailure(prog[a].cmd), ![a].code = "exited50"]
    /\ UNCHANGED <<tmVars, dbVars, container, built, callbacks, marked, crashWrites, worklist,
                   commands, restarts, lost>>

\* The write that tells the database of a failure fails as well: its error is
\* not looked at, the task ends as it would have, and the row stays pending.
FailureLost(a) ==
    /\ Busy(a)
    /\ prog[a].todo = <<"failed">>
    /\ prog' = [prog EXCEPT ![a].todo = <<>>]
    /\ lost' = lost \cup {a}
    /\ UNCHANGED <<tmVars, dbVars, container, built, callbacks, marked, crashWrites, worklist,
                   commands, restarts>>

\* The certificate is obtained behind the start of the new container, just before
\* the last write; acme.js has errors it does not tell its caller of.
Hang(a) ==
    /\ Busy(a)
    /\ prog[a].todo = <<"done">>
    /\ prog[a].cmd \in {PENDING_INSTALL, PENDING_RESTORE, PENDING_CONFIGURE}
    /\ prog' = [prog EXCEPT ![a].code = "hung"]
    /\ UNCHANGED <<tmVars, dbVars, container, built, callbacks, marked, crashWrites, worklist,
                   boundVars>>

Exit(a) ==
    /\ Busy(a)
    /\ prog[a].todo = <<>>
    /\ TaskEnds(a, prog[a].code)
    /\ prog' = ProgramsAfter(mem')
    /\ UNCHANGED <<dbVars, container, built, callbacks, marked, crashWrites, worklist, boundVars>>

Crash(a) ==
    /\ TaskEnds(a, "crashed")
    /\ prog' = ProgramsAfter(mem')
    /\ UNCHANGED <<dbVars, container, built, callbacks, marked, crashWrites, worklist,
                   commands, restarts, lost>>

(***************************************************************************)
(* The exit event in the box.  A crash is written to the database, but the *)
(* handler does not wait for the write.                                    *)
(***************************************************************************)
Reap(a) ==
    /\ TaskExit(a)
    /\ crashWrites' = [crashWrites EXCEPT ![a] = IF IsCrash(mem.tasks[a]) THEN @ + 1 ELSE @]
    /\ prog' = ProgramsAfter(mem')
    /\ UNCHANGED <<dbVars, container, built, callbacks, marked, worklist, boundVars>>

CrashWrite(a) ==
    /\ Running
    /\ crashWrites[a] > 0
    /\ crashWrites' = [crashWrites EXCEPT ![a] = @ - 1]
    /\ istate' = [istate EXCEPT ![a] = IF HasRow(a) THEN "error" ELSE @]
    /\ UNCHANGED <<tmVars, rstate, containerId, container, built, prog, callbacks, marked,
                   worklist, boundVars>>

\* Nobody looks at whether that write failed.
CrashWriteLost(a) ==
    /\ Running
    /\ crashWrites[a] > 0
    /\ crashWrites' = [crashWrites EXCEPT ![a] = @ - 1]
    /\ lost' = lost \cup {a}
    /\ UNCHANGED <<tmVars, dbVars, container, built, prog, callbacks, marked,
                   worklist, commands, restarts>>

-----------------------------------------------------------------------------
\* Mutant: an app that is installed or running is taken for settled.
ReadUnsettled ==
    /\ Running
    /\ resuming > 0
    /\ worklist = NotRead
    /\ worklist' = {a \in Apps : /\ HasRow(a)
                                 /\ istate[a] # "installed" /\ rstate[a] # "running"
                                 /\ istate[a] # "error"}
    /\ UNCHANGED <<tmVars, dbVars, container, built, prog, callbacks, marked, crashWrites, boundVars>>

\* resumeTasks' query, and its callback: the apps that are not settled.
ReadApps ==
    /\ Running
    /\ resuming > 0
    /\ worklist = NotRead
    /\ worklist' = {a \in Apps : /\ HasRow(a)
                                 /\ ~(istate[a] = "installed" /\ rstate[a] = "running")
                                 /\ istate[a] # "error"}
    /\ UNCHANGED <<tmVars, dbVars, container, built, prog, callbacks, marked, crashWrites, boundVars>>

Resume ==
    /\ worklist # NotRead
    /\ ResumeApps(worklist)
    /\ worklist' = NotRead
    /\ prog' = ProgramsAfter(mem')
    /\ UNCHANGED <<dbVars, container, built, callbacks, marked, crashWrites, boundVars>>

\* The rest of the task manager touches no app.
AppsUntouched ==
    /\ prog' = ProgramsAfter(mem')
    /\ UNCHANGED <<dbVars, container, built, callbacks, marked, crashWrites, worklist, boundVars>>

BeginOther(op) == BeginExclusive(op) /\ AppsUntouched

EndOther ==
    /\ \/ EndExclusive
       \/ CommitExclusive /\ restarts < MaxRestarts
    /\ AppsUntouched

PlatformReady == ResumeTasks /\ AppsUntouched

PlatformStop == PauseTasks /\ restarts < MaxRestarts /\ AppsUntouched

QueryFails == Faults /\ worklist = NotRead /\ ResumeFails /\ AppsUntouched

\* The database and the containers survive a restart.
RestartBox ==
    /\ restarts < MaxRestarts
    /\ restarts' = restarts + 1
    /\ Restart
    /\ prog' = [a \in Apps |-> NoProgram]
    /\ callbacks' = [a \in Apps |-> 0]
    /\ marked' = [a \in Apps |-> 0]
    /\ crashWrites' = [a \in Apps |-> 0]
    /\ worklist' = NotRead
    /\ lost' = {}
    /\ UNCHANGED <<dbVars, container, built, commands>>

LifeNext ==
    \/ \E a \in Apps :
         \/ \E c \in Commands \ {PENDING_UNINSTALL} : SetCommand(a, c)
         \/ PENDING_UNINSTALL \in Commands /\ RequestUninstall(a)
         \/ Callback(a)
         \/ MarkUninstall(a)
         \/ UninstallCallback(a)
         \/ UninstallNotFound(a)
         \/ Boot(a)
         \/ Load(a)
         \/ Step(a)
         \/ Faults /\ LoadFails(a)
         \/ Faults /\ Fail(a)
         \/ Faults /\ FailureLost(a)
         \/ Faults /\ Hang(a)
         \/ Faults /\ Crash(a)
         \/ Exit(a)
         \/ Reap(a)
         \/ CrashWrite(a)
         \/ Faults /\ CrashWriteLost(a)
    \/ ReadApps
    \/ Resume
    \/ QueryFails
    \/ \E op \in ExclusiveOperations : BeginOther(op)
    \/ EndOther
    \/ PlatformReady
    \/ PlatformStop
    \/ RestartBox

LifeSpec == LifeInit /\ [][LifeNext]_vars

\* As in TaskManager, for each app: whatever was accepted, forked, read, written
\* or ended is followed up, except by a task that hangs; nobody has to give a
\* command, and nothing has to fail.
LifeFairness ==
    /\ \A a \in Apps : /\ WF_vars(Callback(a))
                       /\ WF_vars(MarkUninstall(a))
                       /\ WF_vars(UninstallCallback(a))
                       /\ WF_vars(UninstallNotFound(a))
                       /\ WF_vars(Boot(a))
                       /\ WF_vars(Load(a) \/ Step(a) \/ Exit(a))
                       /\ WF_vars(Reap(a))
                       /\ WF_vars(CrashWrite(a))
    /\ WF_vars(ReadApps)
    /\ WF_vars(Resume)
    /\ WF_vars(EndOther)
    /\ WF_vars(PlatformReady)
    /\ WF_vars(MustRestart /\ RestartBox)

FairLifeSpec == LifeSpec /\ LifeFairness

-----------------------------------------------------------------------------
\* Every variable of the lifecycle holds a value the code can give it.
LifeTypeOK ==
    /\ TypeOK
    /\ istate \in [Apps -> IStates]
    /\ rstate \in [Apps -> RStates]
    /\ containerId \in [Apps -> BOOLEAN]
    /\ container \in [Apps -> {"none", "stopped", "running"}]
    /\ built \in [Apps -> BOOLEAN]
    /\ prog \in [Apps -> [cmd : IStates \cup {"none"}, todo : Seq(Steps),
                         code : {"exited0", "exited50", "hung"}, fresh : BOOLEAN]]
    /\ callbacks \in [Apps -> Nat]
    /\ marked \in [Apps -> Nat]
    /\ crashWrites \in [Apps -> Nat]
    /\ worklist \in {NotRead} \cup SUBSET Apps
    /\ commands \in 0 .. MaxCommands
    /\ restarts \in 0 .. MaxRestarts
    /\ lost \subseteq Apps

(***************************************************************************)
(* An app the database calls installed has a container, and the database   *)
(* knows it, wherever its tasks were killed, failed or lost the power in   *)
(* between deleting the old container and creating the new one.            *)
(***************************************************************************)
InstalledHasContainer ==
    \A a \in Apps : istate[a] = "installed" => container[a] # "none" /\ containerId[a]

(***************************************************************************)
(* An app the database calls installed and running is running, even while  *)
(* a task is at work on it: a stop that was cut off between docker and the *)
(* database is never taken for a running app, nor one that was configured  *)
(* half-way, and no task stops the container before the row says so.       *)
(***************************************************************************)
RunningIsRunning ==
    \A a \in Apps :
       istate[a] = "installed" /\ rstate[a] = "running" => container[a] = "running"

(***************************************************************************)
(* The promise TaskManager relies on (Wakeable): an app queued while the   *)
(* platform was not ready is one resumeTasks finds in the database, so     *)
(* that no app waits in the queue with nobody to wake it.                  *)
(***************************************************************************)
QueueIsWoken ==
    worklist # NotRead /\ resuming > 0 => Wakeable(worklist)

(***************************************************************************)
(* An accepted command is dealt with: a pending state does not stay, it    *)
(* ends in installed, error, an uninstall or the removal of the app,       *)
(* through kills, restarts of the box, queues and other operations.  What  *)
(* the code has no second try for is excepted, as narrowly as it occurs:   *)
(* the query of resumeTasks failed in this process; the last task of this  *)
(* app could not read its row, or its failure or crash could not be        *)
(* written; a task hangs, which holds the lock.  An uninstall is left out: *)
(* it does not settle (UninstallSettles below).                            *)
(***************************************************************************)
Unsettled == PendingStates \ {PENDING_UNINSTALL}

Hanging == \E a \in Apps : prog[a].code = "hung"

CommandSettles ==
    \A a \in Apps : istate[a] \in Unsettled ~>
                       istate[a] \notin Unsettled \/ resumeLost \/ a \in lost \/ Hanging

-----------------------------------------------------------------------------
(***************************************************************************)
(* What the code says of itself and does not do; each of these fails.      *)
(***************************************************************************)

\* An app is in error only when a task of it failed or crashed by itself: the
\* SIGTERM that makes room for a new command is no crash ("taskmanager sent
\* SIGTERM since it got a new task for this app", and the task exits with 0).
ErrorHasCause == Faults \/ \A a \in Apps : istate[a] # "error"

\* An uninstall, "allowed in any state", is carried out or fails.
UninstallSettles ==
    \A a \in Apps : istate[a] = PENDING_UNINSTALL ~> istate[a] # PENDING_UNINSTALL

\* An installed app is, once its tasks have ended, what the last accepted configuration
\* says it is: a configure is "allowed in installed state or currently configuring or
\* in error state", also while a task is at work, and is then carried out.
InstalledIsCurrent ==
    \A a \in Apps :
       istate[a] = "installed" /\ callbacks[a] = 0 /\ a \notin Active(mem) \cup Queued(mem)
          => built[a]

\* A start or stop that was accepted ("Will start app") is carried out, unless
\* the app is removed or ends in error.
RunCommandSettles ==
    \A a \in Apps : rstate[a] \in RunCommands ~>
                       rstate[a] \notin RunCommands \/ istate[a] \in NoRow \cup {"error"}
=============================================================================
