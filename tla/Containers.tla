----------------------------- MODULE Containers -----------------------------
(***************************************************************************)
(* What an app consists of apart from its row: its container, the addons   *)
(* it asks for with their data and passwords, the containers its scheduled *)
(* commands run in, and what the monitor thinks of it (src/src/addons.js,  *)
(* src/src/docker.js, src/src/scheduler.js, src/src/apphealthmonitor.js,   *)
(* and the steps of src/src/apptask.js that use them).                     *)
(*                                                                         *)
(* A task can end after any step, with the box or for a new command, and   *)
(* is done again from the start.  A command is written to the row first,   *)
(* and the task of the app is restarted after that: in between the old     *)
(* task goes on with the row as it was when it started.  Scheduler and     *)
(* monitor look at the rows every minute and every ten seconds and act on  *)
(* what they read.                                                         *)
(***************************************************************************)
EXTENDS Naturals, Sequences, FiniteSets

CONSTANTS
    Apps,          \* apps, by id: one that is removed does not come back
    MaxCommands,   \* bound: commands
    MaxFaults,     \* bound: crashes of the box, tasks that fail and kills that fail
    MaxUses        \* bound: changes of the data of an app by its users

ASSUME ContainersAssumption ==
    IsFiniteSet(Apps) /\ {MaxCommands, MaxFaults, MaxUses} \subseteq Nat

VARIABLES
    row,    \* row[a]: [state, run, version, old, cid], old the version before, 0 for none
    manager, \* manager[a]: [restarts, removal, queued, crashed], what the task manager has to do
    table,  \* table[a]: the password of each addon in the environment of the app, 0 for none
    db,     \* db[a]: what the database of the app holds, or NoData
    redis,  \* redis[a]: the password its redis container was started with, 0 for none
    saved,  \* saved[a]: the backups of an app
    from,   \* from[a]: the one it is restored from, or NoBackup
    latest, \* latest[a]: what its users have written last and nobody has given up, or NoData
    images, \* images[a]: the versions of an app whose image is here
    con,    \* con[a]: its container, or NoContainer
    sub,    \* sub[a]: the container of its scheduled command, whether it runs or not
    task,   \* task[a]: [n, does, version, old, from, todo, addon, secret], the step of its
            \* task, 0 when there is none, and the row as the task has read it
    gState, \* gState[a]: the scheduler knows the app
    job,    \* job[a]: the cron job of its scheduled command
    sync,   \* how far the scheduler is with a look at the rows
    tick,   \* tick[a]: how far a scheduled command is
    health, \* health[a]: what the row says of its health
    mailed, \* mailed[a]: the monitor has sent the mail about it (emailSent)
    alive,  \* alive[a]: the app answers, when it runs
    count

things == <<table, db, redis, saved, from, latest>>
scheduler == <<gState, job, sync, tick>>
monitor == <<health, mailed, alive>>
vars == <<row, manager, things, images, con, sub, task, scheduler, monitor, count>>

\* "mail" stands for the addons that are no more than some lines in the environment of the
\* app, "db" for the three databases.  The first version of an app asks for more than the
\* other.
Addons == {"mail", "db", "redis"}
Asks(v) == CASE v = 1 -> {"mail", "db", "redis", "scheduler"} [] v = 2 -> {"redis"} [] OTHER -> {}

NoData == MaxUses + 1
NoContainer == [id |-> 0, version |-> 0, env |-> [mail |-> 0, db |-> 0, redis |-> 0], runs |-> FALSE]
NoBackup == [version |-> 0, content |-> NoData]
NoTask == [n |-> 0, does |-> "none", version |-> 0, old |-> 0, from |-> NoBackup,
           todo |-> {}, addon |-> "none", secret |-> 0]
NoTick == [step |-> "idle", cid |-> 0, version |-> 0]
Idle == [restarts |-> 0, removal |-> "no", queued |-> FALSE, crashed |-> FALSE]
NoSync == [step |-> "idle", rows |-> {}, wants |-> {}, todo |-> {}, app |-> {}]

\* An app may be installed when the box starts, with the first secrets.
Init ==
    /\ \E S \in SUBSET Apps :
         LET new(a) == a \notin S
         IN /\ row = [a \in Apps |-> IF new(a) THEN [state |-> "none", run |-> "null", version |-> 0, old |-> 0, cid |-> 0]
                       ELSE [state |-> "installed", run |-> "running", version |-> 1, old |-> 0, cid |-> 4]]
            /\ table = [a \in Apps |-> IF new(a) THEN NoContainer.env ELSE [mail |-> 1, db |-> 2, redis |-> 3]]
            /\ redis = [a \in Apps |-> table[a].redis]
            /\ db = [a \in Apps |-> IF new(a) THEN NoData ELSE 0] /\ latest = db
            /\ images = [a \in Apps |-> IF new(a) THEN {} ELSE {1}]
            /\ con = [a \in Apps |-> IF new(a) THEN NoContainer
                                     ELSE [id |-> 4, version |-> 1, env |-> table[a], runs |-> TRUE]]
    /\ saved = [a \in Apps |-> {}] /\ from = [a \in Apps |-> NoBackup]
    /\ sub = [a \in Apps |-> "none"]
    /\ task = [a \in Apps |-> NoTask] /\ manager = [a \in Apps |-> Idle]
    /\ gState = [a \in Apps |-> FALSE] /\ job = [a \in Apps |-> FALSE]
    /\ sync = NoSync
    /\ tick = [a \in Apps |-> NoTick]
    /\ health = [a \in Apps |-> "null"]
    /\ mailed = [a \in Apps |-> FALSE]
    /\ alive = [a \in Apps |-> TRUE]
    /\ count = [commands |-> 0, faults |-> 0]

Bound == [commands |-> MaxCommands, faults |-> MaxFaults]
Count(what) == count[what] < Bound[what] /\ count' = [count EXCEPT ![what] = @ + 1]

\* A new password or container id is unlike those that are still somewhere; at most eleven are.
InUse(a) ==
    {redis[a], row[a].cid, con[a].id, tick[a].cid, task[a].secret}
        \cup {table[a][addon] : addon \in Addons} \cup {con[a].env[addon] : addon \in Addons}
New(a) == {x \in 1..12 : x \notin InUse(a) /\ \A y \in 1..(x - 1) : y \in InUse(a)}

-----------------------------------------------------------------------------
\* Commands.  One is written to the row when the row allows it; the task of the app is
\* restarted when that is answered.  What a command finds in the row and what it writes
\* are of one moment.

commandFrame == <<images, con, sub, task, scheduler, monitor>>

Order(a, r) ==
    /\ Count("commands")
    /\ row' = [row EXCEPT ![a] = r]
    /\ manager' = [manager EXCEPT ![a].restarts = @ + 1]
    /\ UNCHANGED <<table, db, redis, saved, latest, commandFrame>>

Install(a) ==
    /\ row[a].state = "none"
    /\ Order(a, [row[a] EXCEPT !.state = "pending_install", !.version = 1])
    /\ UNCHANGED from

Configure(a) ==
    /\ row[a].state \in {"installed", "error", "pending_configure"}
    /\ Order(a, [row[a] EXCEPT !.state = "pending_configure", !.old = row[a].version])
    /\ UNCHANGED from

Update(a) ==
    /\ row[a].state = "installed"
    /\ Order(a, [row[a] EXCEPT !.state = "pending_update", !.version = 3 - @, !.old = row[a].version])
    /\ UNCHANGED from

\* "force update is allowed in any state including pending_uninstall!"
ForceUpdate(a) ==
    /\ row[a].state \notin {"none", "gone"}
    /\ \E v \in 1..2 :
         Order(a, [row[a] EXCEPT !.state = "pending_force_update", !.version = v, !.old = row[a].version])
    /\ UNCHANGED from

\* From a backup, or from nothing: the app is installed again.
Restore(a) ==
    /\ row[a].state \in {"installed", "error"}
    /\ \E b \in saved[a] \cup {[NoBackup EXCEPT !.version = row[a].version]} :
         /\ Order(a, [row[a] EXCEPT !.state = "pending_restore", !.version = b.version,
                                    !.old = row[a].version])
         /\ from' = [from EXCEPT ![a] = IF b \in saved[a] THEN b ELSE NoBackup]

Backup(a) ==
    /\ row[a].state = "installed"
    /\ Order(a, [row[a] EXCEPT !.state = "pending_backup"])
    /\ UNCHANGED from

\* start and stop
Run(a) ==
    /\ row[a].state = "installed" /\ row[a].run \notin {"pending_start", "pending_stop"}
    /\ \E command \in {"pending_start", "pending_stop"} : Order(a, [row[a] EXCEPT !.run = command])
    /\ UNCHANGED from

\* An uninstall stops the task of the app before it writes to the row, and starts a task
\* after that.
Uninstall(a) ==
    /\ row[a].state \notin {"none", "gone"} /\ manager[a].removal = "no"
    /\ Count("commands")
    /\ task' = [task EXCEPT ![a] = NoTask]
    /\ manager' = [manager EXCEPT ![a].removal = "stopped", ![a].queued = FALSE]
    /\ UNCHANGED <<row, things, images, con, sub, scheduler, monitor>>

MarkRemoval(a) ==
    /\ manager[a].removal = "stopped"
    /\ IF row[a].state = "gone"
         THEN /\ manager' = [manager EXCEPT ![a].removal = "no"]
              /\ UNCHANGED row
         ELSE /\ manager' = [manager EXCEPT ![a].removal = "marked"]
              /\ row' = [row EXCEPT ![a].state = "pending_uninstall"]
    /\ UNCHANGED <<things, commandFrame, count>>

\* "Task is already active", when there is one again.
StartRemoval(a) ==
    /\ manager[a].removal = "marked"
    /\ manager' = [manager EXCEPT ![a].removal = "no", ![a].queued = @ \/ task[a].n = 0]
    /\ UNCHANGED <<row, things, commandFrame, count>>

restartAppTask(a) ==
    /\ manager[a].restarts > 0
    /\ manager' = [manager EXCEPT ![a].restarts = @ - 1, ![a].queued = TRUE]
    /\ task' = [task EXCEPT ![a] = NoTask]
    /\ UNCHANGED <<row, things, images, con, sub, scheduler, monitor, count>>

Command(a) ==
    \/ Install(a) \/ Configure(a) \/ Update(a) \/ ForceUpdate(a) \/ Restore(a) \/ Backup(a)
    \/ Run(a) \/ Uninstall(a)

Manage(a) == MarkRemoval(a) \/ StartRemoval(a) \/ restartAppTask(a)

-----------------------------------------------------------------------------
\* The steps of a task, by what the app is to become.

\* A mutant: addons that are no longer asked for are removed before the backup.
TeardownFirst(what) ==
    CASE what \in {"pending_install", "pending_restore"} ->
           <<"stop", "stopped", "delete", "teardown", "image", "download", "setup", "create",
             "start", "started">>
      [] what = "pending_configure" ->
           <<"stop", "stopped", "delete", "download", "setup", "create", "start", "started">>
      [] what = "pending_update" ->
           <<"download", "stop", "stopped", "delete", "image", "teardown", "backup", "setup",
             "create", "start", "started">>
      [] what = "pending_force_update" ->
           <<"download", "stop", "stopped", "delete", "image", "teardown", "setup",
             "create", "start", "started">>
      [] what = "pending_backup" -> <<"backup">>
      [] what = "pending_uninstall" -> <<"stop", "stopped", "delete", "teardown", "image">>
      [] what = "pending_stop" -> <<"stop", "stopped">>
      [] what = "pending_start" -> <<"start", "started">>
      [] OTHER -> <<>>

Plan(what) ==
    CASE what \in {"pending_install", "pending_restore"} ->
           <<"stop", "stopped", "delete", "teardown", "image", "download", "setup", "create",
             "start", "started">>
      [] what = "pending_configure" ->
           <<"stop", "stopped", "delete", "download", "setup", "create", "start", "started">>
      [] what = "pending_update" ->
           <<"download", "stop", "stopped", "delete", "image", "backup", "teardown", "setup",
             "create", "start", "started">>
      [] what = "pending_force_update" ->
           <<"download", "stop", "stopped", "delete", "image", "teardown", "setup",
             "create", "start", "started">>
      [] what = "pending_backup" -> <<"backup">>
      [] what = "pending_uninstall" -> <<"stop", "stopped", "delete", "teardown", "image">>
      [] what = "pending_stop" -> <<"stop", "stopped">>
      [] what = "pending_start" -> <<"start", "started">>
      [] OTHER -> <<>>

\* What a task that reads this row does: an installed app is stopped or started, which is
\* also done for one that runs.
Does(r) ==
    IF r.state # "installed" THEN r.state
    ELSE IF r.run = "running" THEN "pending_start" ELSE r.run

RunCommands == {"pending_stop", "pending_start"}
Reinstalls == {"pending_install", "pending_restore"}
Updates == {"pending_update", "pending_force_update"}

PlanOf(a) == Plan(task[a].does)
In(a, step) == task[a].n \in 1..Len(PlanOf(a)) /\ PlanOf(a)[task[a].n] = step

\* Addons an app does not ask for any more, or all of it.
Unused(a) ==
    IF task[a].does \in Updates THEN Asks(task[a].old) \ Asks(task[a].version)
    ELSE IF task[a].does = "pending_uninstall" \/ task[a].old = 0 THEN Asks(task[a].version)
    ELSE Asks(task[a].old)

\* The addons are set up and torn down one after the other, in the order of the manifest.
First(S) == IF "mail" \in S THEN "mail" ELSE IF "db" \in S THEN "db" ELSE "redis"

\* What there is to do in a step is found out as it begins.
Todo(a, step) ==
    CASE step = "delete" -> (IF con[a].id # 0 THEN {"app"} ELSE {})
                              \cup (IF sub[a] # "none" THEN {"sub"} ELSE {})
      [] step = "teardown" -> Unused(a) \cap Addons
      [] step = "setup" -> Asks(task[a].version) \cap Addons
      [] OTHER -> {}

Advance(a) ==
    LET n == task[a].n + 1
    IN task' = [task EXCEPT ![a].n = n, ![a].addon = "none", ![a].secret = 0,
                            ![a].todo = IF n <= Len(PlanOf(a)) THEN Todo(a, PlanOf(a)[n]) ELSE {}]
OneDone(a, what) ==
    task' = [task EXCEPT ![a].todo = @ \ {what}, ![a].addon = "none", ![a].secret = 0]

\* The task reads the row, and is done when that says there is nothing to do.  When it cannot
\* read it, it ends as it does when its first step fails and that is not written.
startTask(a) ==
    /\ manager[a].queued /\ task[a].n = 0
    /\ manager' = [manager EXCEPT ![a].queued = FALSE]
    /\ task' = [task EXCEPT ![a] =
                  IF Plan(Does(row[a])) = <<>> THEN NoTask
                  ELSE [NoTask EXCEPT !.n = 1, !.does = Does(row[a]), !.version = row[a].version,
                                      !.old = row[a].old, !.from = from[a]]]
    /\ UNCHANGED <<row, things, images, con, sub, scheduler, monitor, count>>

\* What is given up as an app is stopped: all of it when it is installed again or removed,
\* but for the backup it is restored from; with a forced update, which makes no backup,
\* the database that is not asked for any more.
GivenUp(a) ==
    \/ task[a].does \in Reinstalls \cup {"pending_uninstall"}
    \/ task[a].does = "pending_force_update" /\ "db" \in Unused(a)

stopApp(a) ==
    /\ In(a, "stop")
    /\ con' = [con EXCEPT ![a].runs = FALSE]
    /\ latest' = [latest EXCEPT ![a] =
                    CASE task[a].does \in Reinstalls -> task[a].from.content
                      [] task[a].does \notin Reinstalls -> IF GivenUp(a) THEN NoData ELSE @]
    /\ alive' = [alive EXCEPT ![a] = TRUE]
    /\ Advance(a)
    /\ UNCHANGED <<row, manager, table, db, redis, saved, from, images, sub, scheduler, health, mailed, count>>

appStopped(a) ==
    /\ In(a, "stopped")
    /\ row' = [row EXCEPT ![a].run = "stopped"]
    /\ health' = [health EXCEPT ![a] = "null"]
    /\ Advance(a)
    /\ UNCHANGED <<manager, things, images, con, sub, scheduler, mailed, alive, count>>

\* Those that were listed are removed, one after the other.
deleteContainer(a) ==
    /\ In(a, "delete")
    /\ \E what \in task[a].todo :
         /\ con' = IF what = "app" THEN [con EXCEPT ![a] = NoContainer] ELSE con
         /\ sub' = IF what = "sub" THEN [sub EXCEPT ![a] = "none"] ELSE sub
         /\ OneDone(a, what)
    /\ UNCHANGED <<row, manager, things, images, scheduler, monitor, count>>

deleteContainers(a) ==
    /\ In(a, "delete") /\ task[a].todo = {}
    /\ row' = [row EXCEPT ![a].cid = 0]
    /\ Advance(a)
    /\ UNCHANGED <<manager, things, images, con, sub, scheduler, monitor, count>>

\* What a database of the app holds after one of its operations: it is added or left as it
\* is, removed, or filled with a dump.  mysql, postgresql and mongodb are alike.
databaseAfter(a, operation) ==
    CASE operation = "setup" -> IF db[a] = NoData THEN 0 ELSE db[a]
      [] operation = "teardown" -> NoData
      [] operation = "restore" -> task[a].from.content

\* Destructive: the data goes with the addon.  The directory redis keeps its own in is
\* not told apart.
teardownRedis(a) == redis' = [redis EXCEPT ![a] = 0] /\ UNCHANGED db
teardownDatabase(a) == db' = [db EXCEPT ![a] = databaseAfter(a, "teardown")] /\ UNCHANGED redis

teardownAddon(a) ==
    /\ In(a, "teardown") /\ task[a].todo # {}
    /\ LET addon == First(task[a].todo)
       IN /\ \/ addon = "mail" /\ UNCHANGED <<db, redis>>
             \/ addon = "db" /\ teardownDatabase(a)
             \/ addon = "redis" /\ teardownRedis(a)
          /\ table' = [table EXCEPT ![a][addon] = 0]
          /\ OneDone(a, addon)
    /\ UNCHANGED <<row, manager, saved, from, latest, images, con, sub, scheduler, monitor, count>>

\* A mutant: the old redis container is kept.
RedisKept(a, x) == redis' = [redis EXCEPT ![a] = IF @ = 0 THEN x ELSE @] /\ UNCHANGED db

\* The old redis container is replaced; data that is there is kept.
setupRedis(a, x) == redis' = [redis EXCEPT ![a] = x] /\ UNCHANGED db
setupDatabase(a) == db' = [db EXCEPT ![a] = databaseAfter(a, "setup")] /\ UNCHANGED redis

\* The addon is there, with a new password,
setupAddon(a) ==
    /\ In(a, "setup") /\ task[a].todo # {} /\ task[a].addon = "none"
    /\ \E x \in New(a) :
         LET addon == First(task[a].todo)
         IN /\ \/ addon = "mail" /\ UNCHANGED <<db, redis>>
               \/ addon = "db" /\ setupDatabase(a)
               \/ addon = "redis" /\ setupRedis(a, x)
            /\ task' = [task EXCEPT ![a].addon = addon, ![a].secret = x]
    /\ UNCHANGED <<row, manager, table, saved, from, latest, images, con, sub, scheduler, monitor, count>>

\* that is written to the table.  A database is filled after that, when an app is restored.
setAddonConfig(a) ==
    /\ In(a, "setup") /\ task[a].secret # 0
    /\ table' = [table EXCEPT ![a][task[a].addon] = task[a].secret]
    /\ IF task[a].addon = "db" /\ task[a].does \in Reinstalls /\ task[a].from # NoBackup
         THEN task' = [task EXCEPT ![a].secret = 0]
         ELSE OneDone(a, task[a].addon)
    /\ UNCHANGED <<row, manager, db, redis, saved, from, latest, images, con, sub, scheduler, monitor, count>>

restoreDatabase(a) ==
    /\ In(a, "setup") /\ task[a].addon = "db" /\ task[a].secret = 0
    /\ db' = [db EXCEPT ![a] = databaseAfter(a, "restore")]
    /\ OneDone(a, "db")
    /\ UNCHANGED <<row, manager, table, redis, saved, from, latest, images, con, sub, scheduler, monitor, count>>

addonsDone(a) ==
    /\ In(a, "teardown") \/ In(a, "setup")
    /\ task[a].todo = {}
    /\ Advance(a)
    /\ UNCHANGED <<row, manager, things, images, con, sub, scheduler, monitor, count>>

\* Of the addons it had.
BackedUp(a) == IF task[a].does = "pending_update" THEN task[a].old ELSE task[a].version

\* What the dump of its database is, NoData for an app without one.
dumped(a) == IF "db" \in Asks(BackedUp(a)) THEN db[a] ELSE NoData

\* A dump is taken of an addon that is there.
Unable(a) ==
    \/ "db" \in Asks(BackedUp(a)) /\ db[a] = NoData
    \/ "redis" \in Asks(BackedUp(a)) /\ redis[a] = 0

backupAddons(a) ==
    /\ In(a, "backup") /\ ~Unable(a)
    /\ saved' = [saved EXCEPT ![a] = @ \cup {[version |-> BackedUp(a), content |-> dumped(a)]}]
    /\ Advance(a)
    /\ UNCHANGED <<row, manager, table, db, redis, from, latest, images, con, sub, scheduler, monitor, count>>

\* Tried ten times, fifteen seconds apart; the image is that of the new version.
downloadImage(a) ==
    /\ In(a, "download")
    /\ images' = [images EXCEPT ![a] = @ \cup {task[a].version}]
    /\ Advance(a)
    /\ UNCHANGED <<row, manager, things, con, sub, scheduler, monitor, count>>

\* The version whose image is not needed any more, 0 for none.
Outdated(a) ==
    CASE task[a].does = "pending_uninstall" -> task[a].version
      [] task[a].does # "pending_uninstall" -> IF task[a].old = task[a].version THEN 0 ELSE task[a].old

\* "another container using the image", that of a scheduled command: it may stay.
deleteImage(a) ==
    /\ In(a, "image")
    /\ \/ images' = [images EXCEPT ![a] = @ \ {Outdated(a)}]
       \/ sub[a] # "none" /\ UNCHANGED images
    /\ Advance(a)
    /\ UNCHANGED <<row, manager, things, con, sub, scheduler, monitor, count>>

\* With the environment as the table has it.
createContainer(a) ==
    /\ In(a, "create") /\ con[a] = NoContainer /\ task[a].version \in images[a]
    /\ \E x \in New(a) :
         /\ con' = [con EXCEPT ![a] = [id |-> x, version |-> task[a].version, env |-> table[a], runs |-> FALSE]]
         /\ row' = [row EXCEPT ![a].cid = x]
    /\ Advance(a)
    /\ UNCHANGED <<manager, things, images, sub, scheduler, monitor, count>>

startContainer(a) ==
    /\ In(a, "start") /\ con[a].id # 0
    /\ con' = [con EXCEPT ![a].runs = TRUE]
    /\ Advance(a)
    /\ UNCHANGED <<row, manager, things, images, sub, scheduler, monitor, count>>

appStarted(a) ==
    /\ In(a, "started")
    /\ row' = [row EXCEPT ![a].run = "running"]
    /\ Advance(a)
    /\ UNCHANGED <<manager, things, images, con, sub, scheduler, monitor, count>>

End(a, r) ==
    /\ row' = [row EXCEPT ![a] = r]
    /\ task' = [task EXCEPT ![a] = NoTask]

\* The last write, over whatever was written to the row meanwhile.
Finish(a) ==
    /\ task[a].n = Len(PlanOf(a)) + 1 /\ task[a].n # 0 /\ PlanOf(a) # <<>>
    /\ End(a, CASE task[a].does \in RunCommands -> row[a]
                [] task[a].does = "pending_uninstall" -> [row[a] EXCEPT !.state = "gone"]
                [] OTHER -> [row[a] EXCEPT !.state = "installed"])
    /\ health' = [health EXCEPT ![a] =
                    IF task[a].does \in RunCommands \cup {"pending_backup"} THEN @ ELSE "null"]
    /\ UNCHANGED <<manager, things, images, con, sub, scheduler, mailed, alive, count>>

\* The write of the failure may fail as well.
Fail(a) ==
    /\ task[a].n # 0
    /\ IF In(a, "backup") /\ Unable(a) THEN UNCHANGED count ELSE Count("faults")
    /\ \/ task[a].does \notin RunCommands
          /\ End(a, [row[a] EXCEPT !.state = IF task[a].does = "pending_backup" THEN "installed" ELSE "error"])
       \/ End(a, row[a])
    /\ UNCHANGED <<manager, things, images, con, sub, scheduler, monitor>>

\* A task crashes, or is killed before it has a handler for that.  The write that says so is
\* waited for by nobody, and lost when it fails.
TaskCrashes(a) ==
    /\ task[a].n # 0
    /\ Count("faults")
    /\ task' = [task EXCEPT ![a] = NoTask]
    /\ manager' = [manager EXCEPT ![a].crashed = TRUE]
    /\ UNCHANGED <<row, things, images, con, sub, scheduler, monitor>>

CrashWrite(a) ==
    /\ manager[a].crashed
    /\ manager' = [manager EXCEPT ![a].crashed = FALSE]
    /\ row' = [row EXCEPT ![a].state = IF @ = "gone" THEN @ ELSE "error"]
    /\ UNCHANGED <<things, images, con, sub, task, scheduler, monitor, count>>

TaskStep(a) ==
    \/ startTask(a) \/ stopApp(a) \/ appStopped(a) \/ deleteContainer(a) \/ deleteContainers(a)
    \/ teardownAddon(a) \/ setupAddon(a) \/ setAddonConfig(a) \/ restoreDatabase(a) \/ addonsDone(a)
    \/ backupAddons(a) \/ downloadImage(a) \/ deleteImage(a) \/ createContainer(a)
    \/ startContainer(a) \/ appStarted(a) \/ Finish(a)

-----------------------------------------------------------------------------
\* Users change what the app keeps, whenever its container runs.
Use(a) ==
    /\ con[a].runs /\ con[a].env.db # 0 /\ db[a] < MaxUses
    /\ db' = [db EXCEPT ![a] = @ + 1]
    /\ latest' = [latest EXCEPT ![a] = db[a] + 1]
    /\ UNCHANGED <<row, manager, table, redis, saved, from, images, con, sub, task, scheduler, monitor, count>>

\* A backup is removed when its retention time is over, which is longer than any task takes:
\* what is nowhere else is given up.
cleanup(a) ==
    /\ row[a].state \in {"installed", "error"} /\ task[a].n = 0
    /\ \E b \in saved[a] :
         /\ saved' = [saved EXCEPT ![a] = @ \ {b}]
         /\ latest' = [latest EXCEPT ![a] =
                         IF @ = db[a] \/ \E other \in saved[a] \ {b} : other.content = @ THEN @ ELSE NoData]
    /\ UNCHANGED <<row, manager, table, db, redis, from, images, con, sub, task, scheduler, monitor, count>>

-----------------------------------------------------------------------------
\* The scheduler, once a minute; a look that takes longer than that, so that two
\* overlap, is not modelled.

present == {a \in Apps : row[a].state \notin {"none", "gone"}}
taskFrame == <<row, manager, things, images, con, task, monitor, count>>

\* A look that finds nothing to do does nothing.
SyncStart ==
    LET wants == {a \in present : "scheduler" \in Asks(row[a].version)}
        known == {a \in Apps : gState[a]}
    IN /\ sync = NoSync /\ known # wants
       /\ sync' = [step |-> "removed", rows |-> present, app |-> {}, wants |-> wants,
                   todo |-> known \ present]
       /\ UNCHANGED <<gState, job, tick, sub, taskFrame>>

\* The look ends with the last app.
DoneWith(a) ==
    sync' = IF sync.step = "apps" /\ sync.todo = {a} THEN NoSync
            ELSE [sync EXCEPT !.app = {}, !.todo = @ \ {a}]

\* No container has to be removed for an app the scheduler did not know.
createCronJobs(a) ==
    /\ sync.step = "apps" /\ sync.app = {} /\ a \in sync.todo \cap sync.wants
    /\ gState' = [gState EXCEPT ![a] = TRUE]
    /\ job' = [job EXCEPT ![a] = TRUE]
    /\ DoneWith(a)
    /\ UNCHANGED <<tick, sub, taskFrame>>

stopJobs(a) ==
    /\ sync.app = {} /\ a \in sync.todo \ sync.wants
    /\ job' = [job EXCEPT ![a] = FALSE]
    /\ sync' = [sync EXCEPT !.app = {a}]
    /\ UNCHANGED <<gState, tick, sub, taskFrame>>

\* A mutant: the cron jobs are stopped and what they have started is left.
JobsOnly(a) ==
    /\ a \in sync.app
    /\ gState' = [gState EXCEPT ![a] = @ /\ sync.step = "removed"]
    /\ DoneWith(a)
    /\ UNCHANGED <<job, tick, sub, taskFrame>>

killContainer(a) ==
    /\ a \in sync.app
    /\ sub' = [sub EXCEPT ![a] = "none"]
    /\ gState' = [gState EXCEPT ![a] = @ /\ sync.step = "removed"]
    /\ DoneWith(a)
    /\ UNCHANGED <<job, tick, taskFrame>>

\* A kill that fails, of a container that is not there as well, is no more than logged: of the
\* apps that are removed the others are skipped, and the scheduler forgets all of them.
KillFails(a) ==
    LET skipped == IF sync.step = "removed" THEN sync.todo ELSE {a}
    IN /\ a \in sync.app
       /\ Count("faults")
       /\ sub' = [b \in Apps |-> IF b \in skipped /\ sub[b] # "none" THEN "lost" ELSE sub[b]]
       /\ gState' = [gState EXCEPT ![a] = @ /\ sync.step = "removed"]
       /\ IF sync.step = "removed" THEN sync' = [sync EXCEPT !.app = {}, !.todo = {}] ELSE DoneWith(a)
       /\ UNCHANGED <<job, tick, row, manager, things, images, con, task, monitor>>

\* Then the scheduler forgets those that are removed, and looks at the others.
RemovedStopped ==
    LET changed == {a \in sync.rows : gState[a] # (a \in sync.wants)}
    IN /\ sync.step = "removed" /\ sync.app = {} /\ sync.todo = {}
       /\ gState' = [a \in Apps |-> gState[a] /\ a \in sync.rows]
       /\ sync' = IF changed = {} THEN NoSync ELSE [sync EXCEPT !.step = "apps", !.todo = changed]
       /\ UNCHANGED <<job, tick, sub, taskFrame>>

Sync ==
    \/ SyncStart \/ RemovedStopped
    \/ \E a \in Apps : createCronJobs(a) \/ stopJobs(a) \/ killContainer(a)

\* It is time for the scheduled command; the next time comes after this is done.  What is
\* left of the one before is killed, and nothing more is done when that fails.
doTask(a) ==
    /\ job[a] /\ tick[a].step = "idle" /\ row[a].state = "installed" /\ row[a].run = "running"
    /\ sub' = [sub EXCEPT ![a] = "none"]
    /\ tick' = [tick EXCEPT ![a] = [step |-> "create", cid |-> row[a].cid, version |-> row[a].version]]
    /\ UNCHANGED <<gState, job, sync, taskFrame>>

\* Next to the container of the app as it was read, which may be gone; it is started then.
createSubcontainer(a) ==
    /\ tick[a].step = "create" /\ gState[a]
    /\ IF con[a].id = tick[a].cid /\ tick[a].version \in images[a] /\ sub[a] = "none"
         THEN sub' = [sub EXCEPT ![a] = "made"]
         ELSE UNCHANGED sub
    /\ tick' = [tick EXCEPT ![a] = NoTick]
    /\ UNCHANGED <<gState, job, sync, taskFrame>>

-----------------------------------------------------------------------------
\* The monitor asks every app every ten seconds.

monitorFrame == <<row, manager, things, images, con, sub, task, scheduler>>

Answers(a) == con[a].id = row[a].cid /\ con[a].runs /\ alive[a]

\* A mutant: nothing is written once a mail was sent.
MailedOnly(a) ==
    /\ row[a].state = "installed" /\ row[a].run = "running" /\ ~mailed[a]
    /\ \/ /\ Answers(a)
          /\ health' = [health EXCEPT ![a] = "healthy"]
          /\ UNCHANGED mailed
       \/ /\ ~Answers(a)
          /\ health' = [health EXCEPT ![a] = "dead"]
          /\ mailed' = [mailed EXCEPT ![a] = TRUE]
    /\ UNCHANGED <<alive, count, monitorFrame>>

\* An app that has not answered for ten minutes is said to be dead, with a mail; a check
\* before that changes nothing.  How long it has not answered is left open: the last
\* answer is remembered through tasks, in which the app is not asked.  The answer is
\* written at once: one that comes while a task is at work is not written, and one that
\* comes after the task is done is not modelled.
checkAppHealth(a) ==
    /\ row[a].state = "installed" /\ row[a].run = "running"
    /\ \/ /\ Answers(a)
          /\ health' = [health EXCEPT ![a] = "healthy"]
          /\ UNCHANGED mailed
       \/ /\ ~Answers(a) /\ ~mailed[a]
          /\ health' = [health EXCEPT ![a] = "dead"]
          /\ mailed' = [mailed EXCEPT ![a] = TRUE]
    /\ UNCHANGED <<alive, count, monitorFrame>>

\* An app stops to answer, and answers again, after a stop in any case.
AppDies(a) ==
    /\ con[a].runs /\ alive[a]
    /\ alive' = [alive EXCEPT ![a] = FALSE]
    /\ UNCHANGED <<health, mailed, count, monitorFrame>>

AppRecovers(a) ==
    /\ con[a].runs /\ ~alive[a]
    /\ alive' = [alive EXCEPT ![a] = TRUE]
    /\ UNCHANGED <<health, mailed, count, monitorFrame>>

-----------------------------------------------------------------------------
\* The box ends; docker and the tables go on.  Tasks are resumed by what the rows say.
\* Nobody knows the container of a scheduled command then, when its app is gone.
Unfinished(r) ==
    /\ r.state \notin {"none", "gone", "error"}
    /\ ~(r.state = "installed" /\ r.run = "running")

ProcessGone ==
    /\ task' = [a \in Apps |-> NoTask]
    /\ manager' = [a \in Apps |-> [Idle EXCEPT !.queued = Unfinished(row[a])]]
    /\ gState' = [a \in Apps |-> FALSE] /\ job' = [a \in Apps |-> FALSE]
    /\ sync' = NoSync
    /\ tick' = [a \in Apps |-> NoTick]
    /\ mailed' = [a \in Apps |-> FALSE]
    /\ sub' = [a \in Apps |-> IF row[a].state = "gone" /\ sub[a] # "none" THEN "lost" ELSE sub[a]]
    /\ UNCHANGED <<row, things, images, con, health, alive>>

Crash == Count("faults") /\ ProcessGone

\* The command of an app the scheduler has forgotten in between is looked up.
LookupThrows(a) ==
    /\ tick[a].step = "create" /\ ~gState[a]
    /\ ProcessGone
    /\ UNCHANGED count

Next ==
    \/ Sync \/ Crash
    \/ \E a \in Apps : \/ Command(a) \/ Manage(a) \/ TaskStep(a) \/ Fail(a)
                       \/ TaskCrashes(a) \/ CrashWrite(a) \/ Use(a) \/ cleanup(a) \/ KillFails(a)
                       \/ doTask(a) \/ createSubcontainer(a) \/ LookupThrows(a)
                       \/ checkAppHealth(a) \/ AppDies(a) \/ AppRecovers(a)

Fairness ==
    /\ WF_vars(Sync)
    /\ \A a \in Apps : WF_vars(checkAppHealth(a))

Spec == Init /\ [][Next]_vars /\ Fairness

-----------------------------------------------------------------------------
States == {"none", "pending_install", "pending_configure", "pending_update", "pending_force_update",
           "pending_restore", "pending_backup", "pending_uninstall", "installed", "error", "gone"}
RunStates == {"null", "running", "stopped", "pending_start", "pending_stop"}
Row == [state : States, run : RunStates, version : 0..2, old : 0..2, cid : Nat]
Managed == [restarts : Nat, removal : {"no", "stopped", "marked"}, queued : BOOLEAN,
            crashed : BOOLEAN]
Secrets == [Addons -> Nat]
Data == 0..NoData
Saved == [version : 1..2, content : Data]
Container == [id : Nat, version : 0..2, env : Secrets, runs : BOOLEAN]
Task == [n : 0..12, does : States \cup RunStates, version : 0..2, old : 0..2,
         from : Saved \cup {NoBackup}, todo : SUBSET (Addons \cup {"app", "sub"}),
         addon : Addons \cup {"none"}, secret : Nat]
SyncState == [step : {"idle", "removed", "apps"}, rows : SUBSET Apps, wants : SUBSET Apps,
              todo : SUBSET Apps, app : SUBSET Apps]
TickState == [step : {"idle", "create"}, cid : Nat, version : 0..2]
Counts == [commands : 0..MaxCommands, faults : 0..MaxFaults]

\* Types.
TypeOK ==
    /\ row \in [Apps -> Row] /\ manager \in [Apps -> Managed]
    /\ table \in [Apps -> Secrets] /\ db \in [Apps -> Data] /\ redis \in [Apps -> Nat]
    /\ saved \in [Apps -> SUBSET Saved] /\ from \in [Apps -> Saved \cup {NoBackup}]
    /\ latest \in [Apps -> Data]
    /\ images \in [Apps -> SUBSET (0..2)] /\ con \in [Apps -> Container]
    /\ sub \in [Apps -> {"none", "made", "lost"}]
    /\ task \in [Apps -> Task]
    /\ gState \in [Apps -> BOOLEAN] /\ job \in [Apps -> BOOLEAN]
    /\ sync \in SyncState /\ tick \in [Apps -> TickState]
    /\ health \in [Apps -> {"null", "healthy", "dead"}]
    /\ mailed \in [Apps -> BOOLEAN] /\ alive \in [Apps -> BOOLEAN]
    /\ count \in Counts

\* The container of an installed app is the one its row names, is there with its image, has
\* the passwords the addons of the app have now, and runs when the row says so: however often
\* and at whatever step tasks were ended and done again (KNOWN_ADDONS: "setup can be called
\* multiple times"), and when the last write of an old task hides a newer command.
EnvIsCurrent ==
    \A a \in Apps :
        row[a].state = "installed" =>
            /\ con[a].id = row[a].cid /\ con[a].id # 0 /\ con[a].version \in images[a]
            /\ con[a].env = table[a] /\ table[a].redis = redis[a]
            /\ row[a].run = "running" => con[a].runs

\* What the users of an app have written last is in its database or in a backup of the
\* app (KNOWN_ADDONS: "existing data must not be lost"; "only delete unused addons after
\* backup"), until it is given up: by a removal, by a restore or an install that is begun, by a
\* forced update to a version that has no database, or with the last backup that has it.
DataRecoverable ==
    \A a \in Apps :
        latest[a] # NoData =>
            latest[a] = db[a] \/ \E b \in saved[a] : b.content = latest[a]

\* The container of a scheduled command that outlives its app is removed by the scheduler,
\* unless the box restarts before it does or docker fails as it is killed.
NoStray ==
    \A a \in Apps : (row[a].state = "gone" /\ sub[a] = "made") ~> sub[a] # "made"

\* An app that is to run and answers is shown as healthy after a while, also when it was dead
\* before.
ShouldAnswer(a) == row[a].state = "installed" /\ row[a].run = "running"
AnswersIsShown ==
    \A a \in Apps :
        (ShouldAnswer(a) /\ Answers(a)) ~> (health[a] = "healthy" \/ ~(ShouldAnswer(a) /\ Answers(a)))

\* Fails: the mail about an app is sent once for each run of the box, and a death after that is
\* not written to the row either.
DeathIsShown ==
    \A a \in Apps :
        (ShouldAnswer(a) /\ ~Answers(a)) ~> (health[a] = "dead" \/ ~ShouldAnswer(a) \/ Answers(a))
=============================================================================
