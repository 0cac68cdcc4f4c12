---------------------------- MODULE TaskManager -----------------------------
(***************************************************************************)
(* src/src/taskmanager.js over src/src/locker.js: which apps have an       *)
(* apptask process, which wait for one, and how the tasks share the lock   *)
(* with a full backup, a box update and a migration.                       *)
(*                                                                         *)
(* The box is one JavaScript thread, so an action is one turn of its event *)
(* loop: everything a handler does before it returns, its listeners and    *)
(* callbacks included.  Where one turn runs several functions of the       *)
(* module (an exit unlocks, the unlock starts the next task, a callback of *)
(* stopAppTask starts one more), the functions are operators on the record *)
(* "mem" of the module variables and the action composes them.             *)
(*                                                                         *)
(* What an app task does, and what the database says of the app, is in     *)
(* AppLifecycle; here a task may finish or die at any moment.              *)
(***************************************************************************)
EXTENDS Locker, Sequences, FiniteSets

CONSTANTS
    Apps,              \* the ids of the apps
    TASK_CONCURRENCY,  \* tasks that may run at once (3 in the code)
    Setups,            \* platform.start calls of the first box process: 1, or
                       \* 2 when two dns_setup requests overlap
    MaxPending,        \* bound: requests come only while the queue is shorter
    MaxRequests        \* bound: calls of stopAppTask that may wait for one task

ASSUME TaskManagerAssumption ==
    /\ IsFiniteSet(Apps)
    /\ TASK_CONCURRENCY \in Nat \ {0}
    /\ Setups \in 1 .. 2
    /\ MaxPending \in Nat
    /\ MaxRequests \in Nat

VARIABLES
    mem,         \* the variables of locker.js and taskmanager.js
    onExit,      \* onExit[a]: the once('exit') callbacks stopAppTask put on a's task
    uninstalls,  \* uninstalls[a]: apps.uninstall calls between their stopAppTask
                 \* and their startAppTask, waiting for the database
    awaited,     \* the app whose exit pauseTasks waits for, or NoApp
    stopping,    \* the apps pauseTasks has still to stop after that one
    job,         \* the operation under lock(): an exclusive one, or NoOperation
    committed,   \* that operation succeeded and left the lock held for good
    timers,      \* 15 second platform-ready timers running
    readyTimer,  \* gPlatformReadyTimer holds one of them
    resuming,    \* appdb.getAll calls of resumeTasks outstanding
    resumeLost   \* one of those calls failed in this process

tmVars == <<mem, onExit, uninstalls, awaited, stopping, job, committed,
            timers, readyTimer, resuming, resumeLost>>

NoApp == "none"

-----------------------------------------------------------------------------
(***************************************************************************)
(* The apptask process of an app, as the box sees it.  A process is "boot" *)
(* until apptask.js has installed its SIGTERM handler, then "ready".  The  *)
(* other states are of a process that ended and whose exit event is still  *)
(* to be handled: with code 0, with code 50, by the box's own SIGTERM      *)
(* before there was a handler, or in any other way.                        *)
(***************************************************************************)
Ended == {"exited0", "exited50", "killed", "crashed"}

Live == {"boot", "ready"}

TaskStates == {"none"} \cup Live \cup Ended

\* What SIGTERM does to a task: the handler of apptask.js exits with code 0.
Sigterm(t) == CASE t = "boot"  -> "killed"
                [] t = "ready" -> "exited0"
                [] OTHER       -> t

\* The exit handler's idea of a crash: a signal, or a code other than 0 and 50.
IsCrash(t) == t \in {"killed", "crashed"}

Memory == [lock      : Locks,
           tasks     : [Apps -> TaskStates],  \* gActiveTasks: "none" is no entry
           pending   : Seq(Apps),             \* gPendingTasks
           paused    : BOOLEAN,               \* gPaused
           listeners : 0 .. Setups,           \* startNextTask on 'unlocked'
           aborted   : BOOLEAN]               \* an assertion or a throw ended the box

InitialMemory == [lock      |-> Unlocked,
                  tasks     |-> [a \in Apps |-> "none"],
                  pending   |-> <<>>,
                  paused    |-> TRUE,
                  listeners |-> 0,
                  aborted   |-> FALSE]

Active(m) == {a \in Apps : m.tasks[a] # "none"}

Queued(m) == {m.pending[i] : i \in DOMAIN m.pending}

\* The queue without some apps.  What SelectSeq keeps is a sequence of the other
\* apps of the queue: saying so spares the proofs an induction over SelectSeq.
Without(s, removed) ==
    LET kept == SelectSeq(s, LAMBDA a : a \notin removed)
    IN  IF kept \in Seq({s[i] : i \in DOMAIN s} \ removed) THEN kept ELSE <<>>

\* The sequences that hold each member of S once.
Orders(S) == {q \in [1 .. Cardinality(S) -> S] :
                 \A i, j \in 1 .. Cardinality(S) : q[i] = q[j] => i = j}

-----------------------------------------------------------------------------
\* Mutant: the lock is not asked for.
MustQueueIgnoresLock(m) == m.paused \/ Cardinality(Active(m)) >= TASK_CONCURRENCY

\* Mutant: whether the platform is ready is not asked.
MustQueueIgnoresPause(m) == \/ Cardinality(Active(m)) >= TASK_CONCURRENCY
                            \/ ~CanRecursiveLock(m.lock, OP_APPTASK)

(***************************************************************************)
(* startAppTask.  An app that has a task already is an error for the       *)
(* caller and changes nothing.  The app is queued, a second time if need   *)
(* be, while the platform is not ready, the limit is reached, or the lock  *)
(* is held for something else.  Otherwise the task is forked.              *)
(***************************************************************************)
MustQueue(m) == \/ m.paused
                \/ Cardinality(Active(m)) >= TASK_CONCURRENCY
                \/ ~CanRecursiveLock(m.lock, OP_APPTASK)

Fork(m, a) == [m EXCEPT !.lock = RecursiveLock(@, OP_APPTASK, 1),
                        !.tasks[a] = "boot"]

StartAppTask(m, a) ==
    CASE a \in Active(m) -> m
      [] a \notin Active(m) /\ MustQueue(m)  -> [m EXCEPT !.pending = Append(@, a)]
      [] a \notin Active(m) /\ ~MustQueue(m) -> Fork(m, a)

\* n calls of startAppTask(a) in a row: the first either starts the task, and
\* the others fail, or queues it, and then so do the others.
StartAppTaskTimes(m, a, n) ==
    IF n > 0 /\ a \notin Active(m) /\ MustQueue(m)
    THEN [m EXCEPT !.pending = @ \o [i \in 1 .. n |-> a]]
    ELSE IF n > 0 THEN StartAppTask(m, a) ELSE m

(***************************************************************************)
(* startNextTask, the listener of 'unlocked': one task per event.  Its     *)
(* assertion, thrown inside an event handler, ends the process.            *)
(***************************************************************************)
NextTaskAsserts(m) == m.pending # <<>> /\ Cardinality(Active(m)) >= TASK_CONCURRENCY

StartNextTask(m) ==
    IF m.pending = <<>> THEN m
    ELSE IF NextTaskAsserts(m) THEN [m EXCEPT !.aborted = TRUE]
    ELSE StartAppTask([m EXCEPT !.pending = Tail(@)], Head(m.pending))

\* Mutant: the event is emitted only while the lock is still held.
UnlockTellsOnlyHolders(m, op) ==
    LET unlocked == [m EXCEPT !.lock = Unlock(@, op)]
    IN  IF UnlockThrows(m.lock, op) THEN [m EXCEPT !.aborted = TRUE]
        ELSE IF m.listeners > 0 /\ unlocked.lock # Unlocked THEN StartNextTask(unlocked)
        ELSE unlocked

\* locker.unlock(op) and the 'unlocked' event it always emits: each listener
\* starts a task, and none runs after one threw.
UnlockAndNotify(m, op) ==
    LET unlocked == [m EXCEPT !.lock = Unlock(@, op)]
        first    == IF m.listeners > 0 THEN StartNextTask(unlocked) ELSE unlocked
    IN  IF UnlockThrows(m.lock, op) THEN [m EXCEPT !.aborted = TRUE]
        ELSE IF m.listeners > 1 /\ ~first.aborted THEN StartNextTask(first)
        ELSE first

-----------------------------------------------------------------------------
NoCallbacks == [restart |-> 0, uninstall |-> 0]

(***************************************************************************)
(* platform.start, which sets the ready timer, runs once per process;      *)
(* cloudron.dnsSetup tests config.fqdn() before an await and sets it       *)
(* after, so that two requests may both pass and platform.start run twice  *)
(* in the first process.                                                   *)
(***************************************************************************)
Init ==
    /\ mem = InitialMemory
    /\ onExit = [a \in Apps |-> NoCallbacks]
    /\ uninstalls = [a \in Apps |-> 0]
    /\ awaited = NoApp
    /\ stopping = {}
    /\ job = NoOperation
    /\ committed = FALSE
    /\ timers \in 1 .. Setups
    /\ readyTimer = TRUE
    /\ resuming = 0
    /\ resumeLost = FALSE

\* A handler runs only while the process does.
Running == ~mem.aborted

(***************************************************************************)
(* The apptask process by itself: it installs its SIGTERM handler, ends    *)
(* with 0 or 50, or dies of anything else.                                 *)
(***************************************************************************)
TaskReady(a) ==
    /\ mem.tasks[a] = "boot"
    /\ mem' = [mem EXCEPT !.tasks[a] = "ready"]
    /\ UNCHANGED <<onExit, uninstalls, awaited, stopping, job, committed,
                   timers, readyTimer, resuming, resumeLost>>

TaskEnds(a, t) ==
    /\ \/ mem.tasks[a] = "ready" /\ t \in {"exited0", "exited50"}
       \/ mem.tasks[a] \in Live  /\ t = "crashed"
    /\ mem' = [mem EXCEPT !.tasks[a] = t]
    /\ UNCHANGED <<onExit, uninstalls, awaited, stopping, job, committed,
                   timers, readyTimer, resuming, resumeLost>>

(***************************************************************************)
(* restartAppTask: stopAppTask, and startAppTask in its callback.  A task  *)
(* that runs is sent SIGTERM and the callback waits for its exit event;    *)
(* otherwise the app leaves the queue and both happen now.                 *)
(***************************************************************************)
RestartAppTask(a) ==
    /\ Running
    /\ Len(mem.pending) < MaxPending
    /\ \/ /\ a \in Active(mem)
          /\ onExit[a].restart < MaxRequests
          /\ onExit' = [onExit EXCEPT ![a].restart = @ + 1]
          /\ mem' = [mem EXCEPT !.tasks[a] = Sigterm(@)]
       \/ /\ a \notin Active(mem)
          /\ mem' = StartAppTask([mem EXCEPT !.pending = Without(@, {a})], a)
          /\ UNCHANGED onExit
    /\ UNCHANGED <<uninstalls, awaited, stopping, job, committed,
                   timers, readyTimer, resuming, resumeLost>>

(***************************************************************************)
(* apps.uninstall stops the task, marks the app in the database, and only  *)
(* then starts a task: StopForUninstall, and StartForUninstall once the    *)
(* database has answered.  Others run between the two.                     *)
(***************************************************************************)
StopForUninstall(a) ==
    /\ Running
    /\ onExit[a].uninstall + uninstalls[a] < MaxRequests
    /\ \/ /\ a \in Active(mem)
          /\ onExit' = [onExit EXCEPT ![a].uninstall = @ + 1]
          /\ mem' = [mem EXCEPT !.tasks[a] = Sigterm(@)]
          /\ UNCHANGED uninstalls
       \/ /\ a \notin Active(mem)
          /\ mem' = [mem EXCEPT !.pending = Without(@, {a})]
          /\ uninstalls' = [uninstalls EXCEPT ![a] = @ + 1]
          /\ UNCHANGED onExit
    /\ UNCHANGED <<awaited, stopping, job, committed, timers, readyTimer, resuming,
                   resumeLost>>

\* The database refused the mark (no such row, or an error): no task.
DropUninstall(a) ==
    /\ Running
    /\ uninstalls[a] > 0
    /\ uninstalls' = [uninstalls EXCEPT ![a] = @ - 1]
    /\ UNCHANGED <<mem, onExit, awaited, stopping, job, committed, timers,
                   readyTimer, resuming, resumeLost>>

StartForUninstall(a) ==
    /\ Running
    /\ uninstalls[a] > 0
    /\ Len(mem.pending) < MaxPending
    /\ uninstalls' = [uninstalls EXCEPT ![a] = @ - 1]
    /\ mem' = StartAppTask(mem, a)
    /\ UNCHANGED <<onExit, awaited, stopping, job, committed, timers, readyTimer,
                   resuming, resumeLost>>

-----------------------------------------------------------------------------
\* Mutant: the callbacks of stopAppTask run before the lock is released.
RestartBeforeUnlock(a) ==
    UnlockAndNotify(StartAppTaskTimes([mem EXCEPT !.tasks[a] = "none"], a, onExit[a].restart),
                    OP_APPTASK)

\* Mutant: the callbacks of stopAppTask are never called.
ExitForgetsCallbacks(a) == UnlockAndNotify([mem EXCEPT !.tasks[a] = "none"], OP_APPTASK)

(***************************************************************************)
(* The exit event of a's task: the handler of startAppTask (the entry      *)
(* goes, the lock is one less deep, the next task starts), then the        *)
(* callbacks stopAppTask added, in one turn.  The database write of a      *)
(* crash is in AppLifecycle.                                               *)
(***************************************************************************)
AfterExit(a) ==
    LET unlocked == UnlockAndNotify([mem EXCEPT !.tasks[a] = "none"], OP_APPTASK)
    IN  IF unlocked.aborted THEN unlocked
        ELSE StartAppTaskTimes(unlocked, a, onExit[a].restart)

\* pauseTasks stops the tasks one by one: an app without a task only leaves
\* the queue, the first one with a task is sent SIGTERM and awaited.
StopNext(m, keys) ==
    \E skipped \in SUBSET (keys \ Active(m)) :
       LET rest == [m EXCEPT !.pending = Without(@, skipped)]
       IN  \/ /\ keys = skipped
              /\ mem' = rest
              /\ awaited' = NoApp
              /\ stopping' = {}
           \/ \E b \in keys \cap Active(m) :
                 /\ mem' = [rest EXCEPT !.tasks[b] = Sigterm(@)]
                 /\ awaited' = b
                 /\ stopping' = keys \ (skipped \cup {b})

TaskExit(a) ==
    /\ Running
    /\ mem.tasks[a] \in Ended
    /\ onExit' = [onExit EXCEPT ![a] = NoCallbacks]
    /\ uninstalls' = [uninstalls EXCEPT ![a] = @ + onExit[a].uninstall]
    /\ \/ /\ awaited = a
          /\ StopNext(AfterExit(a), stopping)
       \/ /\ awaited # a
          /\ mem' = AfterExit(a)
          /\ UNCHANGED <<awaited, stopping>>
    /\ UNCHANGED <<job, committed, timers, readyTimer, resuming, resumeLost>>

(***************************************************************************)
(* The operations that take the lock with lock(): backups.backup,          *)
(* cloudron.update and cloudron.doMigrate.  A backup always unlocks; the   *)
(* other two unlock when they fail and otherwise keep the lock, because    *)
(* the box is then replaced.                                               *)
(***************************************************************************)
BeginExclusive(op) ==
    /\ Running
    /\ CanLock(mem.lock)
    /\ mem' = [mem EXCEPT !.lock = Lock(@, op)]
    /\ job' = op
    /\ UNCHANGED <<onExit, uninstalls, awaited, stopping, committed, timers,
                   readyTimer, resuming, resumeLost>>

EndExclusive ==
    /\ Running
    /\ job # NoOperation
    /\ ~committed
    /\ mem' = UnlockAndNotify(mem, job)
    /\ job' = NoOperation
    /\ UNCHANGED <<onExit, uninstalls, awaited, stopping, committed, timers,
                   readyTimer, resuming, resumeLost>>

CommitExclusive ==
    /\ Running
    /\ job \in {OP_BOX_UPDATE, OP_MIGRATE}
    /\ ~committed
    /\ committed' = TRUE
    /\ UNCHANGED <<mem, onExit, uninstalls, awaited, stopping, job, timers,
                   readyTimer, resuming, resumeLost>>

-----------------------------------------------------------------------------
\* Mutant: the timer is an interval, which stays.
ResumeTasksEveryTime ==
    /\ Running
    /\ timers > 0
    /\ readyTimer' = FALSE
    /\ mem' = [mem EXCEPT !.listeners = @ + 1, !.paused = FALSE]
    /\ resuming' = resuming + 1
    /\ UNCHANGED <<onExit, uninstalls, awaited, stopping, job, committed, timers,
                   resumeLost>>

\* Mutant: startNextTask is not put on 'unlocked'.
ResumeTasksUnheard ==
    /\ Running
    /\ timers > 0
    /\ timers' = timers - 1
    /\ readyTimer' = FALSE
    /\ mem' = [mem EXCEPT !.paused = FALSE]
    /\ resuming' = resuming + 1
    /\ UNCHANGED <<onExit, uninstalls, awaited, stopping, job, committed,
                   resumeLost>>

\* The timer of emitPlatformReady calls resumeTasks, up to its query.  It forgets the
\* timer; another one is known if it is set after that.
ResumeTasks ==
    /\ Running
    /\ timers > 0
    /\ timers' = timers - 1
    /\ readyTimer' \in {known \in BOOLEAN : known => timers' > 0}
    /\ mem' = [mem EXCEPT !.listeners = @ + 1, !.paused = FALSE]
    /\ resuming' = resuming + 1
    /\ UNCHANGED <<onExit, uninstalls, awaited, stopping, job, committed,
                   resumeLost>>

(***************************************************************************)
(* The answer of that query: restartAppTask for each app of S, in the      *)
(* order of their ids, which may be any.  The apps of S without a task     *)
(* leave the queue; as many as there is room for are started, and the      *)
(* others are queued again behind what is left.                            *)
(***************************************************************************)
RoomFor(m, n) ==
    LET free == TASK_CONCURRENCY - Cardinality(Active(m))
    IN  IF MustQueue(m) THEN 0 ELSE IF n < free THEN n ELSE free

ResumeApps(S) ==
    LET idle == S \ Active(mem)
        busy == S \cap Active(mem)
    IN  /\ Running
        /\ resuming > 0
        /\ \A a \in busy : onExit[a].restart < MaxRequests
        /\ resuming' = resuming - 1
        /\ onExit' = [a \in Apps |->
                         IF a \in busy THEN [onExit[a] EXCEPT !.restart = @ + 1]
                                       ELSE onExit[a]]
        /\ \E started \in SUBSET idle : \E queued \in Orders(idle \ started) :
              /\ Cardinality(started) = RoomFor(mem, Cardinality(idle))
              /\ mem' = [mem EXCEPT
                    !.tasks = [a \in Apps |-> CASE a \in started -> "boot"
                                                [] a \in busy    -> Sigterm(@[a])
                                                [] OTHER         -> @[a]],
                    !.lock = RecursiveLock(@, OP_APPTASK, Cardinality(started)),
                    !.pending = Without(@, idle) \o queued]
        /\ UNCHANGED <<uninstalls, awaited, stopping, job, committed, timers,
                       readyTimer, resumeLost>>

\* The query failed: its callback logs the error, and nothing is restarted.
ResumeFails ==
    /\ Running
    /\ resuming > 0
    /\ resuming' = resuming - 1
    /\ resumeLost' = TRUE
    /\ UNCHANGED <<mem, onExit, uninstalls, awaited, stopping, job, committed,
                   timers, readyTimer>>

(***************************************************************************)
(* platform.stop, when the server stops: the ready timer it knows of is    *)
(* cleared, the queue is dropped and the tasks are stopped.  The process   *)
(* exits 3 seconds later, whether that is done or not.                     *)
(***************************************************************************)
PauseTasks ==
    /\ Running
    /\ awaited = NoApp
    /\ timers' = IF readyTimer THEN timers - 1 ELSE timers
    /\ readyTimer' = FALSE
    /\ StopNext([mem EXCEPT !.pending   = <<>>,
                            !.listeners = IF @ > 0 THEN @ - 1 ELSE 0,
                            !.paused    = TRUE],
                Active(mem))
    /\ UNCHANGED <<onExit, uninstalls, job, committed, resuming, resumeLost>>

(***************************************************************************)
(* The box process ends, at any moment and however, and systemd starts     *)
(* another: its memory is gone, and so are the tasks, which are in the     *)
(* same control group.                                                     *)
(***************************************************************************)
Restart ==
    /\ mem' = InitialMemory
    /\ onExit' = [a \in Apps |-> NoCallbacks]
    /\ uninstalls' = [a \in Apps |-> 0]
    /\ awaited' = NoApp
    /\ stopping' = {}
    /\ job' = NoOperation
    /\ committed' = FALSE
    /\ timers' = 1
    /\ readyTimer' = TRUE
    /\ resuming' = 0
    /\ resumeLost' = FALSE

-----------------------------------------------------------------------------
\* An app that was queued while the platform was not ready is one the database
\* has work for, so that the query finds it (AppLifecycle checks this); one that
\* was queued since has a task or an operation to wake it.
Wakeable(S) ==
    ~mem.paused /\ Active(mem) = {} /\ job = NoOperation => Queued(mem) \subseteq S

Next ==
    \/ \E a \in Apps :
         \/ TaskReady(a)
         \/ \E t \in Ended : TaskEnds(a, t)
         \/ TaskExit(a)
         \/ RestartAppTask(a)
         \/ StopForUninstall(a)
         \/ DropUninstall(a)
         \/ StartForUninstall(a)
    \/ \E op \in ExclusiveOperations : BeginExclusive(op)
    \/ EndExclusive
    \/ CommitExclusive
    \/ ResumeTasks
    \/ \E S \in SUBSET Apps : Wakeable(S) /\ ResumeApps(S)
    \/ ResumeFails
    \/ PauseTasks
    \/ Restart

Spec == Init /\ [][Next]_tmVars

(***************************************************************************)
(* Fairness.  The event loop handles every event it is given.  A task and  *)
(* a backup end because what they wait for has a timeout or a retry limit; *)
(* only a task whose acme.js meets a Link header it cannot read waits for  *)
(* ever, and is taken not to (AppLifecycle has it, as Hang).  A process    *)
(* that committed an update, was told to stop or died on an exception is   *)
(* replaced.  Nobody has to ask for anything.                              *)
(***************************************************************************)
MustRestart == mem.aborted \/ committed \/ (mem.paused /\ timers = 0)

Fairness ==
    /\ \A a \in Apps : /\ WF_tmVars(TaskReady(a))
                       /\ WF_tmVars(\E t \in Ended : TaskEnds(a, t))
                       /\ WF_tmVars(TaskExit(a))
    /\ WF_tmVars(EndExclusive \/ CommitExclusive)
    /\ WF_tmVars(ResumeTasks)
    /\ WF_tmVars(ResumeFails \/ \E S \in SUBSET Apps : Wakeable(S) /\ ResumeApps(S))
    /\ WF_tmVars(MustRestart /\ Restart)

FairSpec == Spec /\ Fairness

-----------------------------------------------------------------------------
\* Every variable holds a value the code can give it.
TypeOK ==
    /\ mem \in Memory
    /\ onExit \in [Apps -> [restart : Nat, uninstall : Nat]]
    /\ uninstalls \in [Apps -> Nat]
    /\ awaited \in Apps \cup {NoApp}
    /\ stopping \subseteq Apps
    /\ job \in ExclusiveOperations \cup {NoOperation}
    /\ committed \in BOOLEAN
    /\ timers \in Nat
    /\ readyTimer \in BOOLEAN
    /\ resuming \in Nat
    /\ resumeLost \in BOOLEAN

(***************************************************************************)
(* The lock says who is at work, whatever order tasks were started,        *)
(* killed, restarted and reaped in: it is held for app tasks exactly while *)
(* there are some, one deep for each, and otherwise for the exclusive      *)
(* operation at work.  A task too many or an exit handled twice would      *)
(* leave the box locked for ever, or let an update in among tasks.         *)
(***************************************************************************)
LockMatchesWork ==
    ~mem.aborted =>
       /\ mem.lock.operation = IF Active(mem) # {} THEN OP_APPTASK ELSE job
       /\ mem.lock.depth = IF job # NoOperation THEN 1 ELSE Cardinality(Active(mem))
       /\ job # NoOperation => Active(mem) = {}

(***************************************************************************)
(* No assertion fails and no unlock throws in an event handler, where      *)
(* either ends the box: taskmanager.js asserts in startNextTask that there *)
(* is room for the task, locker.js throws on a mismatched unlock.          *)
(***************************************************************************)
NeverAborts == ~mem.aborted

(***************************************************************************)
(* A queued app is never forgotten: once the platform is ready there is a  *)
(* task or an operation whose unlock starts it, or the query of            *)
(* resumeTasks is still to come, or that query failed.                     *)
(***************************************************************************)
NoLostWakeup ==
    ~mem.aborted /\ ~mem.paused /\ mem.pending # <<>> =>
       Active(mem) # {} \/ job # NoOperation \/ resuming > 0 \/ resumeLost

(***************************************************************************)
(* While paused no task is started: pauseTasks clears the queue first,     *)
(* "otherwise stopAppTask will resume them", and what is asked for in the  *)
(* meantime must wait for the next process.                                *)
(***************************************************************************)
PausedStartsNothing ==
    [][mem.paused /\ mem'.paused =>
          \A a \in Apps : mem.tasks[a] \in {"none"} \cup Ended => mem'.tasks[a] \notin Live]_tmVars

\* The lock and the queue implement the mutual exclusion locker.js promises.
Mutex == INSTANCE OperationMutex
            WITH Tasks <- Apps, Exclusive <- ExclusiveOperations, Idle <- NoOperation,
                 Limit <- TASK_CONCURRENCY, running <- Active(mem), exclusive <- job

MutualExclusion == Mutex!Spec

(***************************************************************************)
(* A queued app gets its task, although each unlock starts only one and    *)
(* other operations compete for the lock: unless the query failed, it      *)
(* leaves the queue (for a task, or because it was stopped or the process  *)
(* was replaced, which queues it anew).                                    *)
(***************************************************************************)
QueuedTaskStarts ==
    \A a \in Apps : a \in Queued(mem) ~> a \notin Queued(mem) \/ a \in Active(mem) \/ resumeLost
=============================================================================
