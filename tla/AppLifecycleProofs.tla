------------------------- MODULE AppLifecycleProofs -------------------------
(***************************************************************************)
(* The safety of TaskManager and of AppLifecycle, which composes it with   *)
(* the database, for any number of apps, any concurrency limit, any        *)
(* commands and any bounds.                                                *)
(*                                                                         *)
(* The first part is about TaskManager alone.  The functions of            *)
(* taskmanager.js and locker.js are operators on the record mem: each      *)
(* keeps Consistent(m, j), which says that the record is typed and that    *)
(* the lock agrees with the tasks in it and the exclusive operation j.     *)
(* Then the actions are taken one by one.                                  *)
(*                                                                         *)
(* The second part follows the programs of apptask.js: what is left of one *)
(* says where the container of its app is, and what a command accepted in  *)
(* the meantime can make of the row.  The third is about the queue before  *)
(* the first task of a process: it shows that the query of resumeTasks     *)
(* finds every app in it, so that a step of AppLifecycle is one of         *)
(* TaskManager, whose theorems then hold of the apps as they are.          *)
(***************************************************************************)
EXTENDS AppLifecycle, TLAPS, FiniteSetTheorems, SequenceTheorems

Jobs == ExclusiveOperations \cup {NoOperation}

Consistent(m, j) ==
    /\ m \in Memory
    /\ Cardinality(Active(m)) <= TASK_CONCURRENCY
    /\ m.lock = IF Active(m) # {}
                THEN [operation |-> OP_APPTASK, depth |-> Cardinality(Active(m))]
                ELSE IF j = NoOperation THEN Unlocked ELSE [operation |-> j, depth |-> 1]
    /\ j # NoOperation => Active(m) = {}

\* Somebody is there whose unlock starts a queued app.
Awake(m, j) == ~m.paused /\ m.pending # <<>> => Active(m) # {} \/ j # NoOperation

\* What the functions that start tasks leave alone, and what they never do.
Gentle(m, n) ==
    /\ n.paused = m.paused
    /\ n.listeners = m.listeners
    /\ Active(m) \subseteq Active(n)
    /\ m.paused => n.tasks = m.tasks

-----------------------------------------------------------------------------
(* The operations have different names. *)
LEMMA Names ==
    /\ OP_APPTASK \in Operations
    /\ OP_APPTASK \notin ExclusiveOperations
    /\ NoOperation \notin Operations
    /\ ExclusiveOperations \subseteq Operations
BY DEF OP_APPTASK, OP_BOX_UPDATE, OP_FULL_BACKUP, OP_MIGRATE, Operations,
       ExclusiveOperations, NoOperation

(* The apps with a task are finitely many. *)
LEMMA ActiveFinite ==
    ASSUME NEW m
    PROVE  /\ Active(m) \subseteq Apps
           /\ IsFiniteSet(Active(m))
           /\ Cardinality(Active(m)) \in Nat
<1>1. Active(m) \subseteq Apps
  BY DEF Active
<1>2. IsFiniteSet(Active(m))
  BY <1>1, FS_Subset, TaskManagerAssumption DEF TaskManagerAssumption
<1>3. Cardinality(Active(m)) \in Nat
  BY <1>2, FS_CardinalityType
<1> QED
  BY <1>1, <1>2, <1>3

(* A queue without some apps is a queue of others of its apps. *)
LEMMA WithoutIsRest ==
    ASSUME NEW s \in Seq(Apps), NEW removed
    PROVE  /\ Without(s, removed) \in Seq(Apps)
           /\ Without(s, removed) # <<>> => \E i \in DOMAIN s : s[i] \notin removed
<1> DEFINE Rest == {s[i] : i \in DOMAIN s} \ removed
<1>1. Without(s, removed) \in Seq(Rest)
  BY DEF Without
<1>2. Rest \subseteq Apps
  OBVIOUS
<1>3. Without(s, removed) # <<>> => Rest # {}
  <2> SUFFICES ASSUME Without(s, removed) # <<>> PROVE Rest # {}
    OBVIOUS
  <2> DEFINE w == Without(s, removed)
  <2>1. w \in Seq(Rest) /\ w # <<>>
    BY <1>1
  <2> HIDE DEF w, Rest
  <2>2. 1 \in DOMAIN w /\ w[1] \in Rest
    BY <2>1
  <2> QED
    BY <2>2
<1>4. Without(s, removed) \in Seq(Apps)
  <2> DEFINE w == Without(s, removed)
  <2>1. w \in Seq(Rest)
    BY <1>1
  <2> HIDE DEF w, Rest
  <2>2. w \in Seq(Apps)
    BY <2>1, <1>2
  <2> QED
    BY <2>2 DEF w
<1> QED
  BY <1>3, <1>4

(* Forking a task where there is room and the lock lets it in. *)
LEMMA ForkConsistent ==
    ASSUME NEW m, NEW j \in Jobs, Consistent(m, j),
           NEW a \in Apps, a \notin Active(m), ~MustQueue(m)
    PROVE  /\ Consistent(Fork(m, a), j)
           /\ Gentle(m, Fork(m, a))
           /\ Fork(m, a).aborted = m.aborted
           /\ a \in Active(Fork(m, a))
<1> DEFINE n == Fork(m, a)
<1>1. m \in Memory
  BY DEF Consistent
<1>2. /\ n.tasks = [m.tasks EXCEPT ![a] = "boot"]
      /\ n.lock = RecursiveLock(m.lock, OP_APPTASK, 1)
      /\ n.pending = m.pending /\ n.paused = m.paused
      /\ n.listeners = m.listeners /\ n.aborted = m.aborted
  BY <1>1 DEF Fork, Memory
<1>3. Active(n) = Active(m) \cup {a}
  BY <1>1, <1>2 DEF Active, Memory, TaskStates, Live
<1>4. Cardinality(Active(n)) = Cardinality(Active(m)) + 1
  BY <1>3, ActiveFinite, FS_AddElement
<1>5. Cardinality(Active(m)) < TASK_CONCURRENCY /\ CanRecursiveLock(m.lock, OP_APPTASK)
  BY ActiveFinite, TaskManagerAssumption DEF MustQueue, TaskManagerAssumption
<1>6. j = NoOperation
  BY <1>5, Names DEF Consistent, CanRecursiveLock, CanLock, Jobs
<1>7. m.lock.depth = Cardinality(Active(m)) /\ m.lock.depth \in Nat
  BY <1>6, ActiveFinite, FS_EmptySet DEF Consistent, Unlocked
<1>8. n.lock = [operation |-> OP_APPTASK, depth |-> Cardinality(Active(n))]
  BY <1>2, <1>4, <1>7 DEF RecursiveLock
<1>9. n \in Memory
  <2> DEFINE l == RecursiveLock(m.lock, OP_APPTASK, 1)
             t == [m.tasks EXCEPT ![a] = "boot"]
  <2>1. l \in Locks
    BY <1>2, <1>4, <1>8, ActiveFinite, Names DEF Locks
  <2>2. t \in [Apps -> TaskStates]
    BY <1>1 DEF Memory, TaskStates, Live
  <2>3. n = [m EXCEPT !.lock = l, !.tasks = t]
    BY DEF Fork
  <2> QED
    BY <1>1, <2>1, <2>2, <2>3 DEF Memory
<1>10. Cardinality(Active(n)) <= TASK_CONCURRENCY
  BY <1>4, <1>5, ActiveFinite, TaskManagerAssumption DEF TaskManagerAssumption
<1>11. Consistent(n, j)
  BY <1>3, <1>6, <1>8, <1>9, <1>10 DEF Consistent
<1>12. Gentle(m, n)
  BY <1>2, <1>3 DEF Gentle, MustQueue
<1> QED
  BY <1>2, <1>3, <1>11, <1>12

(* Another queue changes nothing but the queue. *)
LEMMA PendingConsistent ==
    ASSUME NEW m, NEW j \in Jobs, Consistent(m, j), NEW q \in Seq(Apps)
    PROVE  LET n == [m EXCEPT !.pending = q]
           IN  /\ Consistent(n, j)
               /\ Gentle(m, n)
               /\ n.pending = q
               /\ n.aborted = m.aborted
               /\ n.lock = m.lock
               /\ n.tasks = m.tasks
               /\ Active(n) = Active(m)
<1> DEFINE n == [m EXCEPT !.pending = q]
<1>1. m \in Memory
  BY DEF Consistent
<1>2. /\ n.lock = m.lock /\ n.tasks = m.tasks /\ n.pending = q
      /\ n.paused = m.paused /\ n.listeners = m.listeners /\ n.aborted = m.aborted
      /\ n \in Memory
  BY <1>1 DEF Memory
<1>3. Active(n) = Active(m)
  BY <1>2 DEF Active
<1>4. Consistent(n, j)
  BY <1>2, <1>3 DEF Consistent
<1>5. Gentle(m, n)
  BY <1>2, <1>3 DEF Gentle
<1> QED
  BY <1>2, <1>3, <1>4, <1>5

(* Whoever must queue while the platform is ready finds somebody at work. *)
LEMMA QueuedIsAwake ==
    ASSUME NEW m, NEW j \in Jobs, Consistent(m, j), MustQueue(m), ~m.paused
    PROVE  Active(m) # {} \/ j # NoOperation
<1> SUFFICES ASSUME Active(m) = {}, j = NoOperation
             PROVE  FALSE
  OBVIOUS
<1>1. Cardinality(Active(m)) < TASK_CONCURRENCY
  BY FS_EmptySet, TaskManagerAssumption DEF TaskManagerAssumption
<1>2. CanRecursiveLock(m.lock, OP_APPTASK)
  BY DEF Consistent, Unlocked, CanRecursiveLock, CanLock
<1> QED
  BY <1>1, <1>2, ActiveFinite, TaskManagerAssumption DEF MustQueue, TaskManagerAssumption

(* startAppTask, and so restartAppTask and the callbacks of stopAppTask. *)
LEMMA StartConsistent ==
    ASSUME NEW m, NEW j \in Jobs, Consistent(m, j), NEW a \in Apps
    PROVE  /\ Consistent(StartAppTask(m, a), j)
           /\ Gentle(m, StartAppTask(m, a))
           /\ StartAppTask(m, a).aborted = m.aborted
           /\ Awake(m, j) => Awake(StartAppTask(m, a), j)
<1> DEFINE n == StartAppTask(m, a)
<1>1. CASE a \in Active(m)
  <2>1. n = m
    BY <1>1 DEF StartAppTask
  <2> QED
    BY <2>1 DEF Gentle
<1>2. CASE a \notin Active(m) /\ MustQueue(m)
  <2> DEFINE q == Append(m.pending, a)
  <2>1. q \in Seq(Apps)
    BY DEF Consistent, Memory
  <2>2. n = [m EXCEPT !.pending = q]
    BY <1>2 DEF StartAppTask
  <2> HIDE DEF n, q
  <2>3. /\ Consistent(n, j) /\ Gentle(m, n) /\ n.aborted = m.aborted
        /\ Active(n) = Active(m)
    BY <2>1, <2>2, PendingConsistent
  <2>4. Awake(n, j)
    BY <1>2, <2>3, QueuedIsAwake DEF Awake, Gentle
  <2> QED
    BY <2>3, <2>4 DEF n
<1>3. CASE a \notin Active(m) /\ ~MustQueue(m)
  <2>1. n = Fork(m, a)
    BY <1>3 DEF StartAppTask
  <2>2. Consistent(n, j) /\ Gentle(m, n) /\ n.aborted = m.aborted /\ a \in Active(n)
    BY <1>3, <2>1, ForkConsistent
  <2> QED
    BY <2>2 DEF Awake
<1> QED
  BY <1>1, <1>2, <1>3

(* The same for several calls in a row. *)
LEMMA StartTimesConsistent ==
    ASSUME NEW m, NEW j \in Jobs, Consistent(m, j), NEW a \in Apps, NEW n \in Nat
    PROVE  LET r == StartAppTaskTimes(m, a, n)
           IN  /\ Consistent(r, j)
               /\ Gentle(m, r)
               /\ r.aborted = m.aborted
               /\ Awake(m, j) => Awake(r, j)
<1> DEFINE r == StartAppTaskTimes(m, a, n)
<1>1. CASE n > 0 /\ a \notin Active(m) /\ MustQueue(m)
  <2> DEFINE q == m.pending \o [i \in 1 .. n |-> a]
  <2>1. q \in Seq(Apps)
    <3>1. [i \in 1 .. n |-> a] \in Seq(Apps)
      OBVIOUS
    <3> QED
      BY <3>1 DEF Consistent, Memory
  <2>2. r = [m EXCEPT !.pending = q]
    BY <1>1 DEF StartAppTaskTimes
  <2> HIDE DEF r, q
  <2>3. /\ Consistent(r, j) /\ Gentle(m, r) /\ r.aborted = m.aborted
        /\ Active(r) = Active(m)
    BY <2>1, <2>2, PendingConsistent
  <2>4. Awake(r, j)
    BY <1>1, <2>3, QueuedIsAwake DEF Awake, Gentle
  <2> QED
    BY <2>3, <2>4 DEF r
<1>2. CASE ~(n > 0 /\ a \notin Active(m) /\ MustQueue(m)) /\ n > 0
  <2>1. r = StartAppTask(m, a)
    BY <1>2 DEF StartAppTaskTimes
  <2> QED
    BY <2>1, StartConsistent
<1>3. CASE ~(n > 0)
  <2>1. r = m
    BY <1>3 DEF StartAppTaskTimes
  <2> QED
    BY <2>1 DEF Gentle
<1> QED
  BY <1>1, <1>2, <1>3

(* Gentle steps compose. *)
LEMMA GentleTwice ==
    ASSUME NEW l, NEW m, NEW n, Gentle(l, m), Gentle(m, n)
    PROVE  Gentle(l, n)
BY DEF Gentle

(* The end of a task: its entry and its share of the lock go together. *)
LEMMA ReleaseConsistent ==
    ASSUME NEW m, NEW j \in Jobs, Consistent(m, j), NEW a \in Active(m)
    PROVE  LET e == [m EXCEPT !.tasks[a] = "none"]
               u == [e EXCEPT !.lock = Unlock(@, OP_APPTASK)]
           IN  /\ ~UnlockThrows(e.lock, OP_APPTASK)
               /\ Consistent(u, j)
               /\ Cardinality(Active(u)) < TASK_CONCURRENCY
               /\ u.tasks = [m.tasks EXCEPT ![a] = "none"]
               /\ u.paused = m.paused
               /\ u.listeners = m.listeners
               /\ u.aborted = m.aborted
               /\ e.listeners = m.listeners
               /\ e.aborted = m.aborted
<1> DEFINE e == [m EXCEPT !.tasks[a] = "none"]
           u == [e EXCEPT !.lock = Unlock(@, OP_APPTASK)]
<1>1. m \in Memory /\ a \in Apps
  BY DEF Consistent, Active
<1>2. /\ e.tasks = [m.tasks EXCEPT ![a] = "none"]
      /\ e.lock = m.lock /\ e.pending = m.pending /\ e.paused = m.paused
      /\ e.listeners = m.listeners /\ e.aborted = m.aborted
      /\ e \in Memory
  BY <1>1 DEF Memory, TaskStates
<1> HIDE DEF e
<1>3. /\ u.tasks = e.tasks
      /\ u.lock = Unlock(m.lock, OP_APPTASK)
      /\ u.pending = e.pending /\ u.paused = e.paused
      /\ u.listeners = e.listeners /\ u.aborted = e.aborted
  BY <1>2 DEF Memory
<1>4. Active(u) = Active(m) \ {a}
  BY <1>1, <1>2, <1>3 DEF Active, Memory
<1>5. Cardinality(Active(u)) = Cardinality(Active(m)) - 1
  BY <1>4, ActiveFinite, FS_RemoveElement
<1>6. m.lock = [operation |-> OP_APPTASK, depth |-> Cardinality(Active(m))] /\ j = NoOperation
  BY DEF Consistent
<1>7. u.lock = IF Active(u) # {}
               THEN [operation |-> OP_APPTASK, depth |-> Cardinality(Active(u))]
               ELSE Unlocked
  <2>1. CASE Active(u) = {}
    <3>1. Cardinality(Active(m)) = 1
      BY <1>5, <2>1, ActiveFinite, FS_EmptySet
    <3> QED
      BY <1>3, <1>6, <2>1, <3>1 DEF Unlock
  <2>2. CASE Active(u) # {}
    <3>1. Cardinality(Active(m)) # 1
      BY <1>5, <2>2, ActiveFinite, FS_EmptySet
    <3>2. u.lock = [m.lock EXCEPT !.depth = @ - 1]
      BY <1>3, <1>6, <3>1 DEF Unlock
    <3> QED
      BY <1>5, <1>6, <2>2, <3>2
  <2> QED
    BY <2>1, <2>2
<1>8. u.lock \in Locks
  BY <1>7, ActiveFinite, Names DEF Locks, Unlocked
<1>9. u \in Memory
  BY <1>2, <1>3, <1>8 DEF Memory
<1>10. Cardinality(Active(u)) < TASK_CONCURRENCY
  BY <1>5, ActiveFinite, TaskManagerAssumption DEF Consistent, TaskManagerAssumption
<1>11. Consistent(u, j)
  BY <1>6, <1>7, <1>9, <1>10, ActiveFinite, TaskManagerAssumption
  DEF Consistent, TaskManagerAssumption
<1>12. ~UnlockThrows(e.lock, OP_APPTASK)
  BY <1>2, <1>6 DEF UnlockThrows
<1> QED
  BY <1>2, <1>3, <1>10, <1>11, <1>12 DEF e

(* The end of an exclusive operation. *)
LEMMA ReleaseJobConsistent ==
    ASSUME NEW m, NEW j \in Jobs, Consistent(m, j), j # NoOperation
    PROVE  LET u == [m EXCEPT !.lock = Unlock(@, j)]
           IN  /\ ~UnlockThrows(m.lock, j)
               /\ Consistent(u, NoOperation)
               /\ Cardinality(Active(u)) < TASK_CONCURRENCY
               /\ u.tasks = m.tasks
               /\ u.paused = m.paused
               /\ u.listeners = m.listeners
               /\ u.aborted = m.aborted
<1> DEFINE u == [m EXCEPT !.lock = Unlock(@, j)]
<1>1. m \in Memory /\ Active(m) = {} /\ m.lock = [operation |-> j, depth |-> 1]
  BY DEF Consistent
<1>2. /\ u.tasks = m.tasks /\ u.lock = Unlock(m.lock, j) /\ u.pending = m.pending
      /\ u.paused = m.paused /\ u.listeners = m.listeners /\ u.aborted = m.aborted
  BY <1>1 DEF Memory
<1>3. u.lock = Unlocked
  BY <1>1, <1>2 DEF Unlock
<1>4. u \in Memory
  <2>1. Unlocked \in Locks
    BY DEF Locks, Unlocked
  <2>2. u = [m EXCEPT !.lock = Unlocked]
    BY <1>1 DEF Unlock
  <2> QED
    BY <1>1, <2>1, <2>2 DEF Memory
<1>5. Active(u) = {}
  BY <1>1, <1>2 DEF Active
<1>6. Cardinality(Active(u)) < TASK_CONCURRENCY
  BY <1>5, FS_EmptySet, TaskManagerAssumption DEF TaskManagerAssumption
<1>7. Consistent(u, NoOperation)
  BY <1>3, <1>4, <1>5, <1>6, FS_EmptySet, TaskManagerAssumption
  DEF Consistent, TaskManagerAssumption
<1>8. ~UnlockThrows(m.lock, j)
  BY <1>1 DEF UnlockThrows
<1> QED
  BY <1>2, <1>6, <1>7, <1>8

(* startNextTask leaves nobody in the queue without somebody at work. *)
LEMMA StartNextConsistent ==
    ASSUME NEW m, NEW j \in Jobs, Consistent(m, j)
    PROVE  /\ Consistent(StartNextTask(m), j)
           /\ Gentle(m, StartNextTask(m))
           /\ Awake(StartNextTask(m), j)
           /\ Cardinality(Active(m)) < TASK_CONCURRENCY => StartNextTask(m).aborted = m.aborted
<1> DEFINE n == StartNextTask(m)
<1>0. m \in Memory
  BY DEF Consistent
<1>1. CASE m.pending = <<>>
  BY <1>1 DEF StartNextTask, Awake, Gentle
<1>2. CASE m.pending # <<>> /\ NextTaskAsserts(m)
  <2>1. n = [m EXCEPT !.aborted = TRUE]
    BY <1>2 DEF StartNextTask
  <2> HIDE DEF n
  <2>2. /\ n.lock = m.lock /\ n.tasks = m.tasks /\ n.pending = m.pending
        /\ n.paused = m.paused /\ n.listeners = m.listeners
        /\ n \in Memory
    BY <1>0, <2>1 DEF Memory
  <2>3. Active(n) = Active(m)
    BY <2>2 DEF Active
  <2>4. Cardinality(Active(m)) >= TASK_CONCURRENCY /\ Active(m) # {}
    <3>1. Cardinality(Active(m)) >= TASK_CONCURRENCY
      BY <1>2 DEF NextTaskAsserts
    <3>2. TASK_CONCURRENCY \in Nat /\ TASK_CONCURRENCY > 0
      BY TaskManagerAssumption DEF TaskManagerAssumption
    <3>3. Cardinality({}) = 0
      BY FS_EmptySet
    <3> QED
      BY <3>1, <3>2, <3>3
  <2>5. Consistent(n, j) /\ Gentle(m, n) /\ Awake(n, j)
    BY <2>2, <2>3, <2>4 DEF Consistent, Gentle, Awake
  <2> QED
    BY <2>4, <2>5, ActiveFinite, TaskManagerAssumption DEF n, TaskManagerAssumption
<1>3. CASE m.pending # <<>> /\ ~NextTaskAsserts(m)
  <2> DEFINE q == Tail(m.pending)
             a == Head(m.pending)
             t == [m EXCEPT !.pending = q]
  <2>1. q \in Seq(Apps) /\ a \in Apps
    BY <1>0, <1>3 DEF Memory
  <2>2. n = StartAppTask(t, a)
    BY <1>3 DEF StartNextTask
  <2>3. Consistent(t, j) /\ Gentle(m, t) /\ t.aborted = m.aborted
    BY <2>1, PendingConsistent
  <2> HIDE DEF n, q, a, t
  <2>4. Consistent(n, j) /\ Gentle(t, n) /\ n.aborted = t.aborted
    BY <2>1, <2>2, <2>3, StartConsistent
  <2>5. Awake(n, j)
    <3>1. CASE a \in Active(t)
      BY <2>4, <3>1 DEF Gentle, Awake
    <3>2. CASE a \notin Active(t) /\ MustQueue(t)
      BY <2>3, <2>4, <3>2, QueuedIsAwake DEF Gentle, Awake
    <3>3. CASE a \notin Active(t) /\ ~MustQueue(t)
      <4>1. n = Fork(t, a)
        BY <2>2, <3>3 DEF StartAppTask
      <4> QED
        BY <2>1, <2>3, <3>3, <4>1, ForkConsistent DEF Awake
    <3> QED
      BY <3>1, <3>2, <3>3
  <2>6. Gentle(m, n)
    BY <2>3, <2>4, GentleTwice
  <2> QED
    BY <2>3, <2>4, <2>5, <2>6 DEF n
<1> QED
  BY <1>1, <1>2, <1>3

(* unlock and its listeners, once the lock agrees with who is at work. *)
LEMMA NotifyConsistent ==
    ASSUME NEW m, NEW j \in Jobs, NEW op,
           ~UnlockThrows(m.lock, op),
           m.listeners \in Nat,
           Consistent([m EXCEPT !.lock = Unlock(@, op)], j),
           [m EXCEPT !.lock = Unlock(@, op)].listeners = m.listeners,
           [m EXCEPT !.lock = Unlock(@, op)].aborted = m.aborted
    PROVE  LET u == [m EXCEPT !.lock = Unlock(@, op)]
               r == UnlockAndNotify(m, op)
           IN  /\ Consistent(r, j)
               /\ Gentle(u, r)
               /\ m.listeners > 0 => Awake(r, j)
               /\ m.listeners <= 1 /\ Cardinality(Active(u)) < TASK_CONCURRENCY =>
                     r.aborted = m.aborted
<1> DEFINE u == [m EXCEPT !.lock = Unlock(@, op)]
           f == IF m.listeners > 0 THEN StartNextTask(u) ELSE u
           r == UnlockAndNotify(m, op)
<1>1. r = IF m.listeners > 1 /\ ~f.aborted THEN StartNextTask(f) ELSE f
  BY DEF UnlockAndNotify
<1>2. Consistent(u, j) /\ u.listeners = m.listeners /\ u.aborted = m.aborted
  OBVIOUS
<1> HIDE DEF u
<1>3. /\ Consistent(f, j)
      /\ Gentle(u, f)
      /\ m.listeners > 0 => Awake(f, j)
      /\ Cardinality(Active(u)) < TASK_CONCURRENCY => f.aborted = u.aborted
  <2>1. CASE m.listeners > 0
    BY <1>2, <2>1, StartNextConsistent
  <2>2. CASE ~(m.listeners > 0)
    BY <1>2, <2>2 DEF Gentle
  <2> QED
    BY <2>1, <2>2
<1> HIDE DEF f, r
<1>4. CASE m.listeners > 1 /\ ~f.aborted
  <2>1. r = StartNextTask(f)
    BY <1>1, <1>4
  <2>2. Consistent(r, j) /\ Gentle(f, r) /\ Awake(r, j)
    BY <1>3, <2>1, StartNextConsistent
  <2> QED
    BY <1>3, <1>4, <2>2, GentleTwice DEF r, u
<1>5. CASE ~(m.listeners > 1 /\ ~f.aborted)
  BY <1>1, <1>2, <1>3, <1>5 DEF r, u
<1> QED
  BY <1>4, <1>5

(* What SIGTERM leaves of a task is no live process, but still an entry. *)
LEMMA SigtermEnds ==
    ASSUME NEW t \in TaskStates
    PROVE  /\ Sigterm(t) \in TaskStates
           /\ Sigterm(t) \notin Live
           /\ Sigterm(t) = "none" <=> t = "none"
BY DEF Sigterm, TaskStates, Live, Ended

(* Other states for the same tasks, and another queue. *)
LEMMA TasksConsistent ==
    ASSUME NEW m, NEW j \in Jobs, Consistent(m, j), NEW t \in [Apps -> TaskStates],
           \A a \in Apps : t[a] = "none" <=> m.tasks[a] = "none"
    PROVE  LET n == [m EXCEPT !.tasks = t]
           IN  /\ Consistent(n, j)
               /\ n.tasks = t
               /\ n.pending = m.pending
               /\ n.paused = m.paused
               /\ n.listeners = m.listeners
               /\ n.aborted = m.aborted
               /\ Active(n) = Active(m)
<1> DEFINE n == [m EXCEPT !.tasks = t]
<1>1. m \in Memory
  BY DEF Consistent
<1>2. /\ n.lock = m.lock /\ n.tasks = t /\ n.pending = m.pending
      /\ n.paused = m.paused /\ n.listeners = m.listeners /\ n.aborted = m.aborted
      /\ n \in Memory
  BY <1>1 DEF Memory
<1>3. Active(n) = Active(m)
  BY <1>2 DEF Active
<1>4. Consistent(n, j)
  BY <1>2, <1>3 DEF Consistent
<1> QED
  BY <1>2, <1>3, <1>4

(* The same where one task is sent SIGTERM. *)
LEMMA KillConsistent ==
    ASSUME NEW m, NEW j \in Jobs, Consistent(m, j), NEW b \in Apps
    PROVE  LET n == [m EXCEPT !.tasks[b] = Sigterm(@)]
           IN  /\ Consistent(n, j)
               /\ n.tasks = [m.tasks EXCEPT ![b] = Sigterm(@)]
               /\ n.pending = m.pending
               /\ n.paused = m.paused
               /\ n.listeners = m.listeners
               /\ n.aborted = m.aborted
               /\ Active(n) = Active(m)
<1> DEFINE t == [m.tasks EXCEPT ![b] = Sigterm(@)]
           n == [m EXCEPT !.tasks[b] = Sigterm(@)]
<1>1. m.tasks \in [Apps -> TaskStates]
  BY DEF Consistent, Memory
<1>2. /\ t \in [Apps -> TaskStates]
      /\ \A a \in Apps : t[a] = "none" <=> m.tasks[a] = "none"
  BY <1>1, SigtermEnds
<1>3. n = [m EXCEPT !.tasks = t]
  OBVIOUS
<1> HIDE DEF n
<1> QED
  BY <1>2, <1>3, TasksConsistent DEF n

-----------------------------------------------------------------------------
(***************************************************************************)
(* The inductive invariant.  LockMatchesWork needs the limit, so that the  *)
(* depth of the lock and the number of tasks stay what they are; the type  *)
(* of mem needs a bound on the times platform.start can still call         *)
(* resumeTasks; and both NeverAborts and NoLostWakeup need to know how     *)
(* many listeners 'unlocked' has: no more than one, if there is one setup, *)
(* and at least one once the platform is ready.                            *)
(***************************************************************************)
ResumesBounded == mem.listeners + timers <= Setups

IInv ==
    /\ TypeOK
    /\ Consistent(mem, job)
    /\ ResumesBounded
    /\ readyTimer => timers > 0
    /\ ~mem.paused => mem.listeners > 0
    /\ ~mem.aborted => Awake(mem, job) \/ resuming > 0 \/ resumeLost
    /\ Setups = 1 => ~mem.aborted

\* The step PausedStartsNothing allows.
StartsNothing ==
    mem.paused /\ mem'.paused =>
       \A a \in Apps : mem.tasks[a] \in {"none"} \cup Ended => mem'.tasks[a] \notin Live

\* Once somebody is there to start the queued apps, there always is, until the
\* timer makes the platform ready.
StaysAwake == Awake(mem, job) /\ timers = 0 => Awake(mem', job')

(* Init => IInv. *)
LEMMA InitInv == Init => IInv
<1> SUFFICES ASSUME Init PROVE IInv
  OBVIOUS
<1>1. mem = InitialMemory
  BY DEF Init
<1>2. /\ mem.tasks = [a \in Apps |-> "none"] /\ mem.lock = Unlocked
      /\ mem.pending = <<>> /\ mem.paused = TRUE
      /\ mem.listeners = 0 /\ mem.aborted = FALSE
  BY <1>1 DEF InitialMemory
<1>3. mem \in Memory
  <2>1. Unlocked \in Locks
    BY DEF Unlocked, Locks
  <2>2. [a \in Apps |-> "none"] \in [Apps -> TaskStates]
    BY DEF TaskStates
  <2>3. 0 \in 0 .. Setups
    BY TaskManagerAssumption DEF TaskManagerAssumption
  <2> QED
    BY <1>1, <2>1, <2>2, <2>3 DEF Memory, InitialMemory
<1>4. Active(mem) = {}
  BY <1>2 DEF Active
<1>5. Consistent(mem, job)
  BY <1>2, <1>3, <1>4, FS_EmptySet, TaskManagerAssumption
  DEF Consistent, Init, TaskManagerAssumption
<1>6. TypeOK
  <2>1. NoCallbacks \in [restart : Nat, uninstall : Nat]
    BY DEF NoCallbacks
  <2>2. timers \in Nat
    BY TaskManagerAssumption DEF Init, TaskManagerAssumption
  <2> QED
    BY <1>3, <2>1, <2>2 DEF TypeOK, Init
<1>7. ResumesBounded
  BY <1>2, TaskManagerAssumption DEF ResumesBounded, Init, TaskManagerAssumption
<1> QED
  BY <1>2, <1>5, <1>6, <1>7 DEF IInv, Init, Awake

-----------------------------------------------------------------------------
(* The steps of the apptask process. *)
LEMMA TaskReadyKeeps ==
    ASSUME IInv, NEW a \in Apps, TaskReady(a)
    PROVE  IInv' /\ StartsNothing /\ StaysAwake
<1> DEFINE t == [mem.tasks EXCEPT ![a] = "ready"]
<1>1. mem.tasks \in [Apps -> TaskStates] /\ mem.tasks[a] = "boot" /\ job \in Jobs
  BY DEF IInv, Consistent, Memory, TaskReady, TypeOK, Jobs
<1>2. /\ t \in [Apps -> TaskStates]
      /\ \A b \in Apps : t[b] = "none" <=> mem.tasks[b] = "none"
  BY <1>1 DEF TaskStates, Live
<1>3. mem' = [mem EXCEPT !.tasks = t]
  BY DEF TaskReady
<1> HIDE DEF t
<1>4. /\ Consistent(mem', job) /\ mem'.tasks = t /\ mem'.pending = mem.pending
      /\ mem'.paused = mem.paused /\ mem'.listeners = mem.listeners
      /\ mem'.aborted = mem.aborted /\ Active(mem') = Active(mem)
  BY <1>1, <1>2, <1>3, TasksConsistent DEF IInv
<1>5. IInv'
  BY <1>4 DEF IInv, TypeOK, Consistent, ResumesBounded, Awake, TaskReady
<1>6. StartsNothing
  BY <1>1, <1>4 DEF StartsNothing, t, Ended, Live
<1>7. StaysAwake
  BY <1>4 DEF StaysAwake, Awake, TaskReady
<1> QED
  BY <1>5, <1>6, <1>7

LEMMA TaskEndsKeeps ==
    ASSUME IInv, NEW a \in Apps, NEW e \in Ended, TaskEnds(a, e)
    PROVE  IInv' /\ StartsNothing /\ StaysAwake
<1> DEFINE t == [mem.tasks EXCEPT ![a] = e]
<1>1. mem.tasks \in [Apps -> TaskStates] /\ mem.tasks[a] \in Live /\ job \in Jobs
  BY DEF IInv, Consistent, Memory, TaskEnds, TypeOK, Jobs, Live
<1>2. /\ t \in [Apps -> TaskStates]
      /\ \A b \in Apps : t[b] = "none" <=> mem.tasks[b] = "none"
  BY <1>1 DEF TaskStates, Live, Ended
<1>3. mem' = [mem EXCEPT !.tasks = t]
  BY DEF TaskEnds
<1> HIDE DEF t
<1>4. /\ Consistent(mem', job) /\ mem'.tasks = t /\ mem'.pending = mem.pending
      /\ mem'.paused = mem.paused /\ mem'.listeners = mem.listeners
      /\ mem'.aborted = mem.aborted /\ Active(mem') = Active(mem)
  BY <1>1, <1>2, <1>3, TasksConsistent DEF IInv
<1>5. IInv'
  BY <1>4 DEF IInv, TypeOK, Consistent, ResumesBounded, Awake, TaskEnds
<1>6. StartsNothing
  BY <1>1, <1>4 DEF StartsNothing, t, Ended, Live
<1>7. StaysAwake
  BY <1>4 DEF StaysAwake, Awake, TaskEnds
<1> QED
  BY <1>5, <1>6, <1>7

(* restartAppTask. *)
LEMMA RestartAppTaskKeeps ==
    ASSUME IInv, NEW a \in Apps, RestartAppTask(a)
    PROVE  IInv' /\ StartsNothing /\ StaysAwake
<1>1. /\ Consistent(mem, job) /\ job \in Jobs /\ mem \in Memory /\ ~mem.aborted
      /\ mem.tasks \in [Apps -> TaskStates]
  BY DEF IInv, Consistent, Memory, RestartAppTask, Running, TypeOK, Jobs
<1>2. /\ onExit' \in [Apps -> [restart : Nat, uninstall : Nat]]
      /\ UNCHANGED <<uninstalls, awaited, stopping, job, committed, timers, readyTimer,
                     resuming, resumeLost>>
  <2>1. onExit \in [Apps -> [restart : Nat, uninstall : Nat]]
    BY DEF IInv, TypeOK
  <2>2. [onExit EXCEPT ![a].restart = @ + 1] \in [Apps -> [restart : Nat, uninstall : Nat]]
    BY <2>1
  <2> QED
    BY <2>1, <2>2 DEF RestartAppTask
<1>3. CASE a \in Active(mem)
  <2>1. mem' = [mem EXCEPT !.tasks[a] = Sigterm(@)]
    BY <1>3 DEF RestartAppTask
  <2>2. /\ Consistent(mem', job) /\ mem'.tasks = [mem.tasks EXCEPT ![a] = Sigterm(@)]
        /\ mem'.pending = mem.pending
        /\ mem'.paused = mem.paused /\ mem'.listeners = mem.listeners
        /\ mem'.aborted = mem.aborted /\ Active(mem') = Active(mem)
    BY <1>1, <2>1, KillConsistent
  <2>3. IInv'
    BY <1>2, <2>2 DEF IInv, TypeOK, Consistent, ResumesBounded, Awake
  <2>4. StartsNothing
    BY <1>1, <2>2, SigtermEnds DEF StartsNothing, Ended, Live
  <2>5. StaysAwake
    BY <1>2, <2>2 DEF StaysAwake, Awake
  <2> QED
    BY <2>3, <2>4, <2>5
<1>4. CASE a \notin Active(mem)
  <2> DEFINE q == Without(mem.pending, {a})
             m == [mem EXCEPT !.pending = q]
  <2>1. mem.pending \in Seq(Apps)
    BY <1>1 DEF Memory
  <2>2. q \in Seq(Apps) /\ (q # <<>> => mem.pending # <<>>)
    BY <2>1, WithoutIsRest
  <2>3. /\ Consistent(m, job) /\ Gentle(mem, m) /\ m.pending = q
        /\ m.aborted = mem.aborted /\ m.tasks = mem.tasks /\ Active(m) = Active(mem)
    BY <1>1, <2>2, PendingConsistent
  <2>4. mem' = StartAppTask(m, a)
    BY <1>4 DEF RestartAppTask
  <2> HIDE DEF m, q
  <2>5. /\ Consistent(mem', job) /\ Gentle(m, mem') /\ mem'.aborted = m.aborted
        /\ Awake(m, job) => Awake(mem', job)
    BY <1>1, <2>3, <2>4, StartConsistent
  <2>6. Gentle(mem, mem')
    BY <2>3, <2>5, GentleTwice
  <2>7. Awake(mem, job) => Awake(mem', job)
    BY <2>2, <2>3, <2>5 DEF Awake, Gentle
  <2>8. IInv'
    BY <1>1, <1>2, <2>3, <2>5, <2>6, <2>7
    DEF IInv, TypeOK, Consistent, ResumesBounded, Gentle
  <2>9. StartsNothing
    BY <2>6 DEF StartsNothing, Gentle, Ended, Live
  <2>10. StaysAwake
    BY <1>2, <2>7 DEF StaysAwake
  <2> QED
    BY <2>8, <2>9, <2>10
<1> QED
  BY <1>3, <1>4

(* apps.uninstall: stopAppTask, then startAppTask. *)
LEMMA StopForUninstallKeeps ==
    ASSUME IInv, NEW a \in Apps, StopForUninstall(a)
    PROVE  IInv' /\ StartsNothing /\ StaysAwake
<1>1. /\ Consistent(mem, job) /\ job \in Jobs /\ mem \in Memory
      /\ mem.tasks \in [Apps -> TaskStates]
  BY DEF IInv, Consistent, Memory, TypeOK, Jobs
<1>2. /\ onExit' \in [Apps -> [restart : Nat, uninstall : Nat]]
      /\ uninstalls' \in [Apps -> Nat]
      /\ UNCHANGED <<awaited, stopping, job, committed, timers, readyTimer,
                     resuming, resumeLost>>
  BY DEF IInv, TypeOK, StopForUninstall
<1>3. CASE a \in Active(mem)
  <2>1. mem' = [mem EXCEPT !.tasks[a] = Sigterm(@)]
    BY <1>3 DEF StopForUninstall
  <2>2. /\ Consistent(mem', job) /\ mem'.tasks = [mem.tasks EXCEPT ![a] = Sigterm(@)]
        /\ mem'.pending = mem.pending
        /\ mem'.paused = mem.paused /\ mem'.listeners = mem.listeners
        /\ mem'.aborted = mem.aborted /\ Active(mem') = Active(mem)
    BY <1>1, <2>1, KillConsistent
  <2>3. IInv'
    BY <1>2, <2>2 DEF IInv, TypeOK, Consistent, ResumesBounded, Awake
  <2>4. StartsNothing
    BY <1>1, <2>2, SigtermEnds DEF StartsNothing, Ended, Live
  <2>5. StaysAwake
    BY <1>2, <2>2 DEF StaysAwake, Awake
  <2> QED
    BY <2>3, <2>4, <2>5
<1>4. CASE a \notin Active(mem)
  <2> DEFINE q == Without(mem.pending, {a})
  <2>1. mem.pending \in Seq(Apps)
    BY <1>1 DEF Memory
  <2>2. q \in Seq(Apps) /\ (q # <<>> => mem.pending # <<>>)
    BY <2>1, WithoutIsRest
  <2>3. mem' = [mem EXCEPT !.pending = q]
    BY <1>4 DEF StopForUninstall
  <2> HIDE DEF q
  <2>4. /\ Consistent(mem', job) /\ Gentle(mem, mem') /\ mem'.pending = q
        /\ mem'.aborted = mem.aborted /\ mem'.tasks = mem.tasks
        /\ Active(mem') = Active(mem)
    BY <1>1, <2>2, <2>3, PendingConsistent
  <2>5. IInv'
    BY <1>2, <2>2, <2>4 DEF IInv, TypeOK, Consistent, ResumesBounded, Gentle, Awake
  <2>6. StartsNothing
    BY <2>4 DEF StartsNothing, Ended, Live
  <2>7. StaysAwake
    BY <1>2, <2>2, <2>4 DEF StaysAwake, Awake, Gentle
  <2> QED
    BY <2>5, <2>6, <2>7
<1> QED
  BY <1>3, <1>4

LEMMA StartForUninstallKeeps ==
    ASSUME IInv, NEW a \in Apps, StartForUninstall(a)
    PROVE  IInv' /\ StartsNothing /\ StaysAwake
<1>1. /\ Consistent(mem, job) /\ job \in Jobs /\ mem' = StartAppTask(mem, a)
      /\ uninstalls' \in [Apps -> Nat]
      /\ UNCHANGED <<onExit, awaited, stopping, job, committed, timers, readyTimer,
                     resuming, resumeLost>>
  BY DEF IInv, TypeOK, Jobs, StartForUninstall
<1>2. /\ Consistent(mem', job) /\ Gentle(mem, mem') /\ mem'.aborted = mem.aborted
      /\ Awake(mem, job) => Awake(mem', job)
  BY <1>1, StartConsistent
<1>3. IInv'
  BY <1>1, <1>2 DEF IInv, TypeOK, Consistent, ResumesBounded, Gentle
<1>4. StartsNothing
  BY <1>2 DEF StartsNothing, Gentle, Ended, Live
<1>5. StaysAwake
  BY <1>1, <1>2 DEF StaysAwake
<1> QED
  BY <1>3, <1>4, <1>5

(* The steps that leave mem alone. *)
LEMMA DropUninstallKeeps ==
    ASSUME IInv, NEW a \in Apps, DropUninstall(a)
    PROVE  IInv' /\ StartsNothing /\ StaysAwake
<1>1. UNCHANGED <<mem, onExit, awaited, stopping, job, committed, timers, readyTimer,
                  resuming, resumeLost>>
  BY DEF DropUninstall
<1>2. uninstalls' \in [Apps -> Nat]
  BY DEF IInv, TypeOK, DropUninstall
<1>3. IInv'
  BY <1>1, <1>2 DEF IInv, TypeOK, ResumesBounded
<1> QED
  BY <1>1, <1>3 DEF StartsNothing, StaysAwake, Ended, Live

LEMMA CommitExclusiveKeeps ==
    ASSUME IInv, CommitExclusive
    PROVE  IInv' /\ StartsNothing /\ StaysAwake
<1>1. /\ committed' = TRUE
      /\ UNCHANGED <<mem, onExit, uninstalls, awaited, stopping, job, timers, readyTimer,
                     resuming, resumeLost>>
  BY DEF CommitExclusive
<1>2. IInv'
  BY <1>1 DEF IInv, TypeOK, ResumesBounded
<1> QED
  BY <1>1, <1>2 DEF StartsNothing, StaysAwake, Ended, Live

LEMMA ResumeFailsKeeps ==
    ASSUME IInv, ResumeFails
    PROVE  IInv' /\ StartsNothing /\ StaysAwake
<1>1. /\ resuming > 0 /\ resuming' = resuming - 1 /\ resumeLost' = TRUE
      /\ UNCHANGED <<mem, onExit, uninstalls, awaited, stopping, job, committed, timers,
                     readyTimer>>
  BY DEF ResumeFails
<1>2. IInv'
  BY <1>1 DEF IInv, TypeOK, ResumesBounded
<1> QED
  BY <1>1, <1>2 DEF StartsNothing, StaysAwake, Ended, Live

(* The timer of emitPlatformReady. *)
LEMMA ResumeTasksKeeps ==
    ASSUME IInv, ResumeTasks
    PROVE  IInv' /\ StartsNothing /\ StaysAwake
<1>1. /\ timers > 0 /\ timers' = timers - 1 /\ readyTimer' \in {known \in BOOLEAN : known => timers' > 0}
      /\ mem' = [mem EXCEPT !.listeners = @ + 1, !.paused = FALSE]
      /\ resuming' = resuming + 1
      /\ UNCHANGED <<onExit, uninstalls, awaited, stopping, job, committed,
                     resumeLost>>
  BY DEF ResumeTasks
<1>2. /\ mem \in Memory /\ mem.listeners \in Nat /\ timers \in Nat
      /\ resuming \in Nat
  BY DEF IInv, TypeOK, Memory
<1>3. mem.listeners + 1 \in 0 .. Setups
  BY <1>1, <1>2, TaskManagerAssumption DEF IInv, ResumesBounded, TaskManagerAssumption
<1>4. /\ mem'.listeners = mem.listeners + 1 /\ mem'.paused = FALSE
      /\ mem'.lock = mem.lock /\ mem'.tasks = mem.tasks /\ mem'.pending = mem.pending
      /\ mem'.aborted = mem.aborted
  BY <1>1, <1>2 DEF Memory
<1>5. mem' \in Memory
  BY <1>1, <1>2, <1>3 DEF Memory
<1>6. Active(mem') = Active(mem)
  BY <1>4 DEF Active
<1>7. Consistent(mem', job)
  BY <1>4, <1>5, <1>6 DEF IInv, Consistent
<1>8. ResumesBounded'
  BY <1>1, <1>2, <1>4, TaskManagerAssumption
  DEF IInv, ResumesBounded, TaskManagerAssumption
<1>9. TypeOK'
  <2>1. timers' \in Nat
    BY <1>2 DEF ResumeTasks
  <2>2. resuming' \in Nat
    BY <1>2 DEF ResumeTasks
  <2>3. readyTimer' \in BOOLEAN
    BY DEF ResumeTasks
  <2> QED
    BY <1>5, <2>1, <2>2, <2>3 DEF IInv, TypeOK, ResumeTasks
<1>10. IInv'
  BY <1>1, <1>2, <1>4, <1>7, <1>8, <1>9 DEF IInv
<1>11. StaysAwake
  BY <1>1, <1>4, <1>6 DEF StaysAwake, Awake
<1> QED
  BY <1>4, <1>10, <1>11 DEF StartsNothing

(* locker.lock for an exclusive operation, and its unlock. *)
LEMMA BeginExclusiveKeeps ==
    ASSUME IInv, NEW op \in ExclusiveOperations, BeginExclusive(op)
    PROVE  /\ IInv' /\ StartsNothing /\ StaysAwake
           /\ job = NoOperation /\ Active(mem) = {} /\ Active(mem') = {}
<1>1. /\ CanLock(mem.lock) /\ mem' = [mem EXCEPT !.lock = Lock(@, op)] /\ job' = op
      /\ UNCHANGED <<onExit, uninstalls, awaited, stopping, committed, timers, readyTimer,
                     resuming, resumeLost>>
  BY DEF BeginExclusive
<1>2. Consistent(mem, job) /\ job \in Jobs /\ mem \in Memory
  BY DEF IInv, Consistent, TypeOK, Jobs
<1>3. Active(mem) = {} /\ job = NoOperation /\ mem.lock = Unlocked
  BY <1>1, <1>2, Names DEF Consistent, CanLock, Jobs
<1>4. Lock(mem.lock, op) = [operation |-> op, depth |-> 1]
  BY <1>3 DEF Lock, Unlocked
<1>5. /\ mem'.lock = [operation |-> op, depth |-> 1] /\ mem'.tasks = mem.tasks
      /\ mem'.pending = mem.pending /\ mem'.paused = mem.paused
      /\ mem'.listeners = mem.listeners /\ mem'.aborted = mem.aborted
  BY <1>1, <1>2, <1>4 DEF Memory
<1>6. mem' \in Memory
  <2>1. Lock(mem.lock, op) \in Locks
    BY <1>4, Names DEF Locks
  <2> QED
    BY <1>1, <1>2, <2>1 DEF Memory
<1>7. Active(mem') = {}
  BY <1>3, <1>5 DEF Active
<1>8. op # NoOperation
  BY Names
<1>9. Consistent(mem', job')
  BY <1>1, <1>5, <1>6, <1>7, <1>8, FS_EmptySet, TaskManagerAssumption
  DEF Consistent, TaskManagerAssumption
<1>10. TypeOK' /\ ResumesBounded'
  BY <1>1, <1>5, <1>6 DEF IInv, TypeOK, ResumesBounded
<1>11. IInv'
  BY <1>1, <1>5, <1>8, <1>9, <1>10 DEF IInv, Awake
<1>12. StaysAwake
  BY <1>1, <1>8 DEF StaysAwake, Awake
<1> QED
  BY <1>3, <1>5, <1>7, <1>11, <1>12 DEF StartsNothing, Ended, Live

LEMMA EndExclusiveKeeps ==
    ASSUME IInv, EndExclusive
    PROVE  IInv' /\ StartsNothing /\ StaysAwake /\ job # NoOperation /\ job' = NoOperation
<1>1. /\ ~mem.aborted /\ job # NoOperation /\ mem' = UnlockAndNotify(mem, job)
      /\ job' = NoOperation
      /\ UNCHANGED <<onExit, uninstalls, awaited, stopping, committed, timers, readyTimer,
                     resuming, resumeLost>>
  BY DEF EndExclusive, Running
<1>2. Consistent(mem, job) /\ job \in Jobs /\ mem \in Memory /\ mem.listeners \in 0 .. Setups
  BY DEF IInv, Consistent, TypeOK, Jobs, Memory
<1> DEFINE u == [mem EXCEPT !.lock = Unlock(@, job)]
<1>3. /\ ~UnlockThrows(mem.lock, job) /\ Consistent(u, NoOperation)
      /\ Cardinality(Active(u)) < TASK_CONCURRENCY /\ u.tasks = mem.tasks
      /\ u.paused = mem.paused /\ u.listeners = mem.listeners /\ u.aborted = mem.aborted
  BY <1>1, <1>2, ReleaseJobConsistent
<1>4. mem.listeners \in Nat /\ NoOperation \in Jobs
  BY <1>2 DEF Jobs
<1>5. /\ Consistent(mem', NoOperation)
      /\ Gentle(u, mem')
      /\ mem.listeners > 0 => Awake(mem', NoOperation)
      /\ mem.listeners <= 1 => mem'.aborted = mem.aborted
  BY <1>1, <1>3, <1>4, NotifyConsistent
<1> HIDE DEF u
<1>6. /\ mem'.paused = mem.paused /\ mem'.listeners = mem.listeners
      /\ mem.paused => mem'.tasks = mem.tasks
  BY <1>3, <1>5 DEF Gentle
<1>7. Setups = 1 => ~mem'.aborted
  BY <1>1, <1>2, <1>5
<1>8. Awake(mem', job')
  BY <1>1, <1>4, <1>5, <1>6 DEF IInv, Awake
<1>9. IInv'
  BY <1>1, <1>5, <1>6, <1>7, <1>8 DEF IInv, TypeOK, Consistent, ResumesBounded
<1> QED
  BY <1>1, <1>6, <1>8, <1>9 DEF StartsNothing, StaysAwake, Ended, Live

(* The next process. *)
LEMMA RestartKeeps ==
    ASSUME IInv, Restart
    PROVE  IInv' /\ StartsNothing /\ StaysAwake /\ Active(mem') = {} /\ job' = NoOperation
<1>1. /\ mem'.tasks = [a \in Apps |-> "none"] /\ mem'.lock = Unlocked
      /\ mem'.pending = <<>> /\ mem'.paused = TRUE
      /\ mem'.listeners = 0 /\ mem'.aborted = FALSE
  BY DEF Restart, InitialMemory
<1>2. mem' \in Memory
  <2>1. Unlocked \in Locks
    BY DEF Unlocked, Locks
  <2>2. [a \in Apps |-> "none"] \in [Apps -> TaskStates]
    BY DEF TaskStates
  <2>3. 0 \in 0 .. Setups
    BY TaskManagerAssumption DEF TaskManagerAssumption
  <2> QED
    BY <2>1, <2>2, <2>3 DEF Memory, InitialMemory, Restart
<1>3. Active(mem') = {}
  BY <1>1 DEF Active
<1>4. Consistent(mem', job')
  BY <1>1, <1>2, <1>3, FS_EmptySet, TaskManagerAssumption
  DEF Consistent, Restart, TaskManagerAssumption
<1>5. TypeOK'
  <2>1. NoCallbacks \in [restart : Nat, uninstall : Nat]
    BY DEF NoCallbacks
  <2>2. /\ onExit' \in [Apps -> [restart : Nat, uninstall : Nat]]
        /\ uninstalls' \in [Apps -> Nat]
        /\ awaited' \in Apps \cup {NoApp} /\ stopping' \subseteq Apps
    BY <2>1 DEF Restart
  <2>3. /\ job' \in ExclusiveOperations \cup {NoOperation}
        /\ committed' \in BOOLEAN /\ readyTimer' \in BOOLEAN /\ resumeLost' \in BOOLEAN
    BY DEF Restart
  <2>4. timers' \in Nat /\ resuming' \in Nat
    BY DEF Restart
  <2> QED
    BY <1>2, <2>2, <2>3, <2>4 DEF TypeOK
<1>6. ResumesBounded'
  BY <1>1, TaskManagerAssumption DEF ResumesBounded, Restart, TaskManagerAssumption
<1>7. IInv'
  BY <1>1, <1>4, <1>5, <1>6 DEF IInv, Restart, Awake
<1>8. StaysAwake
  BY <1>1 DEF StaysAwake, Awake
<1> QED
  BY <1>1, <1>3, <1>7, <1>8 DEF StartsNothing, Restart, Live

(* async.eachSeries over stopAppTask: the apps without a task leave the queue, one   *)
(* task is sent SIGTERM.                                                             *)
LEMMA StopNextKeeps ==
    ASSUME NEW m, NEW j \in Jobs, Consistent(m, j), NEW keys \in SUBSET Apps,
           StopNext(m, keys)
    PROVE  /\ Consistent(mem', j)
           /\ mem'.paused = m.paused
           /\ mem'.listeners = m.listeners
           /\ mem'.aborted = m.aborted
           /\ Active(mem') = Active(m)
           /\ mem'.pending # <<>> => m.pending # <<>>
           /\ awaited' \in Apps \cup {NoApp}
           /\ stopping' \in SUBSET Apps
           /\ \A b \in Apps : mem'.tasks[b] = m.tasks[b] \/ mem'.tasks[b] \notin Live
<1>1. PICK skipped \in SUBSET (keys \ Active(m)) :
         LET rest == [m EXCEPT !.pending = Without(@, skipped)]
         IN  \/ /\ keys = skipped
                /\ mem' = rest
                /\ awaited' = NoApp
                /\ stopping' = {}
             \/ \E b \in keys \cap Active(m) :
                   /\ mem' = [rest EXCEPT !.tasks[b] = Sigterm(@)]
                   /\ awaited' = b
                   /\ stopping' = keys \ (skipped \cup {b})
  BY DEF StopNext
<1> DEFINE q == Without(m.pending, skipped)
           rest == [m EXCEPT !.pending = q]
<1>2. q \in Seq(Apps) /\ (q # <<>> => m.pending # <<>>)
  BY WithoutIsRest DEF Consistent, Memory
<1>3. /\ Consistent(rest, j) /\ Gentle(m, rest) /\ rest.pending = q
      /\ rest.aborted = m.aborted /\ rest.tasks = m.tasks /\ Active(rest) = Active(m)
  BY <1>2, PendingConsistent
<1>4. /\ rest.paused = m.paused /\ rest.listeners = m.listeners
  BY <1>3 DEF Gentle
<1>5. \/ mem' = rest /\ awaited' = NoApp /\ stopping' = {}
      \/ \E b \in keys \cap Active(m) :
            /\ mem' = [rest EXCEPT !.tasks[b] = Sigterm(@)]
            /\ awaited' = b
            /\ stopping' = keys \ (skipped \cup {b})
  BY <1>1
<1> HIDE DEF q, rest
<1>6. CASE mem' = rest /\ awaited' = NoApp /\ stopping' = {}
  BY <1>2, <1>3, <1>4, <1>6
<1>7. CASE \E b \in keys \cap Active(m) :
              /\ mem' = [rest EXCEPT !.tasks[b] = Sigterm(@)]
              /\ awaited' = b
              /\ stopping' = keys \ (skipped \cup {b})
  <2>1. PICK b \in keys \cap Active(m) :
              /\ mem' = [rest EXCEPT !.tasks[b] = Sigterm(@)]
              /\ awaited' = b
              /\ stopping' = keys \ (skipped \cup {b})
    BY <1>7
  <2>2. b \in Apps
    OBVIOUS
  <2>3. /\ Consistent(mem', j) /\ mem'.tasks = [rest.tasks EXCEPT ![b] = Sigterm(@)]
        /\ mem'.pending = rest.pending /\ mem'.paused = rest.paused
        /\ mem'.listeners = rest.listeners /\ mem'.aborted = rest.aborted
        /\ Active(mem') = Active(rest)
    BY <1>3, <2>1, <2>2, KillConsistent
  <2>4. \A c \in Apps : mem'.tasks[c] = m.tasks[c] \/ mem'.tasks[c] \notin Live
    <3>1. m.tasks \in [Apps -> TaskStates]
      BY DEF Consistent, Memory
    <3> QED
      BY <1>3, <2>2, <2>3, <3>1, SigtermEnds
  <2> QED
    BY <1>2, <1>3, <1>4, <2>1, <2>2, <2>3, <2>4
<1> QED
  BY <1>5, <1>6, <1>7

(* platform.stop. *)
LEMMA PauseTasksKeeps ==
    ASSUME IInv, PauseTasks
    PROVE  IInv' /\ StartsNothing /\ StaysAwake
<1> DEFINE k == IF mem.listeners > 0 THEN mem.listeners - 1 ELSE 0
           p == [mem EXCEPT !.pending = <<>>, !.listeners = k, !.paused = TRUE]
<1>1. StopNext(p, Active(mem))
  BY DEF PauseTasks
<1>2. Consistent(mem, job) /\ job \in Jobs /\ mem \in Memory /\ mem.listeners \in 0 .. Setups
  BY DEF IInv, Consistent, TypeOK, Jobs, Memory
<1>3. k \in 0 .. Setups /\ k <= mem.listeners
  BY <1>2, TaskManagerAssumption DEF TaskManagerAssumption
<1> HIDE DEF k
<1>4. /\ p.pending = <<>> /\ p.listeners = k /\ p.paused = TRUE /\ p.lock = mem.lock
      /\ p.tasks = mem.tasks /\ p.aborted = mem.aborted
  BY <1>2 DEF Memory
<1>5. p \in Memory
  <2>1. <<>> \in Seq(Apps) /\ TRUE \in BOOLEAN
    OBVIOUS
  <2> QED
    BY <1>2, <1>3, <2>1 DEF Memory
<1> HIDE DEF p
<1>6. Active(p) = Active(mem) /\ Active(mem) \in SUBSET Apps
  BY <1>4 DEF Active
<1>7. Consistent(p, job)
  BY <1>2, <1>4, <1>5, <1>6 DEF Consistent
<1>8. /\ Consistent(mem', job)
      /\ mem'.paused = p.paused
      /\ mem'.listeners = p.listeners
      /\ mem'.aborted = p.aborted
      /\ awaited' \in Apps \cup {NoApp}
      /\ stopping' \in SUBSET Apps
      /\ \A b \in Apps : mem'.tasks[b] = p.tasks[b] \/ mem'.tasks[b] \notin Live
  BY <1>1, <1>2, <1>6, <1>7, StopNextKeeps
<1>9. /\ timers' = IF readyTimer THEN timers - 1 ELSE timers
      /\ readyTimer' = FALSE
      /\ UNCHANGED <<onExit, uninstalls, job, committed, resuming, resumeLost>>
  BY DEF PauseTasks
<1>10. timers' \in Nat /\ timers' <= timers
  <2>1. timers \in Nat /\ (readyTimer => timers > 0)
    BY DEF IInv, TypeOK
  <2> QED
    BY <1>9, <2>1
<1>11. TypeOK'
  <2>1. readyTimer' \in BOOLEAN
    BY <1>9
  <2> QED
    BY <1>8, <1>9, <1>10, <2>1 DEF IInv, TypeOK, Consistent
<1>12. ResumesBounded'
  <2>1. /\ mem'.listeners \in Nat /\ mem'.listeners <= mem.listeners
        /\ mem.listeners \in Nat
    BY <1>2, <1>3, <1>4, <1>8
  <2>2. timers \in Nat
    BY <1>9 DEF IInv, TypeOK
  <2>3. mem.listeners + timers <= Setups /\ Setups \in Nat
    BY TaskManagerAssumption DEF IInv, ResumesBounded, TaskManagerAssumption
  <2> QED
    BY <1>10, <2>1, <2>2, <2>3 DEF ResumesBounded
<1>13. IInv'
  BY <1>4, <1>8, <1>9, <1>11, <1>12 DEF IInv, Awake
<1>14. StartsNothing
  BY <1>4, <1>8 DEF StartsNothing, Ended, Live
<1>15. StaysAwake
  BY <1>4, <1>8 DEF StaysAwake, Awake
<1> QED
  BY <1>13, <1>14, <1>15

(* The exit handler of a task, its unlock, and the callbacks that restart it. *)
LEMMA AfterExitConsistent ==
    ASSUME IInv, ~mem.aborted, NEW a \in Apps, mem.tasks[a] \in Ended
    PROVE  LET r == AfterExit(a)
           IN  /\ Consistent(r, job)
               /\ r.paused = mem.paused
               /\ r.listeners = mem.listeners
               /\ mem.listeners > 0 => Awake(r, job)
               /\ Setups = 1 => ~r.aborted
               /\ mem.paused => r.tasks = [mem.tasks EXCEPT ![a] = "none"]
<1> DEFINE e == [mem EXCEPT !.tasks[a] = "none"]
           u == [e EXCEPT !.lock = Unlock(@, OP_APPTASK)]
           w == UnlockAndNotify(e, OP_APPTASK)
           r == AfterExit(a)
<1>1. Consistent(mem, job) /\ job \in Jobs /\ mem \in Memory /\ mem.listeners \in 0 .. Setups
  BY DEF IInv, Consistent, TypeOK, Jobs, Memory
<1>2. a \in Active(mem)
  BY DEF Active, Ended
<1>3. /\ ~UnlockThrows(e.lock, OP_APPTASK) /\ Consistent(u, job)
      /\ Cardinality(Active(u)) < TASK_CONCURRENCY
      /\ u.tasks = [mem.tasks EXCEPT ![a] = "none"] /\ u.paused = mem.paused
      /\ u.listeners = mem.listeners /\ u.aborted = mem.aborted
      /\ e.listeners = mem.listeners /\ e.aborted = mem.aborted
  BY <1>1, <1>2, ReleaseConsistent
<1>4. r = IF w.aborted THEN w ELSE StartAppTaskTimes(w, a, onExit[a].restart)
  BY DEF AfterExit
<1> HIDE DEF e, r
<1>5. e.listeners \in Nat
  BY <1>1, <1>3
<1>6. /\ Consistent(w, job)
      /\ Gentle(u, w)
      /\ mem.listeners > 0 => Awake(w, job)
      /\ mem.listeners <= 1 => w.aborted = mem.aborted
  BY <1>1, <1>3, <1>5, NotifyConsistent
<1> HIDE DEF u, w
<1>7. onExit[a].restart \in Nat
  BY DEF IInv, TypeOK
<1>8. /\ Consistent(r, job)
      /\ Gentle(w, r)
      /\ r.aborted = w.aborted
      /\ Awake(w, job) => Awake(r, job)
  <2>1. CASE w.aborted
    BY <1>4, <1>6, <2>1 DEF Gentle
  <2>2. CASE ~w.aborted
    <3>1. r = StartAppTaskTimes(w, a, onExit[a].restart)
      BY <1>4, <2>2
    <3> HIDE DEF r
    <3> QED
      BY <1>1, <1>6, <1>7, <3>1, StartTimesConsistent
  <2> QED
    BY <2>1, <2>2
<1>9. Gentle(u, r)
  BY <1>6, <1>8, GentleTwice
<1>10. Setups = 1 => ~r.aborted
  BY <1>1, <1>6, <1>8
<1> QED
  BY <1>3, <1>6, <1>8, <1>9, <1>10 DEF Gentle, r

LEMMA TaskExitKeeps ==
    ASSUME IInv, NEW a \in Apps, TaskExit(a)
    PROVE  IInv' /\ StartsNothing /\ StaysAwake
<1> DEFINE r == AfterExit(a)
<1>1. /\ ~mem.aborted /\ mem.tasks[a] \in Ended
      /\ onExit' = [onExit EXCEPT ![a] = NoCallbacks]
      /\ uninstalls' = [uninstalls EXCEPT ![a] = @ + onExit[a].uninstall]
      /\ UNCHANGED <<job, committed, timers, readyTimer, resuming, resumeLost>>
  BY DEF TaskExit, Running
<1>2. /\ job \in Jobs /\ stopping \in SUBSET Apps /\ awaited \in Apps \cup {NoApp}
      /\ mem.tasks \in [Apps -> TaskStates]
  BY DEF IInv, TypeOK, Jobs, Memory
<1>3. /\ Consistent(r, job) /\ r.paused = mem.paused /\ r.listeners = mem.listeners
      /\ mem.listeners > 0 => Awake(r, job)
      /\ Setups = 1 => ~r.aborted
      /\ mem.paused => r.tasks = [mem.tasks EXCEPT ![a] = "none"]
  BY <1>1, AfterExitConsistent
<1>4. \/ awaited = a /\ StopNext(r, stopping)
      \/ mem' = r /\ UNCHANGED <<awaited, stopping>>
  BY DEF TaskExit
<1> HIDE DEF r
<1>5. /\ Consistent(mem', job) /\ mem'.paused = r.paused /\ mem'.listeners = r.listeners
      /\ mem'.aborted = r.aborted /\ Active(mem') = Active(r)
      /\ mem'.pending # <<>> => r.pending # <<>>
      /\ awaited' \in Apps \cup {NoApp} /\ stopping' \in SUBSET Apps
      /\ \A b \in Apps : mem'.tasks[b] = r.tasks[b] \/ mem'.tasks[b] \notin Live
  BY <1>2, <1>3, <1>4, StopNextKeeps
<1>6. /\ onExit' \in [Apps -> [restart : Nat, uninstall : Nat]]
      /\ uninstalls' \in [Apps -> Nat]
  <2>1. /\ onExit \in [Apps -> [restart : Nat, uninstall : Nat]]
        /\ uninstalls \in [Apps -> Nat]
    BY DEF IInv, TypeOK
  <2>2. NoCallbacks \in [restart : Nat, uninstall : Nat]
    BY DEF NoCallbacks
  <2>3. onExit[a].uninstall \in Nat
    BY <2>1
  <2> QED
    BY <1>1, <2>1, <2>2, <2>3
<1>7. TypeOK'
  BY <1>1, <1>5, <1>6 DEF IInv, TypeOK, Consistent
<1>8. ~mem.paused => mem.listeners > 0
  BY DEF IInv
<1>9. Awake(mem', job')
  BY <1>1, <1>3, <1>5, <1>8 DEF Awake
<1>10. IInv'
  BY <1>1, <1>3, <1>5, <1>7, <1>8, <1>9 DEF IInv, ResumesBounded
<1>11. StartsNothing
  BY <1>2, <1>3, <1>5 DEF StartsNothing, Ended, Live
<1> QED
  BY <1>9, <1>10, <1>11 DEF StaysAwake

(* A sequence that holds each app of a set once is a sequence of apps. *)
LEMMA OrdersAreQueues ==
    ASSUME NEW T \in SUBSET Apps, NEW q \in Orders(T)
    PROVE  /\ q \in Seq(Apps)
           /\ T = {} => q = <<>>
<1>1. q \in [1 .. Cardinality(T) -> T] /\ IsFiniteSet(T)
  BY FS_Subset, TaskManagerAssumption DEF Orders, TaskManagerAssumption
<1>2. Cardinality(T) \in Nat
  BY <1>1, FS_CardinalityType
<1>3. q \in Seq(Apps) /\ Len(q) = Cardinality(T)
  BY <1>1, <1>2
<1>4. T = {} => Len(q) = 0
  BY <1>3, FS_EmptySet
<1> QED
  BY <1>3, <1>4

(* The answer to the query of resumeTasks. *)
LEMMA ResumeAppsKeeps ==
    ASSUME IInv, NEW S \in SUBSET Apps, Wakeable(S), ResumeApps(S)
    PROVE  IInv' /\ StartsNothing /\ Awake(mem', job')
<1> DEFINE idle == S \ Active(mem)
           busy == S \cap Active(mem)
<1>1. /\ ~mem.aborted /\ resuming > 0 /\ resuming' = resuming - 1
      /\ onExit' = [a \in Apps |-> IF a \in busy THEN [onExit[a] EXCEPT !.restart = @ + 1]
                                                 ELSE onExit[a]]
      /\ UNCHANGED <<uninstalls, awaited, stopping, job, committed, timers, readyTimer,
                     resumeLost>>
  BY DEF ResumeApps, Running
<1>2. PICK started \in SUBSET idle : \E queued \in Orders(idle \ started) :
         /\ Cardinality(started) = RoomFor(mem, Cardinality(idle))
         /\ mem' = [mem EXCEPT
               !.tasks = [a \in Apps |-> CASE a \in started -> "boot"
                                           [] a \in busy    -> Sigterm(@[a])
                                           [] OTHER         -> @[a]],
               !.lock = RecursiveLock(@, OP_APPTASK, Cardinality(started)),
               !.pending = Without(@, idle) \o queued]
  BY DEF ResumeApps
<1>3. PICK queued \in Orders(idle \ started) :
         /\ Cardinality(started) = RoomFor(mem, Cardinality(idle))
         /\ mem' = [mem EXCEPT
               !.tasks = [a \in Apps |-> CASE a \in started -> "boot"
                                           [] a \in busy    -> Sigterm(@[a])
                                           [] OTHER         -> @[a]],
               !.lock = RecursiveLock(@, OP_APPTASK, Cardinality(started)),
               !.pending = Without(@, idle) \o queued]
  BY <1>2
<1> DEFINE t == [a \in Apps |-> CASE a \in started -> "boot"
                                 [] a \in busy    -> Sigterm(mem.tasks[a])
                                 [] OTHER         -> mem.tasks[a]]
           l == RecursiveLock(mem.lock, OP_APPTASK, Cardinality(started))
           q == Without(mem.pending, idle) \o queued
<1>4. mem' = [mem EXCEPT !.tasks = t, !.lock = l, !.pending = q]
  BY <1>3
<1>5. /\ Consistent(mem, job) /\ job \in Jobs /\ mem \in Memory
      /\ mem.tasks \in [Apps -> TaskStates] /\ mem.pending \in Seq(Apps)
  BY DEF IInv, Consistent, TypeOK, Jobs, Memory
<1>6. /\ t \in [Apps -> TaskStates]
      /\ \A a \in Apps : t[a] # "none" <=> a \in Active(mem) \cup started
      /\ \A a \in Apps : a \notin started => t[a] = mem.tasks[a] \/ t[a] \notin Live
  <2>1. started \cap busy = {}
    OBVIOUS
  <2>2. ASSUME NEW a \in Apps
        PROVE  /\ t[a] \in TaskStates
               /\ t[a] # "none" <=> a \in Active(mem) \cup started
               /\ a \notin started => t[a] = mem.tasks[a] \/ t[a] \notin Live
    <3>1. mem.tasks[a] \in TaskStates /\ (a \in Active(mem) <=> mem.tasks[a] # "none")
      BY <1>5 DEF Active
    <3>2. CASE a \in started
      <4>1. t[a] = "boot"
        BY <3>2
      <4> QED
        BY <3>2, <4>1 DEF TaskStates, Live
    <3>3. CASE a \in busy
      <4>1. t[a] = Sigterm(mem.tasks[a])
        BY <2>1, <3>3
      <4> QED
        BY <3>1, <3>3, <4>1, SigtermEnds
    <3>4. CASE a \notin started \cup busy
      <4>1. t[a] = mem.tasks[a]
        BY <3>4
      <4> QED
        BY <3>1, <3>4, <4>1
    <3> QED
      BY <3>2, <3>3, <3>4
  <2> HIDE DEF t
  <2>3. t = [a \in Apps |-> t[a]]
    BY DEF t
  <2> QED
    BY <2>2, <2>3
<1>7. /\ queued \in Seq(Apps) /\ (idle \ started = {} => queued = <<>>)
      /\ Without(mem.pending, idle) \in Seq(Apps)
      /\ Without(mem.pending, idle) # <<>> =>
             \E i \in DOMAIN mem.pending : mem.pending[i] \notin idle
  BY <1>5, OrdersAreQueues, WithoutIsRest
<1>8. q \in Seq(Apps)
  BY <1>7
<1>9. /\ mem'.tasks = t /\ mem'.lock = l /\ mem'.pending = q
      /\ mem'.paused = mem.paused /\ mem'.listeners = mem.listeners
      /\ mem'.aborted = mem.aborted
  BY <1>4, <1>5 DEF Memory
<1>10. Active(mem') = Active(mem) \cup started
  BY <1>6, <1>9 DEF Active
<1> DEFINE n == Cardinality(started)
<1>11. /\ IsFiniteSet(idle) /\ IsFiniteSet(started) /\ n \in Nat
       /\ Cardinality(idle) \in Nat
  <2>1. IsFiniteSet(idle)
    BY FS_Subset, TaskManagerAssumption DEF TaskManagerAssumption
  <2>2. IsFiniteSet(started)
    BY <2>1, FS_Subset
  <2> QED
    BY <2>1, <2>2, FS_CardinalityType
<1>12. Cardinality(Active(mem')) = Cardinality(Active(mem)) + n
  <2>1. Active(mem) \cap started = {}
    OBVIOUS
  <2>2. IsFiniteSet(Active(mem)) /\ Cardinality(Active(mem)) \in Nat
    BY ActiveFinite
  <2>3. Cardinality(Active(mem) \cup started) =
          Cardinality(Active(mem)) + Cardinality(started) - Cardinality(Active(mem) \cap started)
    BY <1>11, <2>2, FS_Union
  <2>4. Cardinality(Active(mem) \cap started) = 0
    BY <2>1, FS_EmptySet
  <2> QED
    BY <1>10, <1>11, <2>2, <2>3, <2>4
<1>13. /\ MustQueue(mem) => started = {}
       /\ Cardinality(Active(mem')) <= TASK_CONCURRENCY
       /\ n # 0 => job = NoOperation
  <2>1. n = RoomFor(mem, Cardinality(idle))
    BY <1>3
  <2>2. CASE MustQueue(mem)
    <3>1. n = 0
      BY <2>1, <2>2 DEF RoomFor
    <3> QED
      BY <1>5, <1>11, <1>12, <3>1, ActiveFinite, FS_EmptySet DEF Consistent
  <2>3. CASE ~MustQueue(mem)
    <3>1. n <= TASK_CONCURRENCY - Cardinality(Active(mem))
      BY <1>11, <2>1, <2>3, ActiveFinite, TaskManagerAssumption
      DEF RoomFor, TaskManagerAssumption
    <3>2. job = NoOperation
      BY <1>5, <2>3, Names DEF MustQueue, Consistent, CanRecursiveLock, CanLock, Jobs
    <3> QED
      BY <1>11, <1>12, <2>3, <3>1, <3>2, ActiveFinite, TaskManagerAssumption
      DEF TaskManagerAssumption
  <2> QED
    BY <2>2, <2>3
<1>14. /\ l = IF Active(mem') # {}
               THEN [operation |-> OP_APPTASK, depth |-> Cardinality(Active(mem'))]
               ELSE IF job = NoOperation THEN Unlocked ELSE [operation |-> job, depth |-> 1]
       /\ l \in Locks
  <2>1. mem.lock \in Locks
    BY <1>5 DEF Memory
  <2>2. CASE n = 0
    <3>1. started = {}
      BY <1>11, <2>2, FS_EmptySet
    <3>2. l = mem.lock
      BY <2>1, <2>2 DEF RecursiveLock, Locks
    <3> QED
      BY <1>5, <1>10, <2>1, <3>1, <3>2 DEF Consistent
  <2>3. CASE n # 0
    <3>1. started # {} /\ job = NoOperation
      BY <1>13, <2>3, FS_EmptySet
    <3>2. mem.lock.depth = Cardinality(Active(mem))
      <4>1. mem.lock = IF Active(mem) # {}
                       THEN [operation |-> OP_APPTASK, depth |-> Cardinality(Active(mem))]
                       ELSE [operation |-> NoOperation, depth |-> 0]
        BY <1>5, <3>1 DEF Consistent, Unlocked
      <4>2. Active(mem) = {} => Cardinality(Active(mem)) = 0
        BY FS_EmptySet
      <4> HIDE DEF t, l, q, n
      <4> QED
        BY <4>1, <4>2
    <3>3. l = [operation |-> OP_APPTASK, depth |-> Cardinality(Active(mem'))]
      BY <1>12, <2>3, <3>2 DEF RecursiveLock
    <3>4. Cardinality(Active(mem')) \in Nat
      BY ActiveFinite
    <3> QED
      BY <1>10, <3>1, <3>3, <3>4, Names DEF Locks
  <2> QED
    BY <2>2, <2>3
<1> HIDE DEF t, l, q
<1>15. mem' \in Memory
  BY <1>4, <1>5, <1>6, <1>8, <1>14 DEF Memory
<1>16. job # NoOperation => Active(mem') = {}
  <2>1. job # NoOperation => started = {}
    BY <1>11, <1>13, FS_EmptySet
  <2> QED
    BY <1>5, <1>10, <2>1 DEF Consistent
<1>17. Consistent(mem', job)
  BY <1>9, <1>13, <1>14, <1>15, <1>16 DEF Consistent
<1>18. Awake(mem', job)
  <2> SUFFICES ASSUME ~mem.paused, mem'.pending # <<>>, Active(mem') = {}, job = NoOperation
               PROVE  FALSE
    BY <1>9 DEF Awake
  <2>1. Active(mem) = {} /\ started = {} /\ idle = S /\ n = 0
    BY <1>10, FS_EmptySet
  <2>2. ~MustQueue(mem)
    BY <1>5, <2>1, QueuedIsAwake
  <2>3. Cardinality(idle) = 0
    <3>1. Cardinality(Active(mem)) = 0
      BY <2>1, FS_EmptySet
    <3>2. RoomFor(mem, Cardinality(idle)) = n
      BY <1>3
    <3> HIDE DEF idle, n
    <3> QED
      BY <1>11, <2>1, <2>2, <3>1, <3>2, TaskManagerAssumption
      DEF RoomFor, TaskManagerAssumption
  <2>4. S = {}
    BY <1>11, <2>1, <2>3, FS_EmptySet
  <2>5. Queued(mem) = {}
    BY <2>1, <2>4 DEF Wakeable
  <2>6. Without(mem.pending, idle) = <<>>
    BY <1>7, <2>5 DEF Queued
  <2>7. queued = <<>>
    BY <1>7, <2>1, <2>4
  <2> QED
    BY <1>9, <2>6, <2>7 DEF q
<1>19. TypeOK'
  <2>1. onExit \in [Apps -> [restart : Nat, uninstall : Nat]]
    BY DEF IInv, TypeOK
  <2>2. onExit' \in [Apps -> [restart : Nat, uninstall : Nat]]
    <3>1. ASSUME NEW a \in Apps
          PROVE  [onExit[a] EXCEPT !.restart = @ + 1] \in [restart : Nat, uninstall : Nat]
      BY <2>1
    <3> QED
      BY <1>1, <2>1, <3>1
  <2>3. resuming' \in Nat
    BY <1>1 DEF IInv, TypeOK
  <2> QED
    BY <1>1, <1>15, <2>2, <2>3 DEF IInv, TypeOK
<1>20. IInv'
  BY <1>1, <1>9, <1>17, <1>18, <1>19 DEF IInv, ResumesBounded
<1>21. StartsNothing
  <2>1. mem.paused => started = {}
    BY <1>13 DEF MustQueue
  <2> QED
    BY <1>6, <1>9, <2>1 DEF StartsNothing, Ended, Live
<1> QED
  BY <1>1, <1>18, <1>20, <1>21

-----------------------------------------------------------------------------
(* IInv /\ [Next]_tmVars => IInv', and what a step may do besides. *)
LEMMA NextKeeps ==
    ASSUME IInv, [Next]_tmVars
    PROVE  IInv' /\ StartsNothing /\ StaysAwake
<1>1. CASE UNCHANGED tmVars
  <2>1. UNCHANGED <<mem, onExit, uninstalls, awaited, stopping, job, committed, timers,
                    readyTimer, resuming, resumeLost>>
    BY <1>1 DEF tmVars
  <2>2. IInv'
    BY <2>1 DEF IInv, TypeOK, ResumesBounded
  <2> QED
    BY <2>1, <2>2 DEF StartsNothing, StaysAwake, Ended, Live
<1>2. CASE \E a \in Apps :
             \/ TaskReady(a)
             \/ \E t \in Ended : TaskEnds(a, t)
             \/ TaskExit(a)
             \/ RestartAppTask(a)
             \/ StopForUninstall(a)
             \/ DropUninstall(a)
             \/ StartForUninstall(a)
  BY <1>2, TaskReadyKeeps, TaskEndsKeeps, TaskExitKeeps, RestartAppTaskKeeps,
     StopForUninstallKeeps, DropUninstallKeeps, StartForUninstallKeeps
<1>3. CASE \E op \in ExclusiveOperations : BeginExclusive(op)
  BY <1>3, BeginExclusiveKeeps
<1>4. CASE EndExclusive
  BY <1>4, EndExclusiveKeeps
<1>5. CASE CommitExclusive
  BY <1>5, CommitExclusiveKeeps
<1>6. CASE ResumeTasks
  BY <1>6, ResumeTasksKeeps
<1>7. CASE \E S \in SUBSET Apps : Wakeable(S) /\ ResumeApps(S)
  BY <1>7, ResumeAppsKeeps DEF StaysAwake
<1>8. CASE ResumeFails
  BY <1>8, ResumeFailsKeeps
<1>9. CASE PauseTasks
  BY <1>9, PauseTasksKeeps
<1>10. CASE Restart
  BY <1>10, RestartKeeps
<1> QED
  BY <1>1, <1>2, <1>3, <1>4, <1>5, <1>6, <1>7, <1>8, <1>9, <1>10 DEF Next

THEOREM Invariance == Spec => []IInv
<1>1. Init => IInv
  BY InitInv
<1>2. IInv /\ [Next]_tmVars => IInv'
  BY NextKeeps
<1> QED
  BY <1>1, <1>2, PTL DEF Spec

(***************************************************************************)
(* Every variable of taskmanager.js and locker.js holds a value of its     *)
(* type, for any number of apps.                                           *)
(***************************************************************************)
THEOREM TypeCorrect == Spec => []TypeOK
<1>1. IInv => TypeOK
  BY DEF IInv
<1> QED
  BY <1>1, Invariance, PTL

(***************************************************************************)
(* The lock of locker.js always says who is at work: one level for each    *)
(* app task that taskmanager.js started and has not reaped, or the one     *)
(* exclusive operation.                                                    *)
(***************************************************************************)
THEOREM LockCorrect == Spec => []LockMatchesWork
<1>1. IInv => LockMatchesWork
  <2> SUFFICES ASSUME IInv PROVE LockMatchesWork
    OBVIOUS
  <2>1. Consistent(mem, job)
    BY DEF IInv
  <2>2. Active(mem) = {} => Cardinality(Active(mem)) = 0
    BY FS_EmptySet
  <2>3. CASE Active(mem) # {}
    BY <2>1, <2>3 DEF Consistent, LockMatchesWork
  <2>4. CASE Active(mem) = {} /\ job = NoOperation
    BY <2>1, <2>2, <2>4 DEF Consistent, LockMatchesWork, Unlocked
  <2>5. CASE Active(mem) = {} /\ job # NoOperation
    BY <2>1, <2>5 DEF Consistent, LockMatchesWork
  <2> QED
    BY <2>3, <2>4, <2>5
<1> QED
  BY <1>1, Invariance, PTL

(***************************************************************************)
(* No app waits in gPendingTasks with nobody to wake it.                   *)
(***************************************************************************)
THEOREM NobodyForgotten == Spec => []NoLostWakeup
<1>1. IInv => NoLostWakeup
  BY DEF IInv, NoLostWakeup, Awake
<1> QED
  BY <1>1, Invariance, PTL

(***************************************************************************)
(* As long as platform.start runs once in a process, neither the assertion *)
(* of startNextTask nor the throw of unlock can end the box.               *)
(***************************************************************************)
THEOREM NoAbort ==
    ASSUME Setups = 1
    PROVE  Spec => []NeverAborts
<1>1. IInv => NeverAborts
  BY DEF IInv, NeverAborts
<1> QED
  BY <1>1, Invariance, PTL

(***************************************************************************)
(* Between pauseTasks and the next resumeTasks no task is started.         *)
(***************************************************************************)
THEOREM PauseHolds == Spec => PausedStartsNothing
<1>1. IInv /\ [Next]_tmVars => [StartsNothing]_tmVars
  BY NextKeeps
<1> QED
  BY <1>1, Invariance, PTL DEF Spec, PausedStartsNothing, StartsNothing

(***************************************************************************)
(* The task manager with its lock implements OperationMutex: at most       *)
(* TASK_CONCURRENCY tasks at work, and none of them together with a full   *)
(* backup, a box update or a migration.                                    *)
(***************************************************************************)
THEOREM Implements == Spec => MutualExclusion
<1>1. Init => Mutex!Init
  BY DEF Init, InitialMemory, Active, Mutex!Init
<1>2. ASSUME IInv, [Next]_tmVars
      PROVE  [Mutex!Next]_(Mutex!vars)
  <2>1. IInv'
    BY <1>2, NextKeeps
  <2>2. /\ Consistent(mem, job) /\ Consistent(mem', job')
        /\ Active(mem) \subseteq Apps /\ Active(mem') \subseteq Apps
    BY <1>2, <2>1, ActiveFinite DEF IInv
  <2>3. Mutex!WithinLimit(Active(mem'))
    BY <2>2 DEF Consistent, Mutex!WithinLimit, Cardinality, Mutex!Cardinality
  <2>4. CASE job' = job
    <3>1. CASE job = NoOperation
      BY <2>3, <2>4, <3>1 DEF Mutex!Next, Mutex!TasksStep, Active
    <3>2. CASE job # NoOperation
      <4>1. Active(mem) = {} /\ Active(mem') = {}
        BY <2>2, <2>4, <3>2 DEF Consistent
      <4> QED
        BY <2>4, <4>1 DEF Mutex!vars, Active
    <3> QED
      BY <3>1, <3>2
  <2>5. CASE \E op \in ExclusiveOperations : BeginExclusive(op)
    <3>1. PICK op \in ExclusiveOperations : BeginExclusive(op)
      BY <2>5
    <3>2. job = NoOperation /\ Active(mem) = {} /\ Active(mem') = {}
      BY <1>2, <3>1, BeginExclusiveKeeps
    <3>3. job' = op
      BY <3>1 DEF BeginExclusive
    <3> QED
      BY <3>2, <3>3 DEF Mutex!Next, Mutex!Begin, Active
  <2>6. CASE EndExclusive
    <3>1. job # NoOperation /\ job' = NoOperation
      BY <1>2, <2>6, EndExclusiveKeeps
    <3> QED
      BY <2>3, <3>1 DEF Mutex!Next, Mutex!End, Active
  <2>7. CASE Restart
    <3>1. Active(mem') = {} /\ job' = NoOperation
      BY <1>2, <2>7, RestartKeeps
    <3> QED
      BY <3>1 DEF Mutex!Next, Mutex!Reset, Active
  <2>8. \/ job' = job
        \/ \E op \in ExclusiveOperations : BeginExclusive(op)
        \/ EndExclusive
        \/ Restart
    BY <1>2 DEF Next, tmVars, TaskReady, TaskEnds, TaskExit, RestartAppTask,
       StopForUninstall, DropUninstall, StartForUninstall, CommitExclusive,
       ResumeTasks, ResumeApps, ResumeFails, PauseTasks
  <2> QED
    BY <2>4, <2>5, <2>6, <2>7, <2>8
<1>3. IInv /\ [Next]_tmVars => [Mutex!Next]_(Mutex!vars)
  BY <1>2
<1> QED
  BY <1>1, <1>3, Invariance, PTL DEF Spec, MutualExclusion, Mutex!Spec

-----------------------------------------------------------------------------
(* The second part: the programs of tasks. *)

\* What is left of a program from its k-th step on.
Left(s, k) == SubSeq(s, k, Len(s))

StopProgram == <<"stop", "stopped">>
StartProgram == <<"start", "started">>

\* The commands that install the app again.
Rebuilding == PendingStates \ {PENDING_BACKUP, PENDING_UNINSTALL}

Programs == [cmd : IStates \cup {"none"}, todo : Seq(Steps),
             code : {"exited0", "exited50", "hung"}, fresh : BOOLEAN]

\* LifeTypeOK without the task manager's part.
LifeTypes ==
    /\ istate \in [Apps -> IStates]
    /\ rstate \in [Apps -> RStates]
    /\ containerId \in [Apps -> BOOLEAN]
    /\ container \in [Apps -> {"none", "stopped", "running"}]
    /\ built \in [Apps -> BOOLEAN]
    /\ prog \in [Apps -> Programs]
    /\ callbacks \in [Apps -> Nat]
    /\ marked \in [Apps -> Nat]
    /\ crashWrites \in [Apps -> Nat]
    /\ worklist \in {NotRead} \cup SUBSET Apps
    /\ commands \in 0 .. MaxCommands
    /\ restarts \in 0 .. MaxRestarts
    /\ lost \subseteq Apps

\* The app has the container the row says it has.
Sound(a) ==
    /\ container[a] # "none" /\ containerId[a]
    /\ rstate[a] = "running" => container[a] = "running"

\* No command is accepted that changes what the container is made of.
Rests(a) == istate[a] \in {"installed", PENDING_BACKUP}

Stopping(a) ==
    \E k \in 1 .. 2 : prog[a].todo = Left(StopProgram, k) /\ rstate[a] = PENDING_STOP

Starting(a) ==
    \E k \in 1 .. 2 : /\ prog[a].todo = Left(StartProgram, k)
                      /\ k = 2 => container[a] = "running"

Uninstalling(a) == \E k \in 1 .. 5 : prog[a].todo = Left(Uninstall, k)

\* What a Reinstall has made of the container when its k-th step is next.
Reinstalling(a) ==
    \E k \in 1 .. 9 : /\ prog[a].todo = Left(Reinstall, k)
                      /\ k >= 6 => container[a] # "none"
                      /\ k >= 7 => containerId[a]
                      /\ k >= 8 => container[a] = "running"

(***************************************************************************)
(* What a task still has to do fits the row and the container, although    *)
(* commands are accepted while it is at work: a task that replaces the     *)
(* container has the row in a state no command calls installed, and the    *)
(* tasks that leave the row installed never go without a container.        *)
(***************************************************************************)
ProgramFits(a) ==
    LET p == prog[a]
    IN  p.todo # <<>> =>
          \/ p.cmd = PENDING_BACKUP /\ p.todo \in {<<"done">>, <<"failed">>} /\ Sound(a)
          \/ p.cmd = "installed" /\ Sound(a) /\ (Stopping(a) \/ Starting(a))
          \/ /\ p.cmd = PENDING_UNINSTALL /\ ~Rests(a)
             /\ p.todo = <<"failed">> \/ Uninstalling(a)
          \/ /\ p.cmd \in Rebuilding /\ ~Rests(a)
             /\ p.todo = <<"failed">> \/ Reinstalling(a)

AppInv(a) ==
    /\ Rests(a) => Sound(a)
    /\ ProgramFits(a)

ContainersInv == LifeTypes /\ \A a \in Apps : AppInv(a)

-----------------------------------------------------------------------------
(* The steps of the programs. *)
LEMMA LeftOf ==
    ASSUME NEW T, NEW s \in Seq(T), NEW k \in 1 .. Len(s)
    PROVE  /\ Left(s, k) \in Seq(T)
           /\ Left(s, k) # <<>>
           /\ Head(Left(s, k)) = s[k]
           /\ Tail(Left(s, k)) = Left(s, k + 1)
<1>1. \A i \in k .. Len(s) : s[i] \in T
  OBVIOUS
<1>2. Left(s, k) \in Seq(T) /\ Len(Left(s, k)) = Len(s) - k + 1
  BY <1>1, SubSeqProperties, k \in Int, Len(s) \in Int, k <= Len(s) DEF Left
<1>3. Left(s, k) # <<>>
  BY <1>2
<1>4. Left(s, k + 1) = SubSeq(s, k + 1, Len(s))
  BY DEF Left
<1>5. Head(Left(s, k)) = s[k] /\ Tail(Left(s, k)) = Left(s, k + 1)
  BY <1>4, HeadTailOfSubSeq, Len(s) \in k .. Len(s) DEF Left
<1> QED
  BY <1>2, <1>3, <1>5

(* The programs are sequences of the steps Step knows. *)
LEMMA ProgramSteps ==
    /\ Reinstall \in Seq(Steps) /\ Len(Reinstall) = 9
    /\ Uninstall \in Seq(Steps) /\ Len(Uninstall) = 5
    /\ StopProgram \in Seq(Steps) /\ Len(StopProgram) = 2
    /\ StartProgram \in Seq(Steps) /\ Len(StartProgram) = 2
    /\ {<<>>, <<"done">>, <<"failed">>} \subseteq Seq(Steps)
<1>1. /\ Reinstall[1] \in Steps /\ Reinstall[2] \in Steps /\ Reinstall[3] \in Steps
      /\ Reinstall[4] \in Steps /\ Reinstall[5] \in Steps /\ Reinstall[6] \in Steps
      /\ Reinstall[7] \in Steps /\ Reinstall[8] \in Steps /\ Reinstall[9] \in Steps
  <2>1. DOMAIN Reinstall = 1 .. 9
    BY DEF Reinstall
  <2>2. \A i \in 1 .. 9 : Reinstall[i] \in Steps
    BY <2>1 DEF Steps
  <2> QED
    BY <2>2
<1>2. {"stop", "stopped", "delete", "deleted", "create", "created", "start", "started",
       "done", "remove", "failed"} \subseteq Steps
  BY <1>1 DEF Reinstall, Steps
<1> HIDE DEF Steps
<1>3. Reinstall \in Seq(Steps) /\ Len(Reinstall) = 9
  BY <1>2 DEF Reinstall
<1>4. Uninstall \in Seq(Steps) /\ Len(Uninstall) = 5
  BY <1>2 DEF Uninstall
<1>5. /\ StopProgram \in Seq(Steps) /\ Len(StopProgram) = 2
      /\ StartProgram \in Seq(Steps) /\ Len(StartProgram) = 2
  BY <1>2 DEF StopProgram, StartProgram
<1>6. {<<>>, <<"done">>, <<"failed">>} \subseteq Seq(Steps)
  BY <1>2
<1> QED
  BY <1>3, <1>4, <1>5, <1>6

(* Nothing is left of a program behind its last step, and all of it at its first. *)
LEMMA LeftEnds ==
    ASSUME NEW T, NEW s \in Seq(T)
    PROVE  Left(s, 1) = s /\ Left(s, Len(s) + 1) = <<>>
<1>1. Left(s, 1) = s
  BY SubSeqFull DEF Left
<1>2. Left(s, Len(s) + 1) = <<>>
  BY SubSeqEmpty, Len(s) \in Int, Len(s) + 1 \in Int, Len(s) < Len(s) + 1 DEF Left
<1> QED
  BY <1>1, <1>2

(* What the task reads: the program fits the row it was read from. *)
LEMMA ProgramOfRow ==
    ASSUME NEW i \in IStates, NEW r \in RStates, i \notin NoRow, Program(i, r) # <<>>
    PROVE  /\ Program(i, r) \in Seq(Steps)
           /\ \/ i = PENDING_BACKUP /\ Program(i, r) = <<"done">>
              \/ i = "installed" /\ r = PENDING_STOP /\ Program(i, r) = Left(StopProgram, 1)
              \/ i = "installed" /\ Program(i, r) = Left(StartProgram, 1)
              \/ i = PENDING_UNINSTALL /\ Program(i, r) = Left(Uninstall, 1)
              \/ i \in Rebuilding /\ Program(i, r) = Left(Reinstall, 1)
<1>1. /\ Left(StopProgram, 1) = StopProgram /\ Left(StartProgram, 1) = StartProgram
      /\ Left(Uninstall, 1) = Uninstall /\ Left(Reinstall, 1) = Reinstall
  BY ProgramSteps, LeftEnds
<1>2. CASE i = PENDING_UNINSTALL
  <2>1. Program(i, r) = Uninstall
    BY <1>2 DEF Program, PENDING_BACKUP, PENDING_UNINSTALL
  <2> QED
    BY <1>1, <1>2, <2>1, ProgramSteps
<1>3. CASE i = PENDING_BACKUP
  <2>1. Program(i, r) = <<"done">>
    BY <1>3 DEF Program, PENDING_BACKUP, PENDING_UNINSTALL
  <2> QED
    BY <1>3, <2>1, ProgramSteps
<1>4. CASE i = "installed"
  <2>1. Program(i, r) = HandleRunCommand(r)
    BY <1>4 DEF Program, PENDING_BACKUP, PENDING_UNINSTALL
  <2>2. CASE r = PENDING_STOP
    <3>1. HandleRunCommand(r) = StopProgram
      BY <2>2 DEF HandleRunCommand, StopProgram, PENDING_START, PENDING_STOP
    <3> QED
      BY <1>1, <1>4, <2>1, <2>2, <3>1, ProgramSteps
  <2>3. CASE r \in {PENDING_START, "running"}
    <3>1. HandleRunCommand(r) = StartProgram
      BY <2>3 DEF HandleRunCommand, StartProgram, PENDING_START, PENDING_STOP
    <3> QED
      BY <1>1, <1>4, <2>1, <3>1, ProgramSteps
  <2>4. CASE r \notin {PENDING_STOP, PENDING_START, "running"}
    <3>1. HandleRunCommand(r) = <<>>
      BY <2>4 DEF HandleRunCommand
    <3> QED
      BY <2>1, <3>1
  <2> QED
    BY <2>2, <2>3, <2>4
<1>5. CASE i = "error"
  <2>1. Program(i, r) = <<>>
    BY <1>5 DEF Program, PENDING_BACKUP, PENDING_UNINSTALL
  <2> QED
    BY <2>1
<1>6. CASE i \notin {PENDING_UNINSTALL, PENDING_BACKUP, "installed", "error"}
  <2>1. Program(i, r) = Reinstall
    BY <1>6 DEF Program
  <2>2. i \in Rebuilding
    BY <1>6 DEF IStates, Rebuilding
  <2> QED
    BY <1>1, <2>1, <2>2, ProgramSteps
<1> QED
  BY <1>2, <1>3, <1>4, <1>5, <1>6

-----------------------------------------------------------------------------
(***************************************************************************)
(* The steps of AppLifecycle keep ContainersInv.  First those that leave   *)
(* the rows and the containers alone and only lose programs, then the      *)
(* others one by one.                                                      *)
(***************************************************************************)

\* The types of what has nothing to do with the rows and the containers.
Counters ==
    /\ callbacks \in [Apps -> Nat]
    /\ marked \in [Apps -> Nat]
    /\ crashWrites \in [Apps -> Nat]
    /\ worklist \in {NotRead} \cup SUBSET Apps
    /\ commands \in 0 .. MaxCommands
    /\ restarts \in 0 .. MaxRestarts
    /\ lost \subseteq Apps

(* An app of which nothing changes but, perhaps, the freshness of its program. *)
LEMMA SameKeeps ==
    ASSUME NEW b \in Apps, AppInv(b),
           istate'[b] = istate[b], rstate'[b] = rstate[b], container'[b] = container[b],
           containerId'[b] = containerId[b],
           prog'[b].cmd = prog[b].cmd, prog'[b].todo = prog[b].todo
    PROVE  AppInv(b)'
BY DEF AppInv, Sound, Rests, ProgramFits, Stopping, Starting, Uninstalling, Reinstalling

(* An app whose task ended, or had not read anything. *)
LEMMA IdleKeeps ==
    ASSUME NEW b \in Apps, AppInv(b),
           istate'[b] = istate[b], rstate'[b] = rstate[b], container'[b] = container[b],
           containerId'[b] = containerId[b], prog'[b].todo = <<>>
    PROVE  AppInv(b)'
BY DEF AppInv, Sound, Rests, ProgramFits

(* The steps of the task manager: some tasks begin or end. *)
LEMMA QuietKeeps ==
    ASSUME ContainersInv, UNCHANGED <<dbVars, container, built>>, Counters',
           prog' \in [Apps -> Programs],
           \A b \in Apps : prog'[b] \in {prog[b], NoProgram}
    PROVE  ContainersInv'
<1>1. UNCHANGED <<istate, rstate, containerId, container, built>>
  BY DEF dbVars
<1>2. LifeTypes'
  BY <1>1 DEF ContainersInv, LifeTypes, Counters
<1>3. ASSUME NEW b \in Apps
      PROVE  AppInv(b)'
  <2>1. AppInv(b)
    BY DEF ContainersInv
  <2>2. CASE prog'[b] = prog[b]
    BY <1>1, <2>1, <2>2, SameKeeps
  <2>3. CASE prog'[b] = NoProgram
    BY <1>1, <2>1, <2>3, IdleKeeps DEF NoProgram
  <2> QED
    BY <2>2, <2>3
<1> QED
  BY <1>2, <1>3 DEF ContainersInv

(* A task that ended runs no program any more. *)
LEMMA ProgramsAfterIs ==
    ASSUME prog \in [Apps -> Programs], NEW m
    PROVE  /\ ProgramsAfter(m) \in [Apps -> Programs]
           /\ \A b \in Apps : ProgramsAfter(m)[b] \in {prog[b], NoProgram}
<1>1. NoProgram \in Programs
  BY ProgramSteps DEF NoProgram, Programs
<1> QED
  BY <1>1 DEF ProgramsAfter

LEMMA ManagerKeeps ==
    ASSUME ContainersInv, UNCHANGED <<dbVars, container, built>>, Counters',
           prog' = ProgramsAfter(mem')
    PROVE  ContainersInv'
<1>1. prog \in [Apps -> Programs]
  BY DEF ContainersInv, LifeTypes
<1>2. prog' \in [Apps -> Programs] /\ \A b \in Apps : prog'[b] \in {prog[b], NoProgram}
  BY <1>1, ProgramsAfterIs
<1> QED
  BY <1>2, QuietKeeps

(* A command the database accepted. *)
LEMMA SetCommandKeeps ==
    ASSUME ContainersInv, NEW a \in Apps, NEW c \in Commands \ {PENDING_UNINSTALL},
           SetCommand(a, c)
    PROVE  ContainersInv'
<1> USE DEF PENDING_CONFIGURE, PENDING_UPDATE, PENDING_FORCE_UPDATE, PENDING_RESTORE,
            PENDING_BACKUP, PENDING_INSTALL, PENDING_UNINSTALL, PENDING_START, PENDING_STOP
<1>1. LifeTypes /\ \A b \in Apps : AppInv(b)
  BY DEF ContainersInv
<1>2. /\ UNCHANGED <<containerId, container, marked, crashWrites, worklist, restarts, lost>>
      /\ commands < MaxCommands /\ commands' = commands + 1
      /\ callbacks' = [callbacks EXCEPT ![a] = @ + 1]
      /\ IF c \in RunCommands
         THEN rstate' = [rstate EXCEPT ![a] = c] /\ istate' = istate
         ELSE istate' = [istate EXCEPT ![a] = c] /\ rstate' = rstate
      /\ built' = [built EXCEPT ![a] = FALSE] \/ built' = built
      /\ prog' = [prog EXCEPT ![a].fresh = FALSE] \/ prog' = prog
  BY DEF SetCommand
<1>3. c \in InstallationCommands \cup RunCommands \cup {PENDING_INSTALL}
  BY AppLifecycleAssumption DEF AppLifecycleAssumption
<1>4. prog' \in [Apps -> Programs]
  <2>1. [prog[a] EXCEPT !.fresh = FALSE] \in Programs
    BY <1>1 DEF LifeTypes, Programs
  <2> QED
    BY <1>1, <1>2, <2>1 DEF LifeTypes
<1>5. ASSUME NEW b \in Apps
      PROVE  prog'[b].cmd = prog[b].cmd /\ prog'[b].todo = prog[b].todo
  <2>1. prog \in [Apps -> Programs] /\ prog[b] \in Programs
    BY <1>1 DEF LifeTypes
  <2>2. prog'[b] \in {prog[b], [prog[b] EXCEPT !.fresh = FALSE]}
    BY <1>2, <2>1
  <2> QED
    BY <2>1, <2>2 DEF Programs
<1>6. istate' \in [Apps -> IStates] /\ rstate' \in [Apps -> RStates]
  BY <1>1, <1>2, <1>3 DEF LifeTypes, IStates, RStates, PendingStates, InstallationCommands,
     RunCommands
<1>7. commands' \in 0 .. MaxCommands
  BY <1>1, <1>2, AppLifecycleAssumption DEF LifeTypes, AppLifecycleAssumption
<1>8. LifeTypes'
  <2>1. callbacks' \in [Apps -> Nat]
    BY <1>1, <1>2 DEF LifeTypes
  <2>2. built' \in [Apps -> BOOLEAN]
    BY <1>1, <1>2 DEF LifeTypes
  <2>3. UNCHANGED <<containerId, container, marked, crashWrites, worklist, restarts, lost>>
    BY <1>2
  <2> QED
    BY <1>1, <1>4, <1>6, <1>7, <2>1, <2>2, <2>3 DEF LifeTypes
<1>9. ASSUME NEW b \in Apps
      PROVE  AppInv(b)'
  <2>1. CASE b # a
    <3>1. istate'[b] = istate[b] /\ rstate'[b] = rstate[b]
      BY <1>1, <1>2, <2>1 DEF LifeTypes
    <3> QED
      BY <1>1, <1>2, <1>5, <3>1, SameKeeps
  <2>2. CASE b = a /\ c \in RunCommands
    <3>1. istate[a] = "installed" /\ rstate[a] \in {"running", "stopped"}
      BY <2>2 DEF SetCommand, Allowed, RunCommands
    <3>2. istate'[a] = istate[a] /\ rstate'[a] = c /\ c # "running"
      BY <1>1, <1>2, <2>2 DEF LifeTypes, RunCommands
    <3>3. Sound(a)
      BY <1>1, <3>1 DEF AppInv, Rests
    <3>4. Sound(a)' /\ Rests(a)'
      BY <1>2, <3>1, <3>2, <3>3 DEF Sound, Rests
    <3>5. ProgramFits(a)'
      BY <1>1, <1>2, <1>5, <3>1, <3>4
      DEF AppInv, ProgramFits, Rests, Stopping, Starting
    <3> QED
      BY <2>2, <3>4, <3>5 DEF AppInv
  <2>3. CASE b = a /\ c = PENDING_BACKUP
    <3>1. istate[a] = "installed"
      BY <2>3 DEF SetCommand, Allowed, RunCommands
    <3>2. rstate'[a] = rstate[a] /\ Sound(a) /\ Rests(a)
      BY <1>1, <1>2, <2>3, <3>1 DEF AppInv, Rests, RunCommands
    <3>3. Sound(a)'
      BY <1>2, <3>2 DEF Sound
    <3>4. ProgramFits(a)'
      BY <1>1, <1>2, <1>5, <3>2, <3>3
      DEF AppInv, ProgramFits, Stopping, Starting
    <3> QED
      BY <2>3, <3>3, <3>4 DEF AppInv
  <2>4. CASE b = a /\ c \notin RunCommands \cup {PENDING_BACKUP}
    <3>1. istate'[a] = c /\ rstate'[a] = rstate[a] /\ ~Rests(a)'
      BY <1>1, <1>2, <1>3, <2>4 DEF LifeTypes, Rests, InstallationCommands
    <3>2. Sound(a)' <=> Sound(a)
      BY <1>2, <3>1 DEF Sound
    <3>3. ProgramFits(a)'
      BY <1>1, <1>2, <1>5, <3>1, <3>2
      DEF AppInv, ProgramFits, Stopping, Starting, Uninstalling, Reinstalling
    <3> QED
      BY <2>4, <3>1, <3>3 DEF AppInv
  <2> QED
    BY <2>1, <2>2, <2>3, <2>4
<1> QED
  BY <1>8, <1>9 DEF ContainersInv

(* A row that is marked or crashed is not at rest, whatever its task does. *)
LEMMA DisturbKeeps ==
    ASSUME NEW b \in Apps, AppInv(b), ~Rests(b)',
           rstate'[b] = rstate[b], container'[b] = container[b],
           containerId'[b] = containerId[b], prog'[b] = prog[b]
    PROVE  AppInv(b)'
BY DEF AppInv, Sound, ProgramFits, Stopping, Starting, Uninstalling, Reinstalling

LEMMA MarkUninstallKeeps ==
    ASSUME ContainersInv, NEW a \in Apps, MarkUninstall(a)
    PROVE  ContainersInv'
<1>1. LifeTypes /\ \A b \in Apps : AppInv(b)
  BY DEF ContainersInv
<1>2. /\ istate' = [istate EXCEPT ![a] = PENDING_UNINSTALL]
      /\ marked' = [marked EXCEPT ![a] = @ + 1]
      /\ UNCHANGED <<rstate, containerId, container, built, prog, callbacks, crashWrites,
                     worklist, commands, restarts, lost>>
  BY DEF MarkUninstall, boundVars
<1>3. LifeTypes'
  BY <1>1, <1>2 DEF LifeTypes, IStates, PendingStates
<1>4. ~Rests(a)'
  BY <1>1, <1>2 DEF LifeTypes, Rests, PENDING_UNINSTALL, PENDING_BACKUP
<1>5. ASSUME NEW b \in Apps, b # a
      PROVE  AppInv(b)'
  BY <1>1, <1>2, <1>5, SameKeeps DEF LifeTypes
<1>6. AppInv(a)'
  BY <1>1, <1>2, <1>4, DisturbKeeps
<1> QED
  BY <1>3, <1>5, <1>6 DEF ContainersInv

LEMMA CrashWriteKeeps ==
    ASSUME ContainersInv, NEW a \in Apps, CrashWrite(a)
    PROVE  ContainersInv'
<1>1. LifeTypes /\ \A b \in Apps : AppInv(b)
  BY DEF ContainersInv
<1>2. /\ istate' = [istate EXCEPT ![a] = IF HasRow(a) THEN "error" ELSE @]
      /\ crashWrites[a] > 0 /\ crashWrites' = [crashWrites EXCEPT ![a] = @ - 1]
      /\ UNCHANGED <<rstate, containerId, container, built, prog, callbacks, marked,
                     worklist, commands, restarts, lost>>
  BY DEF CrashWrite, boundVars
<1>3. LifeTypes'
  <2>1. istate' \in [Apps -> IStates]
    BY <1>1, <1>2 DEF LifeTypes, IStates
  <2>2. crashWrites' \in [Apps -> Nat]
    BY <1>1, <1>2 DEF LifeTypes
  <2> QED
    BY <1>1, <1>2, <2>1, <2>2 DEF LifeTypes
<1>4. ~Rests(a)'
  BY <1>1, <1>2 DEF LifeTypes, Rests, HasRow, NoRow, PENDING_BACKUP
<1>5. ASSUME NEW b \in Apps, b # a
      PROVE  AppInv(b)'
  BY <1>1, <1>2, <1>5, SameKeeps DEF LifeTypes
<1>6. AppInv(a)'
  BY <1>1, <1>2, <1>4, DisturbKeeps
<1> QED
  BY <1>3, <1>5, <1>6 DEF ContainersInv

(* A task reads what it has to do. *)
LEMMA LoadKeeps ==
    ASSUME ContainersInv, NEW a \in Apps, Load(a)
    PROVE  ContainersInv'
<1> DEFINE todo == IF HasRow(a) THEN Program(istate[a], rstate[a]) ELSE <<>>
           code == IF HasRow(a) THEN "exited0" ELSE "exited50"
           read == [cmd |-> istate[a], todo |-> todo, code |-> code, fresh |-> TRUE]
<1>1. LifeTypes /\ \A b \in Apps : AppInv(b)
  BY DEF ContainersInv
<1>2. /\ prog' = [prog EXCEPT ![a] = read]
      /\ UNCHANGED <<istate, rstate, containerId, container, built, callbacks, marked,
                     crashWrites, worklist, commands, restarts>>
      /\ lost' \subseteq lost
  BY DEF Load, dbVars
<1>3. istate[a] \in IStates /\ rstate[a] \in RStates
  BY <1>1 DEF LifeTypes
<1>4. todo # <<>> =>
         /\ todo \in Seq(Steps)
         /\ \/ istate[a] = PENDING_BACKUP /\ todo = <<"done">>
            \/ istate[a] = "installed" /\ rstate[a] = PENDING_STOP /\ todo = Left(StopProgram, 1)
            \/ istate[a] = "installed" /\ todo = Left(StartProgram, 1)
            \/ istate[a] = PENDING_UNINSTALL /\ todo = Left(Uninstall, 1)
            \/ istate[a] \in Rebuilding /\ todo = Left(Reinstall, 1)
  BY <1>3, ProgramOfRow DEF HasRow
<1>5. todo \in Seq(Steps) /\ code \in {"exited0", "exited50"}
  BY <1>4, ProgramSteps
<1> HIDE DEF todo, code
<1>6. read \in Programs
  BY <1>3, <1>5 DEF Programs
<1>7. prog'[a] = read /\ prog'[a].cmd = istate[a] /\ prog'[a].todo = todo
  BY <1>1, <1>2 DEF LifeTypes
<1>8. LifeTypes'
  <2>1. prog' \in [Apps -> Programs]
    BY <1>1, <1>2, <1>6 DEF LifeTypes
  <2> HIDE DEF read
  <2> QED
    BY <1>1, <1>2, <2>1 DEF LifeTypes
<1>9. ASSUME NEW b \in Apps, b # a
      PROVE  AppInv(b)'
  BY <1>1, <1>2, <1>9, SameKeeps DEF LifeTypes
<1>10. AppInv(a)'
  <2>1. AppInv(a) /\ (Sound(a)' <=> Sound(a)) /\ (Rests(a)' <=> Rests(a))
    BY <1>1, <1>2 DEF Sound, Rests
  <2>2. CASE todo = <<>>
    BY <1>2, <1>7, <2>1, <2>2, IdleKeeps
  <2>3. CASE istate[a] = PENDING_BACKUP /\ todo = <<"done">>
    BY <1>7, <2>1, <2>3 DEF AppInv, Rests, ProgramFits
  <2>4. CASE istate[a] = "installed" /\ rstate[a] = PENDING_STOP /\ todo = Left(StopProgram, 1)
    <3>1. Stopping(a)'
      BY <1>2, <1>7, <2>4 DEF Stopping
    <3> QED
      BY <1>7, <2>1, <2>4, <3>1 DEF AppInv, Rests, ProgramFits
  <2>5. CASE istate[a] = "installed" /\ todo = Left(StartProgram, 1)
    <3>1. Starting(a)'
      BY <1>7, <2>5 DEF Starting
    <3> QED
      BY <1>7, <2>1, <2>5, <3>1 DEF AppInv, Rests, ProgramFits
  <2>6. CASE istate[a] = PENDING_UNINSTALL /\ todo = Left(Uninstall, 1)
    <3>1. Uninstalling(a)' /\ ~Rests(a)
      BY <1>7, <2>6 DEF Uninstalling, Rests, PENDING_UNINSTALL, PENDING_BACKUP
    <3> QED
      BY <1>7, <2>1, <2>6, <3>1 DEF AppInv, ProgramFits
  <2>7. CASE istate[a] \in Rebuilding /\ todo = Left(Reinstall, 1)
    <3>1. Reinstalling(a)'
      BY <1>7, <2>7 DEF Reinstalling
    <3>2. ~Rests(a)
      BY <2>7 DEF Rebuilding, Rests, PendingStates, InstallationCommands, PENDING_CONFIGURE,
         PENDING_UPDATE, PENDING_FORCE_UPDATE, PENDING_RESTORE, PENDING_BACKUP,
         PENDING_INSTALL, PENDING_UNINSTALL
    <3> QED
      BY <1>7, <2>1, <2>7, <3>1, <3>2 DEF AppInv, ProgramFits
  <2> QED
    BY <1>4, <2>2, <2>3, <2>4, <2>5, <2>6, <2>7
<1> QED
  BY <1>8, <1>9, <1>10 DEF ContainersInv

(* A call fails: the program ends, or only tells the database of it. *)
LEMMA FailKeeps ==
    ASSUME ContainersInv, NEW a \in Apps, Fail(a)
    PROVE  ContainersInv'
<1>1. LifeTypes /\ \A b \in Apps : AppInv(b)
  BY DEF ContainersInv
<1> DEFINE after == AfterFailure(prog[a].cmd)
           new == [prog[a] EXCEPT !.todo = after, !.code = "exited50"]
<1>2. /\ prog[a].todo \notin {<<>>, <<"failed">>}
      /\ prog' = [prog EXCEPT ![a] = new]
      /\ UNCHANGED <<istate, rstate, containerId, container, built, callbacks, marked,
                     crashWrites, worklist, commands, restarts, lost>>
  BY DEF Fail, dbVars
<1>3. after \in Seq(Steps) /\ after \in {<<>>, <<"failed">>}
      /\ (prog[a].cmd = "installed" => after = <<>>)
  BY ProgramSteps DEF AfterFailure
<1> HIDE DEF after
<1>4. new \in Programs /\ new.cmd = prog[a].cmd /\ new.todo = after
  BY <1>1, <1>3 DEF LifeTypes, Programs
<1> HIDE DEF new
<1>5. prog' \in [Apps -> Programs] /\ prog'[a] = new
  BY <1>1, <1>2, <1>4 DEF LifeTypes
<1>6. LifeTypes'
  BY <1>1, <1>2, <1>5 DEF LifeTypes
<1>7. ASSUME NEW b \in Apps, b # a
      PROVE  AppInv(b)'
  BY <1>1, <1>2, <1>7, SameKeeps DEF LifeTypes
<1>8. AppInv(a)'
  <2>1. AppInv(a) /\ (Sound(a)' <=> Sound(a)) /\ (Rests(a)' <=> Rests(a))
    BY <1>1, <1>2 DEF Sound, Rests
  <2>2. CASE after = <<>>
    BY <1>2, <1>4, <1>5, <2>1, <2>2, IdleKeeps
  <2>3. CASE after = <<"failed">> /\ prog[a].cmd # "installed"
    BY <1>2, <1>4, <1>5, <2>1, <2>3 DEF AppInv, ProgramFits
  <2> QED
    BY <1>3, <2>2, <2>3
<1> QED
  BY <1>6, <1>7, <1>8 DEF ContainersInv

\* What has no second try: a task cannot read its row or write its failure, or it
\* hangs, or a crash is not written.
Setback(a) == LoadFails(a) \/ FailureLost(a) \/ Hang(a) \/ CrashWriteLost(a)

(* Such a task does nothing more, and no row is changed. *)
LEMMA SetbackKeeps ==
    ASSUME ContainersInv, NEW a \in Apps, Setback(a)
    PROVE  ContainersInv'
<1>1. LifeTypes /\ \A b \in Apps : AppInv(b)
  BY DEF ContainersInv
<1>2. /\ UNCHANGED <<istate, rstate, containerId, container, built, callbacks, marked,
                     worklist, commands, restarts>>
      /\ lost' \subseteq lost \cup {a}
  BY DEF Setback, LoadFails, FailureLost, Hang, CrashWriteLost, dbVars, boundVars
<1>3. crashWrites' \in [Apps -> Nat]
  <2>1. crashWrites \in [Apps -> Nat]
    BY <1>1 DEF LifeTypes
  <2>2. CASE crashWrites' = crashWrites
    BY <2>1, <2>2
  <2>3. CASE CrashWriteLost(a)
    <3>1. crashWrites[a] > 0 /\ crashWrites' = [crashWrites EXCEPT ![a] = @ - 1]
      BY <2>3 DEF CrashWriteLost
    <3> QED
      BY <2>1, <3>1
  <2> QED
    BY <2>2, <2>3 DEF Setback, LoadFails, FailureLost, Hang
<1>4. /\ prog' \in [Apps -> Programs]
      /\ \A b \in Apps : \/ prog'[b].cmd = prog[b].cmd /\ prog'[b].todo = prog[b].todo
                         \/ prog'[b].todo = <<>>
  <2>1. prog \in [Apps -> Programs] /\ prog[a] \in Programs /\ istate[a] \in IStates
    BY <1>1 DEF LifeTypes
  <2>2. CASE LoadFails(a)
    <3> DEFINE new == [cmd |-> istate[a], todo |-> <<>>, code |-> "exited50", fresh |-> FALSE]
    <3>1. prog' = [prog EXCEPT ![a] = new]
      BY <2>2 DEF LoadFails
    <3>2. new \in Programs /\ new.todo = <<>>
      BY <2>1, ProgramSteps DEF Programs
    <3> HIDE DEF new
    <3> QED
      BY <2>1, <3>1, <3>2
  <2>3. CASE FailureLost(a)
    <3> DEFINE new == [prog[a] EXCEPT !.todo = <<>>]
    <3>1. prog' = [prog EXCEPT ![a] = new]
      BY <2>3 DEF FailureLost
    <3>2. new \in Programs /\ new.todo = <<>>
      BY <2>1, ProgramSteps DEF Programs
    <3> HIDE DEF new
    <3> QED
      BY <2>1, <3>1, <3>2
  <2>4. CASE Hang(a)
    <3> DEFINE new == [prog[a] EXCEPT !.code = "hung"]
    <3>1. prog' = [prog EXCEPT ![a] = new]
      BY <2>4 DEF Hang
    <3>2. new \in Programs /\ new.todo = prog[a].todo /\ new.cmd = prog[a].cmd
      BY <2>1 DEF Programs
    <3> HIDE DEF new
    <3> QED
      BY <2>1, <3>1, <3>2
  <2>5. CASE CrashWriteLost(a)
    BY <2>1, <2>5 DEF CrashWriteLost
  <2> QED
    BY <2>2, <2>3, <2>4, <2>5 DEF Setback
<1>5. LifeTypes'
  BY <1>1, <1>2, <1>3, <1>4 DEF LifeTypes
<1>6. ASSUME NEW b \in Apps
      PROVE  AppInv(b)'
  <2>1. CASE prog'[b].cmd = prog[b].cmd /\ prog'[b].todo = prog[b].todo
    BY <1>1, <1>2, <2>1, SameKeeps
  <2>2. CASE prog'[b].todo = <<>>
    BY <1>1, <1>2, <2>2, IdleKeeps
  <2> QED
    BY <1>4, <2>1, <2>2
<1> QED
  BY <1>5, <1>6 DEF ContainersInv

(* What a step of a program does to the app. *)
LEMMA StepEffect ==
    ASSUME LifeTypes, NEW a \in Apps, Step(a)
    PROVE  LET step == Head(prog[a].todo)
           IN  /\ prog[a].todo # <<>>
               /\ container'[a] = Docker(step, container[a])
               /\ rstate'[a] = CASE step = "stopped" -> "stopped"
                                 [] step = "started" -> "running"
                                 [] OTHER            -> rstate[a]
               /\ containerId'[a] = CASE step = "deleted" -> FALSE
                                      [] step = "created" -> TRUE
                                      [] OTHER            -> containerId[a]
               /\ istate'[a] = CASE step = "done"   -> "installed"
                                 [] step = "failed" -> StateAfterFailure(prog[a].cmd)
                                 [] step = "remove" -> "gone"
                                 [] OTHER           -> istate[a]
               /\ prog'[a].cmd = prog[a].cmd
               /\ prog'[a].todo = Tail(prog[a].todo)
<1> DEFINE step == Head(prog[a].todo)
<1>1. /\ container' = [container EXCEPT ![a] = Docker(step, @)]
      /\ rstate' = [rstate EXCEPT ![a] = CASE step = "stopped" -> "stopped"
                                           [] step = "started" -> "running"
                                           [] OTHER            -> @]
      /\ containerId' = [containerId EXCEPT ![a] = CASE step = "deleted" -> FALSE
                                                     [] step = "created" -> TRUE
                                                     [] OTHER            -> @]
      /\ istate' = [istate EXCEPT ![a] =
                      CASE step = "done"   -> "installed"
                        [] step = "failed" -> StateAfterFailure(prog[a].cmd)
                        [] step = "remove" -> "gone"
                        [] OTHER           -> @]
      /\ prog' = [prog EXCEPT ![a].todo = Tail(@)]
      /\ prog[a].todo # <<>>
  BY DEF Step
<1> HIDE DEF step
<1>2. /\ container \in [Apps -> {"none", "stopped", "running"}]
      /\ rstate \in [Apps -> RStates] /\ containerId \in [Apps -> BOOLEAN]
      /\ istate \in [Apps -> IStates] /\ prog \in [Apps -> Programs]
  BY DEF LifeTypes
<1>3. prog'[a] = [prog[a] EXCEPT !.todo = Tail(prog[a].todo)]
  BY <1>1, <1>2
<1>4. prog'[a].cmd = prog[a].cmd /\ prog'[a].todo = Tail(prog[a].todo)
  BY <1>2, <1>3 DEF Programs
<1>5. /\ container'[a] = Docker(step, container[a])
      /\ rstate'[a] = CASE step = "stopped" -> "stopped"
                        [] step = "started" -> "running"
                        [] OTHER            -> rstate[a]
  BY <1>1, <1>2
<1>6. /\ containerId'[a] = CASE step = "deleted" -> FALSE
                             [] step = "created" -> TRUE
                             [] OTHER            -> containerId[a]
      /\ istate'[a] = CASE step = "done"   -> "installed"
                        [] step = "failed" -> StateAfterFailure(prog[a].cmd)
                        [] step = "remove" -> "gone"
                        [] OTHER           -> istate[a]
  BY <1>1, <1>2
<1> QED
  BY <1>1, <1>4, <1>5, <1>6 DEF step

(* The same, read off for each step of the programs. *)
LEMMA StepTable ==
    ASSUME LifeTypes, NEW a \in Apps, Step(a), NEW step, step = Head(prog[a].todo)
    PROVE  /\ step = "stop" => container'[a] = IF container[a] = "running" THEN "stopped"
                                                                           ELSE container[a]
           /\ step = "delete" => container'[a] = "none"
           /\ step = "create" => container'[a] = "stopped"
           /\ step = "start"  => container'[a] = "running"
           /\ step \notin {"stop", "delete", "create", "start"} =>
                 container'[a] = container[a]
           /\ step = "stopped" => rstate'[a] = "stopped"
           /\ step = "started" => rstate'[a] = "running"
           /\ step \notin {"stopped", "started"} => rstate'[a] = rstate[a]
           /\ step = "deleted" => containerId'[a] = FALSE
           /\ step = "created" => containerId'[a] = TRUE
           /\ step \notin {"deleted", "created"} => containerId'[a] = containerId[a]
           /\ step = "done"   => istate'[a] = "installed"
           /\ step = "failed" => istate'[a] = StateAfterFailure(prog[a].cmd)
           /\ step = "remove" => istate'[a] = "gone"
           /\ step \notin {"done", "failed", "remove"} => istate'[a] = istate[a]
<1>1. container'[a] = Docker(step, container[a])
  BY StepEffect
<1>2. rstate'[a] = CASE step = "stopped" -> "stopped"
                     [] step = "started" -> "running"
                     [] OTHER            -> rstate[a]
  BY StepEffect
<1>3. containerId'[a] = CASE step = "deleted" -> FALSE
                          [] step = "created" -> TRUE
                          [] OTHER            -> containerId[a]
  BY StepEffect
<1>4. istate'[a] = CASE step = "done"   -> "installed"
                     [] step = "failed" -> StateAfterFailure(prog[a].cmd)
                     [] step = "remove" -> "gone"
                     [] OTHER           -> istate[a]
  BY StepEffect
<1>5. /\ step = "stop" => container'[a] = IF container[a] = "running" THEN "stopped"
                                                                      ELSE container[a]
      /\ step = "delete" => container'[a] = "none"
      /\ step = "create" => container'[a] = "stopped"
      /\ step = "start"  => container'[a] = "running"
      /\ step \notin {"stop", "delete", "create", "start"} => container'[a] = container[a]
  BY <1>1 DEF Docker
<1>6. /\ step = "stopped" => rstate'[a] = "stopped"
      /\ step = "started" => rstate'[a] = "running"
      /\ step \notin {"stopped", "started"} => rstate'[a] = rstate[a]
  BY <1>2
<1>7. /\ step = "deleted" => containerId'[a] = FALSE
      /\ step = "created" => containerId'[a] = TRUE
      /\ step \notin {"deleted", "created"} => containerId'[a] = containerId[a]
  BY <1>3
<1>8. /\ step = "done"   => istate'[a] = "installed"
      /\ step = "failed" => istate'[a] = StateAfterFailure(prog[a].cmd)
      /\ step = "remove" => istate'[a] = "gone"
      /\ step \notin {"done", "failed", "remove"} => istate'[a] = istate[a]
  BY <1>4
<1> QED
  BY <1>5, <1>6, <1>7, <1>8

LEMMA StepTypes ==
    ASSUME LifeTypes, NEW a \in Apps, Step(a)
    PROVE  LifeTypes' /\ \A b \in Apps \ {a} : /\ istate'[b] = istate[b]
                                               /\ rstate'[b] = rstate[b]
                                               /\ container'[b] = container[b]
                                               /\ containerId'[b] = containerId[b]
                                               /\ prog'[b] = prog[b]
<1> DEFINE step == Head(prog[a].todo)
<1>1. /\ container' = [container EXCEPT ![a] = Docker(step, @)]
      /\ rstate' = [rstate EXCEPT ![a] = CASE step = "stopped" -> "stopped"
                                           [] step = "started" -> "running"
                                           [] OTHER            -> @]
      /\ containerId' = [containerId EXCEPT ![a] = CASE step = "deleted" -> FALSE
                                                     [] step = "created" -> TRUE
                                                     [] OTHER            -> @]
      /\ istate' = [istate EXCEPT ![a] =
                      CASE step = "done"   -> "installed"
                        [] step = "failed" -> StateAfterFailure(prog[a].cmd)
                        [] step = "remove" -> "gone"
                        [] OTHER           -> @]
      /\ built' = [built EXCEPT ![a] = IF step = "create" THEN prog[a].fresh ELSE @]
      /\ prog' = [prog EXCEPT ![a].todo = Tail(@)]
      /\ UNCHANGED <<callbacks, marked, crashWrites, worklist, commands, restarts, lost>>
  BY DEF Step, boundVars
<1> HIDE DEF step
<1>2. /\ container \in [Apps -> {"none", "stopped", "running"}]
      /\ rstate \in [Apps -> RStates] /\ containerId \in [Apps -> BOOLEAN]
      /\ istate \in [Apps -> IStates] /\ built \in [Apps -> BOOLEAN]
      /\ prog \in [Apps -> Programs] /\ prog[a] \in Programs
  BY DEF LifeTypes
<1>3. container' \in [Apps -> {"none", "stopped", "running"}]
  <2>1. Docker(step, container[a]) \in {"none", "stopped", "running"}
    BY <1>2 DEF Docker
  <2> QED
    BY <1>1, <1>2, <2>1
<1>4. rstate' \in [Apps -> RStates]
  <2>1. {"stopped", "running", rstate[a]} \subseteq RStates
    BY <1>2 DEF RStates
  <2> HIDE DEF RStates
  <2> QED
    BY <1>1, <1>2, <2>1
<1>5. containerId' \in [Apps -> BOOLEAN]
  BY <1>1, <1>2
<1>6. istate' \in [Apps -> IStates]
  <2>1. {"installed", "gone", StateAfterFailure(prog[a].cmd), istate[a]} \subseteq IStates
    BY <1>2 DEF IStates, NoRow, StateAfterFailure
  <2> QED
    BY <1>1, <1>2, <2>1
<1>7. built' \in [Apps -> BOOLEAN]
  <2>1. prog[a].fresh \in BOOLEAN
    BY <1>2 DEF Programs
  <2> QED
    BY <1>1, <1>2, <2>1
<1>8. prog' \in [Apps -> Programs]
  <2>1. prog[a].todo \in Seq(Steps) /\ prog[a].todo # <<>>
    BY <1>2 DEF Programs, Step
  <2>2. Tail(prog[a].todo) \in Seq(Steps)
    BY <2>1, HeadTailProperties
  <2>3. [prog[a] EXCEPT !.todo = Tail(prog[a].todo)] \in Programs
    BY <1>2, <2>2 DEF Programs
  <2> QED
    BY <1>1, <1>2, <2>3
<1>9. LifeTypes'
  <2>1. UNCHANGED <<callbacks, marked, crashWrites, worklist, commands, restarts, lost>>
    BY <1>1
  <2> QED
    BY <1>3, <1>4, <1>5, <1>6, <1>7, <1>8, <2>1 DEF LifeTypes
<1>10. ASSUME NEW b \in Apps \ {a}
       PROVE  /\ istate'[b] = istate[b] /\ rstate'[b] = rstate[b]
              /\ container'[b] = container[b] /\ containerId'[b] = containerId[b]
              /\ prog'[b] = prog[b]
  BY <1>1, <1>2
<1> QED
  BY <1>9, <1>10

(* A step of a task that installs its app again. *)
LEMMA ReinstallStep ==
    ASSUME LifeTypes, NEW a \in Apps, Step(a), ~Rests(a), Reinstalling(a)
    PROVE  \/ ~Rests(a)' /\ Reinstalling(a)'
           \/ Sound(a)' /\ prog'[a].todo = <<>>
<1>1. PICK k \in 1 .. 9 : /\ prog[a].todo = Left(Reinstall, k)
                          /\ k >= 6 => container[a] # "none"
                          /\ k >= 7 => containerId[a]
                          /\ k >= 8 => container[a] = "running"
  BY DEF Reinstalling
<1>2. Head(prog[a].todo) = Reinstall[k] /\ Tail(prog[a].todo) = Left(Reinstall, k + 1)
  <2>1. Reinstall \in Seq(Steps) /\ k \in 1 .. Len(Reinstall)
    BY ProgramSteps
  <2> QED
    BY <1>1, <2>1, LeftOf
<1>3. Left(Reinstall, 10) = <<>>
  <2>1. Reinstall \in Seq(Steps) /\ Len(Reinstall) + 1 = 10
    BY ProgramSteps
  <2> QED
    BY <2>1, LeftEnds
<1>4. prog'[a].todo = Left(Reinstall, k + 1)
  BY <1>2, StepEffect
<1>5. Reinstall[k] \in {"stop", "stopped", "delete", "deleted", "create", "created",
                        "start", "started", "done"}
  BY DEF Reinstall
<1>6. CASE k < 9
  <2>1. Reinstall[k] # "done"
    BY <1>6 DEF Reinstall
  <2>2. istate'[a] = istate[a]
    BY <1>2, <1>5, <2>1, StepTable
  <2>3. ~Rests(a)'
    BY <2>2 DEF Rests
  <2>4. /\ k + 1 >= 6 => container'[a] # "none"
        /\ k + 1 >= 8 => container'[a] = "running"
    <3>1. CASE k < 5
      BY <3>1
    <3>2. CASE k = 5
      <4>1. Reinstall[k] = "create"
        BY <3>2 DEF Reinstall
      <4>2. container'[a] = "stopped"
        BY <1>2, <4>1, StepTable
      <4> QED
        BY <3>2, <4>2
    <3>3. CASE k = 6
      <4>1. Reinstall[k] = "created"
        BY <3>3 DEF Reinstall
      <4>2. container'[a] = container[a]
        BY <1>2, <4>1, StepTable
      <4> QED
        BY <1>1, <3>3, <4>2
    <3>4. CASE k = 7
      <4>1. Reinstall[k] = "start"
        BY <3>4 DEF Reinstall
      <4> QED
        BY <1>2, <3>4, <4>1, StepTable
    <3>5. CASE k = 8
      <4>1. Reinstall[k] = "started"
        BY <3>5 DEF Reinstall
      <4>2. container'[a] = container[a]
        BY <1>2, <4>1, StepTable
      <4> QED
        BY <1>1, <3>5, <4>2
    <3> QED
      BY <1>6, <3>1, <3>2, <3>3, <3>4, <3>5
  <2>5. k + 1 >= 7 => containerId'[a]
    <3>1. CASE k < 6
      BY <3>1
    <3>2. CASE k = 6
      <4>1. Reinstall[k] = "created"
        BY <3>2 DEF Reinstall
      <4> QED
        BY <1>2, <4>1, StepTable
    <3>3. CASE k \in {7, 8}
      <4>1. Reinstall[k] \in {"start", "started"}
        BY <3>3 DEF Reinstall
      <4>2. containerId'[a] = containerId[a]
        BY <1>2, <4>1, StepTable
      <4> QED
        BY <1>1, <3>3, <4>2
    <3> QED
      BY <1>6, <3>1, <3>2, <3>3
  <2>6. Reinstalling(a)'
    BY <1>4, <1>6, <2>4, <2>5 DEF Reinstalling
  <2> QED
    BY <2>3, <2>6
<1>7. CASE k = 9
  <2>1. Reinstall[k] = "done"
    BY <1>7 DEF Reinstall
  <2>2. container'[a] = container[a] /\ containerId'[a] = containerId[a]
    BY <1>2, <2>1, StepTable
  <2> QED
    BY <1>1, <1>3, <1>4, <1>7, <2>2 DEF Sound
<1> QED
  BY <1>6, <1>7

(* A step of a task that uninstalls its app. *)
LEMMA UninstallStep ==
    ASSUME LifeTypes, NEW a \in Apps, Step(a), ~Rests(a), Uninstalling(a)
    PROVE  ~Rests(a)' /\ (prog'[a].todo = <<>> \/ Uninstalling(a)')
<1>1. PICK k \in 1 .. 5 : prog[a].todo = Left(Uninstall, k)
  BY DEF Uninstalling
<1>2. Uninstall \in Seq(Steps) /\ k \in 1 .. Len(Uninstall) /\ Len(Uninstall) + 1 = 6
  BY ProgramSteps
<1>3. Head(prog[a].todo) = Uninstall[k] /\ prog'[a].todo = Left(Uninstall, k + 1)
  <2>1. Head(prog[a].todo) = Uninstall[k] /\ Tail(prog[a].todo) = Left(Uninstall, k + 1)
    BY <1>1, <1>2, LeftOf
  <2> QED
    BY <2>1, StepEffect
<1>4. Left(Uninstall, 6) = <<>>
  BY <1>2, LeftEnds
<1>5. Uninstall[k] \in {"stop", "stopped", "delete", "deleted", "remove"}
  BY DEF Uninstall
<1>6. istate'[a] \in {istate[a], "gone"}
  BY <1>3, <1>5, StepTable
<1>7. ~Rests(a)'
  BY <1>6 DEF Rests, PENDING_BACKUP
<1>8. prog'[a].todo = <<>> \/ Uninstalling(a)'
  BY <1>3, <1>4 DEF Uninstalling
<1> QED
  BY <1>7, <1>8

(* A step of a task that stops or starts its app. *)
LEMMA StopStep ==
    ASSUME LifeTypes, NEW a \in Apps, Step(a), Sound(a), Stopping(a)
    PROVE  Sound(a)' /\ (prog'[a].todo = <<>> \/ Stopping(a)')
<1>1. PICK k \in 1 .. 2 : prog[a].todo = Left(StopProgram, k) /\ rstate[a] = PENDING_STOP
  BY DEF Stopping
<1>2. /\ StopProgram \in Seq(Steps) /\ k \in 1 .. Len(StopProgram)
      /\ Len(StopProgram) + 1 = 3
  BY ProgramSteps
<1>3. Head(prog[a].todo) = StopProgram[k] /\ prog'[a].todo = Left(StopProgram, k + 1)
  <2>1. Head(prog[a].todo) = StopProgram[k] /\ Tail(prog[a].todo) = Left(StopProgram, k + 1)
    BY <1>1, <1>2, LeftOf
  <2> QED
    BY <2>1, StepEffect
<1>4. Left(StopProgram, 3) = <<>>
  BY <1>2, LeftEnds
<1>5. CASE k = 1
  <2>1. StopProgram[k] = "stop"
    BY <1>5 DEF StopProgram
  <2>2. /\ container'[a] = IF container[a] = "running" THEN "stopped" ELSE container[a]
        /\ rstate'[a] = rstate[a] /\ containerId'[a] = containerId[a]
    BY <1>3, <2>1, StepTable
  <2>3. Sound(a)'
    BY <1>1, <2>2 DEF Sound, PENDING_STOP
  <2>4. Stopping(a)'
    BY <1>1, <1>3, <1>5, <2>2 DEF Stopping
  <2> QED
    BY <2>3, <2>4
<1>6. CASE k = 2
  <2>1. StopProgram[k] = "stopped"
    BY <1>6 DEF StopProgram
  <2>2. /\ container'[a] = container[a] /\ rstate'[a] = "stopped"
        /\ containerId'[a] = containerId[a]
    BY <1>3, <2>1, StepTable
  <2>3. Sound(a)'
    BY <2>2 DEF Sound
  <2> QED
    BY <1>3, <1>4, <1>6, <2>3
<1> QED
  BY <1>5, <1>6

LEMMA StartStep ==
    ASSUME LifeTypes, NEW a \in Apps, Step(a), Sound(a), Starting(a)
    PROVE  Sound(a)' /\ (prog'[a].todo = <<>> \/ Starting(a)')
<1>1. PICK k \in 1 .. 2 : /\ prog[a].todo = Left(StartProgram, k)
                          /\ k = 2 => container[a] = "running"
  BY DEF Starting
<1>2. /\ StartProgram \in Seq(Steps) /\ k \in 1 .. Len(StartProgram)
      /\ Len(StartProgram) + 1 = 3
  BY ProgramSteps
<1>3. Head(prog[a].todo) = StartProgram[k] /\ prog'[a].todo = Left(StartProgram, k + 1)
  <2>1. Head(prog[a].todo) = StartProgram[k] /\ Tail(prog[a].todo) = Left(StartProgram, k + 1)
    BY <1>1, <1>2, LeftOf
  <2> QED
    BY <2>1, StepEffect
<1>4. Left(StartProgram, 3) = <<>>
  BY <1>2, LeftEnds
<1>5. CASE k = 1
  <2>1. StartProgram[k] = "start"
    BY <1>5 DEF StartProgram
  <2>2. container'[a] = "running" /\ containerId'[a] = containerId[a]
    BY <1>3, <2>1, StepTable
  <2>3. Sound(a)'
    BY <2>2 DEF Sound
  <2>4. Starting(a)'
    BY <1>3, <1>5, <2>2 DEF Starting
  <2> QED
    BY <2>3, <2>4
<1>6. CASE k = 2
  <2>1. StartProgram[k] = "started"
    BY <1>6 DEF StartProgram
  <2>2. container'[a] = container[a] /\ containerId'[a] = containerId[a]
    BY <1>3, <2>1, StepTable
  <2>3. Sound(a)'
    BY <1>1, <1>6, <2>2 DEF Sound
  <2> QED
    BY <1>3, <1>4, <1>6, <2>3
<1> QED
  BY <1>5, <1>6

(* The one step that is left after a backup, or after a failure. *)
LEMMA LastStep ==
    ASSUME LifeTypes, NEW a \in Apps, Step(a), NEW last \in {"done", "failed"},
           prog[a].todo = <<last>>
    PROVE  /\ prog'[a].todo = <<>>
           /\ Sound(a) => Sound(a)'
           /\ istate'[a] = IF last = "done" THEN "installed" ELSE StateAfterFailure(prog[a].cmd)
<1>1. Head(prog[a].todo) = last /\ Tail(prog[a].todo) = <<>>
  OBVIOUS
<1>2. prog'[a].todo = <<>>
  BY <1>1, StepEffect
<1>3. /\ container'[a] = container[a] /\ rstate'[a] = rstate[a]
      /\ containerId'[a] = containerId[a]
      /\ istate'[a] = IF last = "done" THEN "installed" ELSE StateAfterFailure(prog[a].cmd)
  BY <1>1, StepTable
<1>4. Sound(a) => Sound(a)'
  BY <1>3 DEF Sound
<1> QED
  BY <1>2, <1>3, <1>4

LEMMA StepKeeps ==
    ASSUME ContainersInv, NEW a \in Apps, Step(a)
    PROVE  ContainersInv'
<1>1. LifeTypes /\ \A b \in Apps : AppInv(b)
  BY DEF ContainersInv
<1>2. LifeTypes' /\ \A b \in Apps \ {a} : /\ istate'[b] = istate[b]
                                          /\ rstate'[b] = rstate[b]
                                          /\ container'[b] = container[b]
                                          /\ containerId'[b] = containerId[b]
                                          /\ prog'[b] = prog[b]
  BY <1>1, StepTypes
<1>3. ASSUME NEW b \in Apps, b # a
      PROVE  AppInv(b)'
  BY <1>1, <1>2, <1>3, SameKeeps
<1>4. prog[a].todo # <<>> /\ prog'[a].cmd = prog[a].cmd
  BY <1>1, StepEffect
<1> SUFFICES AppInv(a)'
  BY <1>2, <1>3 DEF ContainersInv
<1>5. CASE prog[a].cmd = PENDING_BACKUP /\ prog[a].todo \in {<<"done">>, <<"failed">>} /\ Sound(a)
  <2>1. CASE prog[a].todo = <<"done">>
    <3>1. prog'[a].todo = <<>> /\ Sound(a)'
      BY <1>1, <1>5, <2>1, LastStep
    <3> QED
      BY <3>1 DEF AppInv, ProgramFits
  <2>2. CASE prog[a].todo = <<"failed">>
    <3>1. prog'[a].todo = <<>> /\ Sound(a)'
      BY <1>1, <1>5, <2>2, LastStep
    <3> QED
      BY <3>1 DEF AppInv, ProgramFits
  <2> QED
    BY <1>5, <2>1, <2>2
<1>6. CASE prog[a].cmd = "installed" /\ Sound(a) /\ (Stopping(a) \/ Starting(a))
  <2>1. Sound(a)'
    BY <1>1, <1>6, StopStep, StartStep
  <2>2. prog'[a].todo = <<>> \/ Stopping(a)' \/ Starting(a)'
    BY <1>1, <1>6, StopStep, StartStep
  <2>3. ProgramFits(a)'
    BY <1>4, <1>6, <2>1, <2>2 DEF ProgramFits
  <2> QED
    BY <2>1, <2>3 DEF AppInv
<1>7. CASE /\ prog[a].cmd \in Rebuilding \cup {PENDING_UNINSTALL} /\ ~Rests(a)
           /\ prog[a].todo = <<"failed">>
  <2>1. prog'[a].todo = <<>>
    BY <1>1, <1>7, LastStep
  <2>2. istate'[a] = StateAfterFailure(prog[a].cmd)
    <3>1. "failed" # "done" /\ "failed" \in {"done", "failed"}
      OBVIOUS
    <3> QED
      BY <1>1, <1>7, <3>1, LastStep
  <2>3. prog[a].cmd # PENDING_BACKUP
    BY <1>7 DEF Rebuilding, PENDING_UNINSTALL, PENDING_BACKUP
  <2>4. ~Rests(a)'
    BY <2>2, <2>3 DEF Rests, StateAfterFailure, PENDING_BACKUP
  <2> QED
    BY <2>1, <2>4 DEF AppInv, ProgramFits
<1>8. CASE prog[a].cmd = PENDING_UNINSTALL /\ ~Rests(a) /\ Uninstalling(a)
  <2>1. ~Rests(a)'
    BY <1>1, <1>8, UninstallStep
  <2>2. prog'[a].todo = <<>> \/ Uninstalling(a)'
    BY <1>1, <1>8, UninstallStep
  <2>3. ProgramFits(a)'
    BY <1>4, <1>8, <2>1, <2>2 DEF ProgramFits
  <2> QED
    BY <2>1, <2>3 DEF AppInv
<1>9. CASE prog[a].cmd \in Rebuilding /\ ~Rests(a) /\ Reinstalling(a)
  <2>1. CASE ~Rests(a)' /\ Reinstalling(a)'
    <3>1. ProgramFits(a)'
      BY <1>4, <1>9, <2>1 DEF ProgramFits
    <3> QED
      BY <2>1, <3>1 DEF AppInv
  <2>2. CASE Sound(a)' /\ prog'[a].todo = <<>>
    BY <2>2 DEF AppInv, ProgramFits
  <2> QED
    BY <1>1, <1>9, <2>1, <2>2, ReinstallStep
<1>10. ProgramFits(a) /\ prog[a].todo # <<>>
  BY <1>1, <1>4 DEF AppInv
<1> QED
  BY <1>5, <1>6, <1>7, <1>8, <1>9, <1>10 DEF ProgramFits

LEMMA LifeInitContainers == LifeInit => ContainersInv
<1> SUFFICES ASSUME LifeInit PROVE ContainersInv
  OBVIOUS
<1>1. NoProgram \in Programs
  BY ProgramSteps DEF NoProgram, Programs
<1>2. LifeTypes
  <2>1. /\ commands \in 0 .. MaxCommands /\ restarts \in 0 .. MaxRestarts
    BY AppLifecycleAssumption DEF LifeInit, AppLifecycleAssumption
  <2>2. istate \in [Apps -> IStates] /\ rstate \in [Apps -> RStates]
    BY DEF LifeInit, IStates, RStates, NoRow
  <2> QED
    BY <1>1, <2>1, <2>2 DEF LifeInit, LifeTypes
<1>3. ASSUME NEW a \in Apps
      PROVE  AppInv(a)
  <2>1. istate[a] = "fresh" /\ prog[a].todo = <<>>
    BY DEF LifeInit, NoProgram
  <2> QED
    BY <2>1 DEF AppInv, Rests, ProgramFits, PENDING_BACKUP
<1> QED
  BY <1>2, <1>3 DEF ContainersInv

(* The steps that change the task manager and leave rows and containers alone. *)
LEMMA ManagerStepKeeps ==
    ASSUME ContainersInv,
           \/ \E a \in Apps : \/ RequestUninstall(a)
                              \/ Callback(a)
                              \/ UninstallCallback(a)
                              \/ Exit(a)
                              \/ Crash(a)
                              \/ Reap(a)
           \/ Resume
           \/ QueryFails
           \/ \E op \in ExclusiveOperations : BeginOther(op)
           \/ EndOther
           \/ PlatformReady
           \/ PlatformStop
    PROVE  ContainersInv'
<1>1. /\ callbacks \in [Apps -> Nat] /\ marked \in [Apps -> Nat] /\ crashWrites \in [Apps -> Nat]
      /\ worklist \in {NotRead} \cup SUBSET Apps
      /\ commands \in 0 .. MaxCommands /\ restarts \in 0 .. MaxRestarts
      /\ lost \subseteq Apps
  BY DEF ContainersInv, LifeTypes
<1>2. ASSUME NEW a \in Apps, RequestUninstall(a)
      PROVE  Counters' /\ UNCHANGED <<dbVars, container, built>> /\ prog' = ProgramsAfter(mem')
  BY <1>1, <1>2, AppLifecycleAssumption DEF RequestUninstall, Counters, AppLifecycleAssumption
<1>3. ASSUME NEW a \in Apps, Callback(a)
      PROVE  Counters' /\ UNCHANGED <<dbVars, container, built>> /\ prog' = ProgramsAfter(mem')
  <2>1. callbacks' \in [Apps -> Nat]
    BY <1>1, <1>3 DEF Callback
  <2> QED
    BY <1>1, <1>3, <2>1 DEF Callback, Counters, boundVars
<1>4. ASSUME NEW a \in Apps, UninstallCallback(a)
      PROVE  Counters' /\ UNCHANGED <<dbVars, container, built>> /\ prog' = ProgramsAfter(mem')
  <2>1. marked' \in [Apps -> Nat]
    BY <1>1, <1>4 DEF UninstallCallback
  <2> QED
    BY <1>1, <1>4, <2>1 DEF UninstallCallback, Counters, boundVars
<1>5. ASSUME NEW a \in Apps, Exit(a)
      PROVE  Counters' /\ UNCHANGED <<dbVars, container, built>> /\ prog' = ProgramsAfter(mem')
  BY <1>1, <1>5 DEF Exit, Counters, boundVars
<1>6. ASSUME NEW a \in Apps, Crash(a)
      PROVE  Counters' /\ UNCHANGED <<dbVars, container, built>> /\ prog' = ProgramsAfter(mem')
  BY <1>1, <1>6 DEF Crash, Counters
<1>7. ASSUME NEW a \in Apps, Reap(a)
      PROVE  Counters' /\ UNCHANGED <<dbVars, container, built>> /\ prog' = ProgramsAfter(mem')
  <2>1. crashWrites' \in [Apps -> Nat]
    BY <1>1, <1>7 DEF Reap
  <2> QED
    BY <1>1, <1>7, <2>1 DEF Reap, Counters, boundVars
<1>8. ASSUME Resume
      PROVE  Counters' /\ UNCHANGED <<dbVars, container, built>> /\ prog' = ProgramsAfter(mem')
  BY <1>1, <1>8 DEF Resume, Counters, boundVars
<1>9. ASSUME AppsUntouched
      PROVE  Counters' /\ UNCHANGED <<dbVars, container, built>> /\ prog' = ProgramsAfter(mem')
  BY <1>1, <1>9 DEF AppsUntouched, Counters, boundVars
<1>10. ASSUME \/ QueryFails
              \/ \E op \in ExclusiveOperations : BeginOther(op)
              \/ EndOther
              \/ PlatformReady
              \/ PlatformStop
       PROVE  AppsUntouched
  BY <1>10 DEF QueryFails, BeginOther, EndOther, PlatformReady, PlatformStop
<1>11. Counters' /\ UNCHANGED <<dbVars, container, built>> /\ prog' = ProgramsAfter(mem')
  BY <1>2, <1>3, <1>4, <1>5, <1>6, <1>7, <1>8, <1>9, <1>10
<1> QED
  BY <1>11, ManagerKeeps

(* A new box process: the rows and the containers are what they were. *)
LEMMA RestartBoxKeeps ==
    ASSUME ContainersInv, RestartBox
    PROVE  ContainersInv'
<1>1. NoProgram \in Programs
  BY ProgramSteps DEF NoProgram, Programs
<1>2. prog' \in [Apps -> Programs] /\ \A b \in Apps : prog'[b] \in {prog[b], NoProgram}
  BY <1>1 DEF RestartBox
<1>3. /\ commands \in 0 .. MaxCommands /\ restarts \in 0 .. MaxRestarts
      /\ lost \subseteq Apps
  BY DEF ContainersInv, LifeTypes
<1>4. Counters'
  BY <1>3, AppLifecycleAssumption DEF RestartBox, Counters, AppLifecycleAssumption
<1> QED
  BY <1>2, <1>4, QuietKeeps DEF RestartBox

(* What reads the database or waits changes no row. *)
LEMMA WaitKeeps ==
    ASSUME ContainersInv,
           \/ \E a \in Apps : UninstallNotFound(a) \/ Boot(a)
           \/ ReadApps
           \/ UNCHANGED lifeVars
    PROVE  ContainersInv'
<1>1. UNCHANGED <<dbVars, container, built, prog, callbacks, marked, crashWrites, commands,
                  restarts, lost>>
  BY DEF UninstallNotFound, Boot, ReadApps, lifeVars, boundVars
<1>2. worklist' = worklist \/ worklist' \in SUBSET Apps
  BY DEF UninstallNotFound, Boot, ReadApps, lifeVars
<1>3. Counters' /\ prog' \in [Apps -> Programs]
  BY <1>1, <1>2 DEF ContainersInv, LifeTypes, Counters
<1> QED
  BY <1>1, <1>3, QuietKeeps

LEMMA LifeNextKeeps ==
    ASSUME ContainersInv, [LifeNext]_vars
    PROVE  ContainersInv'
<1>1. ASSUME NEW a \in Apps, NEW c \in Commands \ {PENDING_UNINSTALL}, SetCommand(a, c)
      PROVE  ContainersInv'
  BY <1>1, SetCommandKeeps
<1>2. ASSUME NEW a \in Apps, MarkUninstall(a)
      PROVE  ContainersInv'
  BY <1>2, MarkUninstallKeeps
<1>3. ASSUME NEW a \in Apps, Load(a)
      PROVE  ContainersInv'
  BY <1>3, LoadKeeps
<1>4. ASSUME NEW a \in Apps, Step(a)
      PROVE  ContainersInv'
  BY <1>4, StepKeeps
<1>5. ASSUME NEW a \in Apps, Fail(a)
      PROVE  ContainersInv'
  BY <1>5, FailKeeps
<1>6. ASSUME NEW a \in Apps, CrashWrite(a)
      PROVE  ContainersInv'
  BY <1>6, CrashWriteKeeps
<1>7. ASSUME \/ \E a \in Apps : RequestUninstall(a) \/ Callback(a) \/ UninstallCallback(a)
                                  \/ Exit(a) \/ Crash(a) \/ Reap(a)
             \/ Resume
             \/ QueryFails
             \/ \E op \in ExclusiveOperations : BeginOther(op)
             \/ EndOther
             \/ PlatformReady
             \/ PlatformStop
      PROVE  ContainersInv'
  BY <1>7, ManagerStepKeeps
<1>8. ASSUME \/ \E a \in Apps : UninstallNotFound(a) \/ Boot(a)
             \/ ReadApps
             \/ UNCHANGED lifeVars
      PROVE  ContainersInv'
  BY <1>8, WaitKeeps
<1>9. CASE RestartBox
  BY <1>9, RestartBoxKeeps
<1>10. CASE UNCHANGED vars
  BY <1>8, <1>10 DEF vars
<1>11. ASSUME NEW a \in Apps, Setback(a)
       PROVE  ContainersInv'
  BY <1>11, SetbackKeeps
<1> QED
  BY <1>1, <1>2, <1>3, <1>4, <1>5, <1>6, <1>7, <1>8, <1>9, <1>10, <1>11 DEF LifeNext, Setback

(* The row of an app, its container and what its task has left to do fit. *)
THEOREM ContainersFit == LifeSpec => []ContainersInv
<1>1. LifeInit => ContainersInv
  BY LifeInitContainers
<1>2. ContainersInv /\ [LifeNext]_vars => ContainersInv'
  BY LifeNextKeeps
<1> QED
  BY <1>1, <1>2, PTL DEF LifeSpec

(***************************************************************************)
(* For any number of apps: an app the database calls installed has a       *)
(* container, and the database knows it, whatever commands were given and  *)
(* wherever tasks were killed, failed or lost the power.                   *)
(***************************************************************************)
THEOREM InstalledAppsHaveContainers == LifeSpec => []InstalledHasContainer
<1>1. ContainersInv => InstalledHasContainer
  BY DEF ContainersInv, AppInv, Rests, Sound, InstalledHasContainer
<1> QED
  BY <1>1, ContainersFit, PTL

(***************************************************************************)
(* For any number of apps: one the database calls installed and running    *)
(* runs, even while a task is at work on it, for a task that stops or      *)
(* replaces the container finds the row in another state, and no command   *)
(* that is accepted in the meantime brings it back.                        *)
(***************************************************************************)
THEOREM RunningAppsRun == LifeSpec => []RunningIsRunning
<1>1. ContainersInv => RunningIsRunning
  BY DEF ContainersInv, AppInv, Rests, Sound, RunningIsRunning
<1> QED
  BY <1>1, ContainersFit, PTL

-----------------------------------------------------------------------------
(***************************************************************************)
(* The queue before the first task.                                        *)
(*                                                                         *)
(* The promise Wakeable is about a box in which nothing is at work: nobody *)
(* but the query of resumeTasks can start a queued app then.  As long as   *)
(* this is so, no task has ended, so that no row has been settled, and no  *)
(* crash is still to be written to one: an app in the queue is one with    *)
(* work to do.  This takes Setups = 1: a second platform.start may pause   *)
(* and resume the tasks of a box at work, and then a crash is written over *)
(* the row of an app that is queued already.                               *)
(***************************************************************************)

\* What resumeTasks asks the database for.
HasWork(a) ==
    /\ HasRow(a)
    /\ ~(istate[a] = "installed" /\ rstate[a] = "running")
    /\ istate[a] # "error"

\* No task of this process has ended: none was started.
Untouched == timers > 0 \/ ~Awake(mem, job)

TimerKnown == readyTimer <=> timers > 0

BeforeReady ==
    timers > 0 => mem.paused /\ Active(mem) = {} /\ resuming = 0 /\ worklist = NotRead

QueueHasWork ==
    Untouched => \A a \in Apps :
                    /\ crashWrites[a] = 0
                    /\ callbacks[a] > 0 \/ marked[a] > 0 \/ a \in Queued(mem) => HasWork(a)

WorklistIsNew == ~Awake(mem, job) /\ worklist # NotRead => Queued(mem) \subseteq worklist

WakeInv == TimerKnown /\ BeforeReady /\ QueueHasWork /\ WorklistIsNew

(* The apps in a queue without some apps were in the queue. *)
LEMMA WithoutQueues ==
    ASSUME NEW m, m.pending \in Seq(Apps), NEW R,
           NEW n, n.pending = Without(m.pending, R)
    PROVE  Queued(n) \subseteq Queued(m)
<1> DEFINE left == {m.pending[i] : i \in DOMAIN m.pending} \ R
<1>1. Without(m.pending, R) \in Seq(left) \/ Without(m.pending, R) = <<>>
  BY DEF Without
<1>2. CASE n.pending \in Seq(left)
  <2>1. \A i \in DOMAIN n.pending : n.pending[i] \in left
    BY <1>2
  <2> QED
    BY <2>1 DEF Queued
<1>3. CASE n.pending = <<>>
  BY <1>3 DEF Queued
<1> QED
  BY <1>1, <1>2, <1>3

(* startAppTask while the platform is not ready. *)
LEMMA PausedStart ==
    ASSUME NEW m, m \in Memory, m.paused, NEW a \in Apps, Active(m) = {}
    PROVE  LET n == StartAppTask(m, a)
           IN  /\ n.paused /\ Active(n) = {}
               /\ Queued(n) = Queued(m) \cup {a}
<1> DEFINE q == Append(m.pending, a)
           n == [m EXCEPT !.pending = q]
<1>1. StartAppTask(m, a) = n
  BY DEF StartAppTask, MustQueue
<1>2. m.pending \in Seq(Apps)
  BY DEF Memory
<1>3. n.paused = m.paused /\ n.tasks = m.tasks /\ n.pending = q
  BY DEF Memory
<1>4. Active(n) = {}
  BY <1>3 DEF Active
<1>5. Queued(n) = Queued(m) \cup {a}
  <2>1. /\ Len(q) = Len(m.pending) + 1
        /\ \A i \in 1 .. Len(m.pending) : q[i] = m.pending[i]
        /\ q[Len(m.pending) + 1] = a
        /\ DOMAIN q = 1 .. Len(q) /\ DOMAIN m.pending = 1 .. Len(m.pending)
        /\ Len(m.pending) \in Nat
    BY <1>2
  <2> HIDE DEF q
  <2> QED
    BY <1>3, <2>1 DEF Queued
<1> QED
  BY <1>1, <1>3, <1>4, <1>5

(* startAppTask in a box in which nothing is at work. *)
LEMMA IdleStart ==
    ASSUME NEW m, Consistent(m, NoOperation), ~m.paused, NEW a \in Apps, Active(m) = {}
    PROVE  Active(StartAppTask(m, a)) # {}
<1>1. ~MustQueue(m)
  BY QueuedIsAwake DEF Jobs
<1>2. StartAppTask(m, a) = Fork(m, a)
  BY <1>1 DEF StartAppTask
<1>3. a \in Active(Fork(m, a))
  BY <1>1, ForkConsistent DEF Jobs
<1> QED
  BY <1>2, <1>3

(* A step of an app's life is one of the task manager, since the apps that wait in   *)
(* a box at rest are in the list of resumeTasks.                                     *)
LEMMA LifeIsManager ==
    ASSUME LifeTypes, WakeInv, [LifeNext]_vars
    PROVE  [Next]_tmVars
<1>1. ASSUME NEW a \in Apps, RequestUninstall(a) \/ Callback(a) \/ UninstallCallback(a)
                             \/ UninstallNotFound(a) \/ Boot(a) \/ Reap(a)
      PROVE  \/ StopForUninstall(a)
             \/ RestartAppTask(a)
             \/ StartForUninstall(a)
             \/ DropUninstall(a)
             \/ TaskReady(a)
             \/ TaskExit(a)
  BY <1>1 DEF RequestUninstall, Callback, UninstallCallback, UninstallNotFound, Boot, Reap
<1>2. ASSUME NEW a \in Apps, Exit(a) \/ Crash(a)
      PROVE  \E t \in Ended : TaskEnds(a, t)
  <2>1. CASE Exit(a)
    <3>1. prog[a].code \in Ended
      BY <2>1 DEF LifeTypes, Programs, Ended, Exit, Busy
    <3> QED
      BY <2>1, <3>1 DEF Exit
  <2>2. CASE Crash(a)
    BY <2>2 DEF Crash, Ended
  <2> QED
    BY <1>2, <2>1, <2>2
<1>3. ASSUME NEW a \in Apps, \/ \E c \in Commands : SetCommand(a, c)
                             \/ MarkUninstall(a)
                             \/ Load(a)
                             \/ Step(a)
                             \/ Fail(a)
                             \/ CrashWrite(a)
                             \/ Setback(a)
      PROVE  UNCHANGED tmVars
  BY <1>3 DEF SetCommand, MarkUninstall, Load, Step, Fail, CrashWrite, Setback, LoadFails,
     FailureLost, Hang, CrashWriteLost
<1>4. CASE ReadApps \/ UNCHANGED vars
  BY <1>4 DEF ReadApps, vars
<1>5. CASE Resume
  <2>1. worklist \in SUBSET Apps /\ ResumeApps(worklist) /\ worklist # NotRead
    BY <1>5 DEF LifeTypes, Resume
  <2>2. Wakeable(worklist)
    <3> SUFFICES ASSUME ~mem.paused, Active(mem) = {}, job = NoOperation
                 PROVE  Queued(mem) \subseteq worklist
      BY DEF Wakeable
    <3>1. CASE mem.pending = <<>>
      BY <3>1 DEF Queued
    <3>2. CASE mem.pending # <<>>
      <4>1. ~Awake(mem, job)
        BY <3>2 DEF Awake
      <4> QED
        BY <2>1, <4>1 DEF WakeInv, WorklistIsNew
    <3> QED
      BY <3>1, <3>2
  <2> QED
    BY <2>1, <2>2 DEF Next
<1>6. CASE QueryFails \/ EndOther \/ PlatformReady \/ PlatformStop \/ RestartBox
  BY <1>6 DEF QueryFails, EndOther, PlatformReady, PlatformStop, RestartBox, Next
<1>7. CASE \E op \in ExclusiveOperations : BeginOther(op)
  BY <1>7 DEF BeginOther, Next
<1>8. CASE \E a \in Apps : \/ RequestUninstall(a) \/ Callback(a) \/ UninstallCallback(a)
                           \/ UninstallNotFound(a) \/ Boot(a) \/ Reap(a)
                           \/ Exit(a) \/ Crash(a)
  BY <1>1, <1>2, <1>8 DEF Next
<1>9. CASE \E a \in Apps : \/ \E c \in Commands : SetCommand(a, c)
                           \/ MarkUninstall(a)
                           \/ Load(a)
                           \/ Step(a)
                           \/ Fail(a)
                           \/ CrashWrite(a)
                           \/ Setback(a)
  BY <1>3, <1>9
<1> QED
  BY <1>4, <1>5, <1>6, <1>7, <1>8, <1>9 DEF LifeNext, Setback

(* With one setup there is at most one timer, and no listener while it runs. *)
LEMMA OneTimer ==
    ASSUME Setups = 1, IInv, WakeInv
    PROVE  /\ timers \in {0, 1} /\ (readyTimer <=> timers = 1) /\ readyTimer \in BOOLEAN
           /\ timers = 1 => mem.listeners = 0
           /\ mem \in Memory /\ job \in Jobs /\ Consistent(mem, job) /\ ~mem.aborted
<1>1. timers \in Nat /\ readyTimer \in BOOLEAN /\ mem \in Memory /\ job \in Jobs
  BY DEF IInv, TypeOK, Jobs
<1>2. mem.listeners \in 0 .. 1 /\ mem.listeners + timers <= 1
  BY <1>1 DEF Memory, IInv, ResumesBounded
<1>3. readyTimer <=> timers > 0
  BY DEF WakeInv, TimerKnown
<1> QED
  BY <1>1, <1>2, <1>3 DEF IInv

(* Once a task was started, or the queue is empty, the rest follows by itself. *)
LEMMA TouchedKeeps ==
    ASSUME Setups = 1, IInv, WakeInv, [Next]_tmVars, [LifeNext]_vars, ~RestartBox, ~Untouched
    PROVE  WakeInv'
<1>1. timers = 0 /\ Awake(mem, job)
  BY OneTimer DEF Untouched
<1>2. Awake(mem', job')
  BY <1>1, NextKeeps DEF StaysAwake
<1>3. timers' = 0 /\ ~readyTimer'
  <2>1. timers = 0 /\ ~readyTimer
    BY <1>1, OneTimer
  <2>2. CASE PauseTasks
    BY <2>1, <2>2 DEF PauseTasks
  <2>3. CASE ResumeTasks
    BY <2>1, <2>3 DEF ResumeTasks
  <2>4. ASSUME \E a \in Apps : \/ Boot(a) \/ Reap(a) \/ Callback(a) \/ RequestUninstall(a)
                               \/ UninstallNotFound(a) \/ UninstallCallback(a)
                               \/ Exit(a) \/ Crash(a)
        PROVE  UNCHANGED <<timers, readyTimer>>
    BY <2>4 DEF Boot, Reap, Callback, RequestUninstall, UninstallNotFound, UninstallCallback,
                Exit, Crash, TaskReady, TaskEnds, TaskExit, RestartAppTask, StopForUninstall,
                DropUninstall, StartForUninstall
  <2>5. ASSUME \/ EndOther \/ QueryFails \/ Resume
               \/ \E op \in ExclusiveOperations : BeginOther(op)
        PROVE  UNCHANGED <<timers, readyTimer>>
    BY <2>5 DEF EndOther, QueryFails, Resume, BeginOther, EndExclusive, CommitExclusive,
                ResumeFails, BeginExclusive, ResumeApps
  <2>6. ASSUME \/ \E a \in Apps : \/ \E c \in Commands : SetCommand(a, c)
                                  \/ MarkUninstall(a) \/ Load(a) \/ Step(a) \/ Fail(a)
                                  \/ CrashWrite(a) \/ Setback(a)
               \/ ReadApps
               \/ UNCHANGED vars
        PROVE  UNCHANGED <<timers, readyTimer>>
    BY <2>6 DEF SetCommand, MarkUninstall, Load, Step, Fail, CrashWrite, ReadApps, vars, tmVars,
                Setback, LoadFails, FailureLost, Hang, CrashWriteLost
  <2> QED
    BY <2>1, <2>2, <2>3, <2>4, <2>5, <2>6 DEF LifeNext, PlatformReady, PlatformStop, Setback
<1> QED
  BY <1>2, <1>3 DEF WakeInv, TimerKnown, BeforeReady, QueueHasWork, WorklistIsNew, Untouched

(* Nothing is at work in an untouched box. *)
LEMMA UntouchedIsIdle ==
    ASSUME WakeInv, Untouched
    PROVE  /\ Active(mem) = {}
           /\ \A a \in Apps : mem.tasks[a] = "none"
           /\ timers > 0 => mem.paused /\ resuming = 0 /\ worklist = NotRead
           /\ ~(timers > 0) => ~mem.paused /\ mem.pending # <<>> /\ job = NoOperation
           /\ \A a \in Apps :
                 /\ crashWrites[a] = 0
                 /\ callbacks[a] > 0 \/ marked[a] > 0 \/ a \in Queued(mem) => HasWork(a)
<1>1. Active(mem) = {}
  BY DEF WakeInv, BeforeReady, Untouched, Awake
<1>2. \A a \in Apps : mem.tasks[a] = "none"
  BY <1>1 DEF Active
<1> QED
  BY <1>1, <1>2 DEF WakeInv, BeforeReady, QueueHasWork, Untouched, Awake

(* A command that is accepted, or an uninstall that is marked, is work to do. *)
LEMMA CommandsAreWork ==
    ASSUME LifeTypes, WakeInv, Untouched, NEW a \in Apps,
           MarkUninstall(a) \/ \E c \in Commands \ {PENDING_UNINSTALL} : SetCommand(a, c)
    PROVE  WakeInv'
<1> USE DEF PENDING_CONFIGURE, PENDING_UPDATE, PENDING_FORCE_UPDATE, PENDING_RESTORE,
            PENDING_BACKUP, PENDING_INSTALL, PENDING_UNINSTALL, PENDING_START, PENDING_STOP
<1>1. /\ istate \in [Apps -> IStates] /\ rstate \in [Apps -> RStates]
      /\ callbacks \in [Apps -> Nat] /\ marked \in [Apps -> Nat]
  BY DEF LifeTypes
<1>2. UNCHANGED <<tmVars, crashWrites, worklist>>
  BY DEF MarkUninstall, SetCommand
<1>3. UNCHANGED <<mem, job, timers, readyTimer, resuming, crashWrites, worklist>>
  BY <1>2 DEF tmVars
<1>4. HasWork(a)'
  <2>1. CASE MarkUninstall(a)
    <3>1. istate'[a] = PENDING_UNINSTALL
      BY <1>1, <2>1 DEF MarkUninstall
    <3> QED
      BY <3>1 DEF HasWork, HasRow, NoRow
  <2>2. ASSUME NEW c \in Commands \ {PENDING_UNINSTALL}, SetCommand(a, c)
        PROVE  HasWork(a)'
    <3>1. c \in InstallationCommands \cup RunCommands \cup {PENDING_INSTALL}
      BY AppLifecycleAssumption DEF AppLifecycleAssumption
    <3>2. CASE c \in RunCommands
      <4>1. Allowed(a, c) /\ rstate' = [rstate EXCEPT ![a] = c] /\ istate' = istate
        BY <2>2, <3>2 DEF SetCommand
      <4>2. istate[a] = "installed"
        BY <3>2, <4>1 DEF Allowed, RunCommands
      <4>3. rstate'[a] = c /\ istate'[a] = "installed"
        BY <1>1, <4>1, <4>2
      <4> QED
        BY <3>2, <4>3 DEF HasWork, HasRow, NoRow, RunCommands
    <3>3. CASE c \notin RunCommands
      <4>1. istate' = [istate EXCEPT ![a] = c]
        BY <2>2, <3>3 DEF SetCommand
      <4>2. istate'[a] = c
        BY <1>1, <4>1
      <4>3. c \in InstallationCommands \cup {PENDING_INSTALL}
        BY <3>1, <3>3
      <4> QED
        BY <4>2, <4>3 DEF HasWork, HasRow, NoRow, InstallationCommands
    <3> QED
      BY <3>2, <3>3
  <2> QED
    BY <2>1, <2>2
<1>5. ASSUME NEW b \in Apps, b # a
      PROVE  istate'[b] = istate[b] /\ rstate'[b] = rstate[b] /\ callbacks'[b] = callbacks[b]
             /\ marked'[b] = marked[b]
  BY <1>1, <1>5 DEF MarkUninstall, SetCommand
<1>6. ASSUME NEW b \in Apps
      PROVE  /\ crashWrites'[b] = 0
             /\ callbacks'[b] > 0 \/ marked'[b] > 0 \/ b \in Queued(mem') => HasWork(b)'
  <2>1. CASE b = a
    BY <1>3, <1>4, <2>1, UntouchedIsIdle
  <2>2. CASE b # a
    BY <1>3, <1>5, <2>2, UntouchedIsIdle DEF HasWork, HasRow
  <2> QED
    BY <2>1, <2>2
<1>7. QueueHasWork'
  BY <1>6 DEF QueueHasWork
<1> QED
  BY <1>3, <1>7 DEF WakeInv, TimerKnown, BeforeReady, WorklistIsNew

(* What a start of a, or a stop of it, makes of the queue. *)
LEMMA UntouchedManager ==
    ASSUME Setups = 1, IInv, WakeInv, Untouched, NEW a \in Apps,
           RestartAppTask(a) \/ StartForUninstall(a) \/ StopForUninstall(a)
    PROVE  /\ UNCHANGED <<job, timers, readyTimer, resuming>>
           /\ timers > 0 => mem'.paused /\ Active(mem') = {}
           /\ StopForUninstall(a) => Queued(mem') \subseteq Queued(mem)
           /\ \/ Queued(mem') \subseteq Queued(mem)
              \/ timers > 0 /\ Queued(mem') \subseteq Queued(mem) \cup {a}
              \/ timers = 0 /\ Awake(mem', job')
<1>1. /\ Active(mem) = {} /\ mem.tasks[a] = "none"
      /\ timers > 0 => mem.paused
      /\ ~(timers > 0) => ~mem.paused /\ job = NoOperation
  BY UntouchedIsIdle
<1>2. timers \in {0, 1} /\ mem \in Memory /\ Consistent(mem, job) /\ job \in Jobs
  BY OneTimer
<1>3. mem.pending \in Seq(Apps)
  BY <1>2 DEF Memory
<1>4. UNCHANGED <<job, timers, readyTimer, resuming>>
  BY DEF RestartAppTask, StartForUninstall, StopForUninstall
<1> DEFINE rest == Without(mem.pending, {a})
           m == [mem EXCEPT !.pending = rest]
<1>5. /\ m.paused = mem.paused /\ m.tasks = mem.tasks /\ m.pending = rest
      /\ Active(m) = {} /\ m \in Memory /\ Consistent(m, job)
      /\ Queued(m) \subseteq Queued(mem)
  <2>1. rest \in Seq(Apps)
    BY <1>3, WithoutIsRest
  <2>2. m.pending = rest
    BY <1>2 DEF Memory
  <2>3. Queued(m) \subseteq Queued(mem)
    BY <1>3, <2>2, WithoutQueues
  <2> HIDE DEF rest
  <2>4. Consistent(m, job) /\ Gentle(mem, m) /\ m.tasks = mem.tasks /\ Active(m) = Active(mem)
    BY <1>2, <2>1, PendingConsistent
  <2> QED
    BY <1>1, <2>2, <2>3, <2>4 DEF Consistent, Gentle
<1> HIDE DEF m, rest
<1>6. ASSUME NEW n, n \in {mem, m}
      PROVE  /\ timers > 0 => /\ StartAppTask(n, a).paused /\ Active(StartAppTask(n, a)) = {}
                              /\ Queued(StartAppTask(n, a)) \subseteq Queued(mem) \cup {a}
             /\ timers = 0 => Active(StartAppTask(n, a)) # {}
  <2>1. /\ n \in Memory /\ n.paused = mem.paused /\ Active(n) = {}
        /\ Consistent(n, job) /\ Queued(n) \subseteq Queued(mem)
    BY <1>1, <1>2, <1>5, <1>6
  <2>2. CASE timers > 0
    BY <1>1, <2>1, <2>2, PausedStart
  <2>3. CASE timers = 0
    BY <1>1, <2>1, <2>3, IdleStart
  <2> QED
    BY <1>2, <2>2, <2>3
<1>7. ASSUME RestartAppTask(a) \/ StartForUninstall(a)
      PROVE  \E n \in {mem, m} : mem' = StartAppTask(n, a)
  BY <1>1, <1>7 DEF RestartAppTask, StartForUninstall, Active, m, rest
<1>8. ASSUME StopForUninstall(a)
      PROVE  mem' = m
  BY <1>1, <1>8 DEF StopForUninstall, Active, m, rest
<1>9. StopForUninstall(a) => Queued(mem') \subseteq Queued(mem)
  BY <1>5, <1>8
<1>10. CASE RestartAppTask(a) \/ StartForUninstall(a)
  <2>1. PICK n \in {mem, m} : mem' = StartAppTask(n, a)
    BY <1>7, <1>10
  <2>2. CASE timers > 0
    BY <1>4, <1>6, <1>9, <2>1, <2>2
  <2>3. CASE timers = 0
    BY <1>4, <1>6, <1>9, <2>1, <2>3 DEF Awake
  <2> QED
    BY <1>2, <2>2, <2>3
<1>11. CASE StopForUninstall(a)
  BY <1>1, <1>4, <1>5, <1>8, <1>9, <1>11
<1> QED
  BY <1>10, <1>11

(* Only apps with work to do join the queue. *)
LEMMA StartsAreWork ==
    ASSUME Setups = 1, IInv, LifeTypes, WakeInv, Untouched, NEW a \in Apps,
           Callback(a) \/ UninstallCallback(a) \/ RequestUninstall(a)
    PROVE  WakeInv'
<1>1. /\ callbacks \in [Apps -> Nat] /\ marked \in [Apps -> Nat]
      /\ timers \in {0, 1}
  BY OneTimer DEF LifeTypes
<1>2. UNCHANGED <<istate, rstate, crashWrites, worklist>>
  BY DEF Callback, UninstallCallback, RequestUninstall, dbVars
<1>3. \/ RequestUninstall(a) /\ StopForUninstall(a)
      \/ callbacks[a] > 0 /\ RestartAppTask(a)
      \/ marked[a] > 0 /\ StartForUninstall(a)
  BY DEF Callback, UninstallCallback, RequestUninstall
<1>4. /\ UNCHANGED <<job, timers, readyTimer, resuming>>
      /\ timers > 0 => mem'.paused /\ Active(mem') = {}
      /\ RequestUninstall(a) => Queued(mem') \subseteq Queued(mem)
      /\ \/ Queued(mem') \subseteq Queued(mem)
         \/ timers > 0 /\ Queued(mem') \subseteq Queued(mem) \cup {a}
         \/ timers = 0 /\ Awake(mem', job')
  BY <1>3, UntouchedManager DEF RequestUninstall
<1>5. TimerKnown' /\ BeforeReady'
  BY <1>2, <1>4 DEF WakeInv, TimerKnown, BeforeReady
<1>6. CASE timers = 0 /\ Awake(mem', job')
  <2>1. ~(timers' > 0) /\ Awake(mem', job')
    BY <1>4, <1>6
  <2> QED
    BY <1>5, <2>1 DEF WakeInv, QueueHasWork, WorklistIsNew, Untouched
<1>7. CASE ~(timers = 0 /\ Awake(mem', job'))
  <2>1. ASSUME NEW b \in Apps, b \in Queued(mem'), b \notin Queued(mem)
        PROVE  b = a /\ (callbacks[a] > 0 \/ marked[a] > 0)
    <3>1. b = a /\ ~(Queued(mem') \subseteq Queued(mem))
      BY <1>4, <1>7, <2>1
    <3>2. ~RequestUninstall(a)
      BY <1>4, <3>1
    <3> QED
      BY <1>3, <3>1, <3>2
  <2>2. ASSUME NEW b \in Apps
        PROVE  /\ callbacks'[b] > 0 => callbacks[b] > 0
               /\ marked'[b] > 0 => marked[b] > 0
    BY <1>1 DEF Callback, UninstallCallback, RequestUninstall
  <2>3. ASSUME NEW b \in Apps
        PROVE  /\ crashWrites'[b] = 0
               /\ callbacks'[b] > 0 \/ marked'[b] > 0 \/ b \in Queued(mem') => HasWork(b)'
    <3>1. HasWork(b) => HasWork(b)'
      BY <1>2 DEF HasWork, HasRow
    <3> QED
      BY <1>2, <2>1, <2>2, <3>1, UntouchedIsIdle
  <2>4. QueueHasWork'
    BY <2>3 DEF QueueHasWork
  <2>5. WorklistIsNew'
    <3>1. CASE timers > 0
      BY <1>2, <3>1, UntouchedIsIdle DEF WorklistIsNew
    <3>2. CASE timers = 0
      <4>1. Queued(mem') \subseteq Queued(mem)
        BY <1>4, <1>7, <3>2
      <4>2. ~Awake(mem, job)
        BY <3>2 DEF Untouched
      <4> QED
        BY <1>2, <4>1, <4>2 DEF WakeInv, WorklistIsNew
    <3> QED
      BY <1>1, <3>1, <3>2
  <2> QED
    BY <1>5, <2>4, <2>5 DEF WakeInv
<1> QED
  BY <1>6, <1>7

(* Before the first task no task can end, fail or be found dead. *)
LEMMA NothingEnds ==
    ASSUME LifeTypes, WakeInv, Untouched, NEW a \in Apps
    PROVE  /\ ~Boot(a) /\ ~Load(a) /\ ~Step(a) /\ ~Fail(a) /\ ~Exit(a) /\ ~Crash(a)
           /\ ~Reap(a) /\ ~CrashWrite(a) /\ ~Setback(a)
<1>1. mem.tasks[a] = "none" /\ crashWrites[a] = 0
  BY UntouchedIsIdle
<1>2. ~Busy(a)
  BY <1>1 DEF Busy
<1>3. ~Boot(a) /\ ~Load(a)
  BY <1>1 DEF Boot, TaskReady, Load
<1>4. ~Step(a) /\ ~Fail(a) /\ ~Exit(a)
  BY <1>2 DEF Step, Fail, Exit
<1>5. ~Crash(a) /\ ~Reap(a)
  <2>1. "none" \notin Live \cup Ended /\ "none" # "ready"
    BY DEF Live, Ended
  <2> QED
    BY <1>1, <2>1 DEF Crash, TaskEnds, Reap, TaskExit
<1>6. ~CrashWrite(a) /\ ~Setback(a)
  BY <1>1, <1>2 DEF CrashWrite, Setback, LoadFails, FailureLost, Hang, CrashWriteLost
<1> QED
  BY <1>3, <1>4, <1>5, <1>6

(* A step that changes no row and asks for nothing, and leaves the queue as it is. *)
LEMMA QueueStays ==
    ASSUME WakeInv, Untouched, UNCHANGED <<istate, rstate, crashWrites, callbacks, marked>>,
           Queued(mem') \subseteq Queued(mem)
    PROVE  QueueHasWork'
<1>1. ASSUME NEW b \in Apps
      PROVE  /\ crashWrites'[b] = 0
             /\ callbacks'[b] > 0 \/ marked'[b] > 0 \/ b \in Queued(mem') => HasWork(b)'
  BY UntouchedIsIdle DEF HasWork, HasRow
<1> QED
  BY <1>1 DEF QueueHasWork

(* The query finds what is in the queue, and its answer starts it. *)
LEMMA QueryKeeps ==
    ASSUME Setups = 1, IInv, LifeTypes, WakeInv, Untouched, ReadApps \/ Resume \/ QueryFails
    PROVE  WakeInv'
<1>1. timers = 0 /\ ~Awake(mem, job)
  <2>1. resuming > 0
    BY DEF ReadApps, Resume, ResumeApps, QueryFails, ResumeFails
  <2>2. ~(timers > 0)
    BY <2>1, UntouchedIsIdle
  <2> QED
    BY <2>2, OneTimer DEF Untouched
<1>2. CASE ReadApps
  <2>1. UNCHANGED <<mem, job, timers, readyTimer, istate, rstate, crashWrites, callbacks, marked>>
    BY <1>2 DEF ReadApps, tmVars, dbVars
  <2>2. worklist' = {a \in Apps : HasWork(a)}
    BY <1>2 DEF ReadApps, HasWork
  <2>3. Queued(mem) \subseteq worklist'
    <3>1. Queued(mem) \subseteq Apps
      BY OneTimer DEF Memory, Queued
    <3> QED
      BY <2>2, <3>1, UntouchedIsIdle
  <2>4. QueueHasWork'
    BY <2>1, QueueStays
  <2> QED
    BY <1>1, <2>1, <2>3, <2>4 DEF WakeInv, TimerKnown, BeforeReady, WorklistIsNew
<1>3. CASE Resume
  <2>1. worklist \in SUBSET Apps /\ ResumeApps(worklist) /\ worklist # NotRead
    BY <1>3 DEF LifeTypes, Resume
  <2>2. Wakeable(worklist)
    BY <1>1, <2>1 DEF WakeInv, WorklistIsNew, Wakeable
  <2>3. Awake(mem', job')
    BY <2>1, <2>2, ResumeAppsKeeps
  <2>4. UNCHANGED <<timers, readyTimer>>
    BY <2>1 DEF ResumeApps
  <2> QED
    BY <1>1, <2>3, <2>4 DEF WakeInv, TimerKnown, BeforeReady, QueueHasWork, WorklistIsNew, Untouched
<1>4. CASE QueryFails
  <2>1. UNCHANGED <<mem, job, timers, readyTimer, istate, rstate, crashWrites, callbacks, marked,
                    worklist>>
    BY <1>4 DEF QueryFails, ResumeFails, AppsUntouched, dbVars
  <2>2. QueueHasWork'
    BY <2>1, QueueStays
  <2> QED
    BY <1>1, <2>1, <2>2 DEF WakeInv, TimerKnown, BeforeReady, WorklistIsNew
<1> QED
  BY <1>2, <1>3, <1>4

(* A backup, an update or a migration. *)
LEMMA OtherKeeps ==
    ASSUME Setups = 1, IInv, LifeTypes, WakeInv, Untouched,
           EndOther \/ \E op \in ExclusiveOperations : BeginOther(op)
    PROVE  WakeInv'
<1>1. UNCHANGED <<timers, readyTimer, resuming, istate, rstate, crashWrites, callbacks, marked,
                  worklist>>
  BY DEF EndOther, BeginOther, EndExclusive, CommitExclusive, BeginExclusive, AppsUntouched, dbVars
<1>2. /\ mem \in Memory /\ job \in Jobs /\ Consistent(mem, job) /\ ~mem.aborted
      /\ timers \in {0, 1} /\ (timers = 1 => mem.listeners = 0)
  BY OneTimer
<1>3. CASE \E op \in ExclusiveOperations : BeginOther(op)
  <2>1. PICK op \in ExclusiveOperations : BeginExclusive(op)
    BY <1>3 DEF BeginOther
  <2>2. mem' = [mem EXCEPT !.lock = Lock(@, op)] /\ job' = op
    BY <2>1 DEF BeginExclusive
  <2>3. /\ mem'.tasks = mem.tasks /\ mem'.pending = mem.pending /\ mem'.paused = mem.paused
        /\ job' # NoOperation
    BY <1>2, <2>2, Names DEF Memory
  <2>4. Awake(mem', job') /\ Active(mem') = Active(mem) /\ Queued(mem') = Queued(mem)
    BY <2>3 DEF Awake, Active, Queued
  <2>5. QueueHasWork'
    BY <1>1, <2>4, QueueStays
  <2> QED
    BY <1>1, <2>3, <2>4, <2>5 DEF WakeInv, TimerKnown, BeforeReady, WorklistIsNew
<1>4. CASE EndOther /\ CommitExclusive
  <2>1. UNCHANGED <<mem, job>>
    BY <1>4 DEF CommitExclusive
  <2>2. QueueHasWork'
    BY <1>1, <2>1, QueueStays
  <2> QED
    BY <1>1, <2>1, <2>2 DEF WakeInv, TimerKnown, BeforeReady, WorklistIsNew
<1>5. CASE EndOther /\ EndExclusive
  <2>1. job # NoOperation /\ mem' = UnlockAndNotify(mem, job)
    BY <1>5 DEF EndExclusive
  <2>2. timers = 1 /\ mem.listeners = 0
    BY <1>2, <2>1, UntouchedIsIdle
  <2>3. /\ mem'.tasks = mem.tasks /\ mem'.pending = mem.pending /\ mem'.paused = mem.paused
    BY <1>2, <2>1, <2>2 DEF UnlockAndNotify, Memory
  <2>4. Active(mem') = Active(mem) /\ Queued(mem') = Queued(mem) /\ mem'.paused
    BY <2>2, <2>3, UntouchedIsIdle DEF Active, Queued
  <2>5. QueueHasWork'
    BY <1>1, <2>4, QueueStays
  <2>6. Awake(mem', job')
    BY <2>4 DEF Awake
  <2> QED
    BY <1>1, <2>4, <2>5, <2>6 DEF WakeInv, TimerKnown, BeforeReady, WorklistIsNew
<1> QED
  BY <1>3, <1>4, <1>5 DEF EndOther

(* The timer of platform.start, and platform.stop, which clears it. *)
LEMMA PlatformKeeps ==
    ASSUME Setups = 1, IInv, LifeTypes, WakeInv, Untouched, PlatformReady \/ PlatformStop
    PROVE  WakeInv'
<1>1. UNCHANGED <<istate, rstate, crashWrites, callbacks, marked, worklist>>
  BY DEF PlatformReady, PlatformStop, AppsUntouched, dbVars
<1>2. /\ mem \in Memory /\ job \in Jobs /\ Consistent(mem, job)
      /\ timers \in {0, 1} /\ (readyTimer <=> timers = 1)
  BY OneTimer
<1>3. CASE PlatformReady
  <2>1. timers = 1 /\ timers' = 0 /\ readyTimer' \in {known \in BOOLEAN : known => timers' > 0}
    BY <1>2, <1>3 DEF PlatformReady, ResumeTasks
  <2>2. ~readyTimer'
    BY <2>1
  <2>3. mem'.pending = mem.pending
    BY <1>2, <1>3 DEF PlatformReady, ResumeTasks, Memory
  <2>4. worklist' = NotRead
    BY <1>1, <2>1, UntouchedIsIdle
  <2>5. QueueHasWork'
    BY <1>1, <2>3, QueueStays DEF Queued
  <2> QED
    BY <2>1, <2>2, <2>4, <2>5 DEF WakeInv, TimerKnown, BeforeReady, WorklistIsNew
<1>4. CASE PlatformStop
  <2>1. timers' = 0 /\ ~readyTimer'
    BY <1>2, <1>4 DEF PlatformStop, PauseTasks
  <2>2. Awake(mem', job')
    <3> DEFINE m == [mem EXCEPT !.pending   = <<>>,
                                !.listeners = IF @ > 0 THEN @ - 1 ELSE 0,
                                !.paused    = TRUE]
    <3>1. StopNext(m, Active(mem))
      BY <1>4 DEF PlatformStop, PauseTasks
    <3>2. m.paused
      BY <1>2 DEF Memory
    <3>3. Active(mem) = {}
      BY UntouchedIsIdle
    <3> HIDE DEF m
    <3>4. \E skipped : mem' = [m EXCEPT !.pending = Without(@, skipped)]
      BY <3>1, <3>3 DEF StopNext
    <3>5. mem'.paused
      BY <3>2, <3>4
    <3> QED
      BY <3>5 DEF Awake
  <2> QED
    BY <2>1, <2>2 DEF WakeInv, TimerKnown, BeforeReady, QueueHasWork, WorklistIsNew, Untouched
<1> QED
  BY <1>3, <1>4

(* A new process starts untouched. *)
LEMMA RestartWakes ==
    ASSUME RestartBox
    PROVE  WakeInv'
<1>1. /\ mem' = InitialMemory /\ timers' = 1 /\ readyTimer' = TRUE /\ resuming' = 0
      /\ worklist' = NotRead
  BY DEF RestartBox, Restart
<1>2. mem'.paused /\ mem'.pending = <<>> /\ mem'.tasks = [a \in Apps |-> "none"]
  BY <1>1 DEF InitialMemory
<1>3. Active(mem') = {} /\ Queued(mem') = {} /\ Awake(mem', job')
  BY <1>2 DEF Active, Queued, Awake
<1>4. \A a \in Apps : callbacks'[a] = 0 /\ marked'[a] = 0 /\ crashWrites'[a] = 0
  BY DEF RestartBox
<1>5. QueueHasWork'
  BY <1>3, <1>4 DEF QueueHasWork
<1> QED
  BY <1>1, <1>2, <1>3, <1>5 DEF WakeInv, TimerKnown, BeforeReady, WorklistIsNew

LifeInv == IInv /\ ContainersInv /\ WakeInv

LEMMA LifeInitInv ==
    ASSUME Setups = 1
    PROVE  LifeInit => LifeInv
<1> SUFFICES ASSUME LifeInit PROVE LifeInv
  OBVIOUS
<1>1. IInv /\ ContainersInv
  BY InitInv, LifeInitContainers DEF LifeInit
<1>2. mem.paused /\ mem.pending = <<>> /\ mem.tasks = [a \in Apps |-> "none"]
  BY DEF LifeInit, Init, InitialMemory
<1>3. Active(mem) = {} /\ Queued(mem) = {} /\ Awake(mem, job)
  BY <1>2 DEF Active, Queued, Awake
<1>4. timers = 1 /\ readyTimer = TRUE /\ resuming = 0 /\ worklist = NotRead
  BY DEF LifeInit, Init
<1>5. \A a \in Apps : callbacks[a] = 0 /\ marked[a] = 0 /\ crashWrites[a] = 0
  BY DEF LifeInit
<1>6. QueueHasWork
  BY <1>3, <1>5 DEF QueueHasWork
<1>7. WakeInv
  BY <1>2, <1>3, <1>4, <1>6 DEF WakeInv, TimerKnown, BeforeReady, WorklistIsNew
<1> QED
  BY <1>1, <1>7 DEF LifeInv

(* The queue of an untouched box, step by step. *)
LEMMA UntouchedKeeps ==
    ASSUME Setups = 1, IInv, LifeTypes, WakeInv, Untouched, [LifeNext]_vars, ~RestartBox
    PROVE  WakeInv'
<1>1. CASE \E a \in Apps : MarkUninstall(a) \/ \E c \in Commands \ {PENDING_UNINSTALL} :
                                                   SetCommand(a, c)
  BY <1>1, CommandsAreWork
<1>2. CASE \E a \in Apps : Callback(a) \/ UninstallCallback(a) \/ RequestUninstall(a)
  BY <1>2, StartsAreWork
<1>3. CASE \E a \in Apps : \/ Boot(a) \/ Load(a) \/ Step(a) \/ Fail(a) \/ Exit(a) \/ Crash(a)
                           \/ Reap(a) \/ CrashWrite(a) \/ Setback(a)
  BY <1>3, NothingEnds
<1>4. CASE ReadApps \/ Resume \/ QueryFails
  BY <1>4, QueryKeeps
<1>5. CASE EndOther \/ \E op \in ExclusiveOperations : BeginOther(op)
  BY <1>5, OtherKeeps
<1>6. CASE PlatformReady \/ PlatformStop
  BY <1>6, PlatformKeeps
<1>7. CASE UNCHANGED vars \/ \E a \in Apps : UninstallNotFound(a)
  <2>1. UNCHANGED <<mem, job, timers, readyTimer, resuming, istate, rstate, crashWrites,
                    callbacks, marked, worklist>>
    BY <1>7 DEF vars, tmVars, lifeVars, dbVars, UninstallNotFound, DropUninstall
  <2>2. QueueHasWork'
    BY <2>1, QueueStays
  <2> QED
    BY <2>1, <2>2 DEF WakeInv, TimerKnown, BeforeReady, WorklistIsNew
<1> QED
  BY <1>1, <1>2, <1>3, <1>4, <1>5, <1>6, <1>7 DEF LifeNext, Setback

LEMMA LifeStep ==
    ASSUME Setups = 1, LifeInv, [LifeNext]_vars
    PROVE  LifeInv' /\ [Next]_tmVars
<1>1. IInv /\ ContainersInv /\ WakeInv /\ LifeTypes
  BY DEF LifeInv, ContainersInv
<1>2. [Next]_tmVars
  BY <1>1, LifeIsManager
<1>3. IInv' /\ ContainersInv'
  BY <1>1, <1>2, NextKeeps, LifeNextKeeps
<1>4. WakeInv'
  <2>1. CASE RestartBox
    BY <2>1, RestartWakes
  <2>2. CASE ~RestartBox /\ Untouched
    BY <1>1, <2>2, UntouchedKeeps
  <2>3. CASE ~RestartBox /\ ~Untouched
    BY <1>1, <1>2, <2>3, TouchedKeeps
  <2> QED
    BY <2>1, <2>2, <2>3
<1> QED
  BY <1>2, <1>3, <1>4 DEF LifeInv

(***************************************************************************)
(* As long as platform.start runs once in a process, the life of the apps  *)
(* implements the task manager: what the first part proves of tasks        *)
(* that end whenever they like, and of a query that finds whatever the     *)
(* promise Wakeable allows, holds of tasks that run the programs of        *)
(* apptask.js and of the query as the database answers it.                 *)
(***************************************************************************)
THEOREM LifeImplementsManager ==
    ASSUME Setups = 1
    PROVE  LifeSpec => Spec
<1>1. LifeInit => LifeInv /\ Init
  BY LifeInitInv DEF LifeInit
<1>2. LifeInv /\ [LifeNext]_vars => LifeInv' /\ [Next]_tmVars
  BY LifeStep
<1> QED
  BY <1>1, <1>2, PTL DEF LifeSpec, Spec

THEOREM LifeInvariance ==
    ASSUME Setups = 1
    PROVE  LifeSpec => []LifeInv
<1>1. LifeInit => LifeInv
  BY LifeInitInv
<1>2. LifeInv /\ [LifeNext]_vars => LifeInv'
  BY LifeStep
<1> QED
  BY <1>1, <1>2, PTL DEF LifeSpec

(* Every variable of the apps holds a value of its type. *)
THEOREM LifeTypeCorrect ==
    ASSUME Setups = 1
    PROVE  LifeSpec => []LifeTypeOK
<1>1. LifeInv => LifeTypeOK
  BY DEF LifeInv, IInv, ContainersInv, LifeTypes, Programs, LifeTypeOK
<1> QED
  BY <1>1, LifeInvariance, PTL

(***************************************************************************)
(* An app that was queued while the platform was not ready is in the list  *)
(* resumeTasks gets from the database: the promise of the task manager.    *)
(***************************************************************************)
THEOREM QueueAlwaysWoken ==
    ASSUME Setups = 1
    PROVE  LifeSpec => []QueueIsWoken
<1>1. LifeInv => QueueIsWoken
  <2> SUFFICES ASSUME LifeInv, worklist # NotRead, ~mem.paused, Active(mem) = {},
                      job = NoOperation
               PROVE  Queued(mem) \subseteq worklist
    BY DEF QueueIsWoken, Wakeable
  <2>1. CASE mem.pending = <<>>
    BY <2>1 DEF Queued
  <2>2. CASE mem.pending # <<>>
    BY <2>2 DEF LifeInv, WakeInv, WorklistIsNew, Awake
  <2> QED
    BY <2>1, <2>2
<1> QED
  BY <1>1, LifeInvariance, PTL

(***************************************************************************)
(* What the task manager promises, of the apps as they are: no queued app  *)
(* is forgotten, the box never aborts, tasks and exclusive operations      *)
(* exclude each other, and while the platform stops no task starts.        *)
(***************************************************************************)
THEOREM LifeKeepsPromises ==
    ASSUME Setups = 1
    PROVE  LifeSpec => /\ []NoLostWakeup
                       /\ []NeverAborts
                       /\ []LockMatchesWork
                       /\ MutualExclusion
                       /\ PausedStartsNothing
<1>1. Spec => []NeverAborts
  BY NoAbort
<1>2. LifeSpec => Spec
  BY LifeImplementsManager
<1> QED
  BY <1>1, <1>2, NobodyForgotten, LockCorrect, Implements, PauseHolds

=============================================================================
