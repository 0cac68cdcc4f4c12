-------------------------- MODULE ContainersProofs --------------------------
(***************************************************************************)
(* The safety of Containers for any apps and any bounds: the container of  *)
(* an installed app is its own, has the passwords its addons have now and  *)
(* runs when the row says so, and what its users have written is in its    *)
(* database or in a backup until it is given up.                           *)
(*                                                                         *)
(* A task that ends is done again from its first step, and its last write  *)
(* may come over a newer command.  So the argument is about the task that  *)
(* is at work, by what it has read and the steps it has done since, and    *)
(* not about what the row says meanwhile; only a row at rest, or one that  *)
(* waits for a backup, says something of the app itself.                   *)
(***************************************************************************)
EXTENDS Containers, TLAPS

-----------------------------------------------------------------------------
\* The order of the steps.

\* The task of an app is done with a step.
Past(a, step) == \E i \in 1..Len(PlanOf(a)) : i < task[a].n /\ PlanOf(a)[i] = step

Builds == Reinstalls \cup {"pending_configure"} \cup Updates
\* What leaves the app as it is.
Mild == {"pending_backup"} \cup RunCommands
Pending == Builds \cup Mild \cup {"pending_uninstall"}
Whats == States \cup RunStates

\* What Plan says, case by case.
LEMMA Plans ==
    ASSUME NEW s \in Whats
    PROVE  /\ s \in Reinstalls =>
                Plan(s) = <<"stop", "stopped", "delete", "teardown", "image", "download", "setup",
                            "create", "start", "started">>
           /\ s = "pending_configure" =>
                Plan(s) = <<"stop", "stopped", "delete", "download", "setup", "create", "start",
                            "started">>
           /\ s = "pending_update" =>
                Plan(s) = <<"download", "stop", "stopped", "delete", "image", "backup", "teardown",
                            "setup", "create", "start", "started">>
           /\ s = "pending_force_update" =>
                Plan(s) = <<"download", "stop", "stopped", "delete", "image", "teardown",
                            "setup", "create", "start", "started">>
           /\ s = "pending_backup" => Plan(s) = <<"backup">>
           /\ s = "pending_uninstall" => Plan(s) = <<"stop", "stopped", "delete", "teardown", "image">>
           /\ s = "pending_stop" => Plan(s) = <<"stop", "stopped">>
           /\ s = "pending_start" => Plan(s) = <<"start", "started">>
           /\ s \notin Pending => Plan(s) = <<>>
BY DEF Plan, Whats, States, RunStates, Pending, Builds, Mild, Reinstalls, Updates, RunCommands

\* The cases there are.
LEMMA Kinds ==
    ASSUME NEW s \in Pending
    PROVE  /\ s \in Whats
           /\ \/ s \in Reinstalls \/ s = "pending_configure" \/ s = "pending_update"
              \/ s = "pending_force_update" \/ s = "pending_backup" \/ s = "pending_uninstall"
              \/ s = "pending_stop" \/ s = "pending_start"
BY DEF Whats, States, RunStates, Pending, Builds, Mild, Reinstalls, Updates, RunCommands

\* No plan is longer than eleven steps, and those of Pending are not empty.
LEMMA PlanLength ==
    ASSUME NEW s \in Whats
    PROVE  /\ Len(Plan(s)) \in 0..11
           /\ (Plan(s) = <<>>) <=> (s \notin Pending)
           /\ s \in Pending => Len(Plan(s)) # 0
<1>1. CASE s \notin Pending  BY <1>1, Plans
<1>2. CASE s \in Pending
  <2>0. /\ Len(<<"backup">>) = 1 /\ Len(<<>>) = 0
        /\ Len(<<"stop", "stopped", "delete", "teardown", "image">>) = 5
        /\ Len(<<"stop", "stopped">>) = 2 /\ Len(<<"start", "started">>) = 2
    OBVIOUS
  <2>1. CASE s \in Reinstalls  BY <1>2, <2>1, Plans
  <2>2. CASE s = "pending_configure"  BY <1>2, <2>2, Plans
  <2>3. CASE s = "pending_update"  BY <1>2, <2>3, Plans
  <2>4. CASE s = "pending_force_update"  BY <1>2, <2>4, Plans
  <2>5. CASE s = "pending_backup"
    <3>1. Plan(s) = <<"backup">>  BY <2>5, Plans
    <3> QED  BY <1>2, <2>0, <3>1
  <2>6. CASE s = "pending_uninstall"
    <3>1. Plan(s) = <<"stop", "stopped", "delete", "teardown", "image">>  BY <2>6, Plans
    <3> QED  BY <1>2, <2>0, <3>1
  <2>7. CASE s = "pending_stop"
    <3>1. Plan(s) = <<"stop", "stopped">>  BY <2>7, Plans
    <3> QED  BY <1>2, <2>0, <3>1
  <2>8. CASE s = "pending_start"
    <3>1. Plan(s) = <<"start", "started">>  BY <2>8, Plans
    <3> QED  BY <1>2, <2>0, <3>1
  <2> QED  BY <1>2, <2>1, <2>2, <2>3, <2>4, <2>5, <2>6, <2>7, <2>8, Kinds
<1> QED  BY <1>1, <1>2

\* No plan has a step twice.
LEMMA PlanOnce ==
    ASSUME NEW s \in Whats, NEW i \in 1..Len(Plan(s)), NEW j \in 1..Len(Plan(s)),
           Plan(s)[i] = Plan(s)[j]
    PROVE  i = j
<1>1. CASE s \in Reinstalls
  <2>1. /\ Plan(s) = <<"stop", "stopped", "delete", "teardown", "image", "download", "setup",
                       "create", "start", "started">>
        /\ i \in 1..10 /\ j \in 1..10
    BY <1>1, Plans
  <2>2. CASE j \in 1..4  BY <2>1, <2>2
  <2>3. CASE j \in 5..7  BY <2>1, <2>3
  <2>4. CASE j \in 8..10  BY <2>1, <2>4
  <2> QED  BY <2>1, <2>2, <2>3, <2>4
<1>2. CASE s = "pending_configure"
  <2>1. /\ Plan(s) = <<"stop", "stopped", "delete", "download", "setup", "create", "start", "started">>
        /\ i \in 1..8 /\ j \in 1..8
    BY <1>2, Plans
  <2>2. CASE j \in 1..4  BY <2>1, <2>2
  <2>3. CASE j \in 5..8  BY <2>1, <2>3
  <2> QED  BY <2>1, <2>2, <2>3
<1>3. CASE s = "pending_update"
  <2>1. /\ Plan(s) = <<"download", "stop", "stopped", "delete", "image", "backup", "teardown",
                       "setup", "create", "start", "started">>
        /\ j \in 1..11 /\ i \in 1..11
    BY <1>3, Plans
  <2>2. CASE j \in 1..4  BY <2>1, <2>2
  <2>3. CASE j \in 5..7  BY <2>1, <2>3
  <2>4. CASE j \in 8..11  BY <2>1, <2>4
  <2> QED  BY <2>1, <2>2, <2>3, <2>4
<1>4. CASE s = "pending_force_update"
  <2>1. /\ Plan(s) = <<"download", "stop", "stopped", "delete", "image", "teardown",
                       "setup", "create", "start", "started">>
        /\ j \in 1..10 /\ i \in 1..10
    BY <1>4, Plans
  <2>2. CASE j \in 1..4  BY <2>1, <2>2
  <2>3. CASE j \in 5..7  BY <2>1, <2>3
  <2>4. CASE j \in 8..10  BY <2>1, <2>4
  <2> QED  BY <2>1, <2>2, <2>3, <2>4
<1>5. CASE s = "pending_backup"  BY <1>5, Plans
<1>6. CASE s = "pending_uninstall"  BY <1>6, Plans
<1>7. CASE s = "pending_stop"  BY <1>7, Plans
<1>8. CASE s = "pending_start"  BY <1>8, Plans
<1>9. CASE s \notin Pending  BY <1>9, Plans
<1> QED  BY <1>1, <1>2, <1>3, <1>4, <1>5, <1>6, <1>7, <1>8, <1>9, Kinds

\* So the place of a step in the plan tells whether the task is at it, or past it.
LEMMA Places ==
    ASSUME NEW a \in Apps, task[a].does \in Whats, task[a].n \in Nat,
           NEW i \in 1..Len(PlanOf(a)), NEW x, PlanOf(a)[i] = x
    PROVE  /\ In(a, x) <=> task[a].n = i
           /\ Past(a, x) <=> task[a].n > i
<1>1. \A j \in 1..Len(PlanOf(a)) : PlanOf(a)[j] = x => j = i  BY PlanOnce DEF PlanOf
<1>2. Len(PlanOf(a)) \in Nat  BY PlanLength DEF PlanOf
<1>3. In(a, x) <=> task[a].n = i  BY <1>1 DEF In
<1>4. Past(a, x) <=> task[a].n > i  BY <1>1, <1>2 DEF Past
<1> QED  BY <1>3, <1>4

\* A step that is not in the plan.
LEMMA NoPlace ==
    ASSUME NEW a \in Apps, NEW x, \A i \in 1..Len(PlanOf(a)) : PlanOf(a)[i] # x
    PROVE  ~In(a, x) /\ ~Past(a, x)
BY DEF In, Past

\* A task is at one step at a time, and comes to a step once.
LEMMA OneStep ==
    ASSUME NEW a \in Apps, task[a].does \in Whats, task[a].n \in Nat, NEW x, In(a, x)
    PROVE  /\ \A y : In(a, y) => x = y
           /\ ~Past(a, x)
           /\ task[a].does \in Pending /\ task[a].n # 0
<1>1. task[a].n \in 1..Len(PlanOf(a)) /\ PlanOf(a)[task[a].n] = x  BY DEF In
<1>2. \A y : In(a, y) => x = y  BY DEF In
<1>3. ~Past(a, x)  BY <1>1, Places
<1>4. task[a].does \in Pending
  <2>1. Len(<<>>) = 0  OBVIOUS
  <2> QED  BY <1>1, <2>1, PlanLength DEF PlanOf
<1> QED  BY <1>1, <1>2, <1>3, <1>4

\* The steps that build, in the order in which they come; those of a task that leaves the app as
\* it is are others.
LEMMA Order1 ==
    ASSUME NEW a \in Apps, task[a].does \in Pending, task[a].n \in Nat
    PROVE  /\ In(a, "stop") => /\ ~Past(a, "delete") /\ ~Past(a, "backup") /\ ~Past(a, "setup")
                               /\ ~Past(a, "create") /\ ~Past(a, "start")
                               /\ task[a].does \notin {"pending_backup", "pending_start"}
           /\ In(a, "stopped") => /\ ~Past(a, "delete") /\ ~Past(a, "backup") /\ ~Past(a, "setup")
                                  /\ ~Past(a, "create") /\ ~Past(a, "start")
                                  /\ task[a].does \notin {"pending_backup", "pending_start"}
           /\ In(a, "delete") => /\ ~Past(a, "backup") /\ ~Past(a, "setup")
                                 /\ ~Past(a, "create") /\ ~Past(a, "start")
                                 /\ task[a].does \notin Mild
           /\ In(a, "teardown") => /\ Past(a, "delete") /\ Past(a, "stop") /\ ~Past(a, "setup")
                                   /\ ~Past(a, "create") /\ ~Past(a, "start")
                                   /\ task[a].does \notin Mild \cup {"pending_configure"}
                                   /\ task[a].does = "pending_update" => Past(a, "backup")
           /\ In(a, "image") => /\ Past(a, "delete") /\ ~Past(a, "setup")
                                /\ ~Past(a, "create") /\ ~Past(a, "start")
                                /\ task[a].does \notin Mild
           /\ In(a, "backup") => /\ ~Past(a, "setup") /\ ~Past(a, "create") /\ ~Past(a, "start")
                                 /\ task[a].does \in {"pending_backup", "pending_update"}
           /\ In(a, "download") => /\ ~Past(a, "setup") /\ ~Past(a, "create") /\ ~Past(a, "start")
                                   /\ task[a].does \in Builds
           /\ In(a, "setup") => /\ Past(a, "delete") /\ Past(a, "download") /\ Past(a, "stop")
                                /\ ~Past(a, "create") /\ ~Past(a, "start")
                                /\ task[a].does \in Builds
           /\ In(a, "create") => /\ Past(a, "delete") /\ Past(a, "download") /\ Past(a, "setup")
                                 /\ ~Past(a, "start")
                                 /\ task[a].does \in Builds
           /\ In(a, "start") => IF task[a].does = "pending_start" THEN ~Past(a, "stop")
                                ELSE Past(a, "create") /\ task[a].does \in Builds
           /\ In(a, "started") => /\ Past(a, "start")
                                  /\ task[a].does \in Builds \cup {"pending_start"}
           /\ task[a].n = Len(PlanOf(a)) + 1 /\ task[a].does \in Builds =>
                Past(a, "create") /\ Past(a, "start")
           /\ task[a].does \in Mild => ~Past(a, "delete") /\ ~Past(a, "download") /\ ~Past(a, "setup")
                                         /\ ~Past(a, "create")
<1>0. task[a].does \in Whats  BY Kinds
<1> DEFINE s == task[a].does
           Without(S) == \A i \in 1..Len(PlanOf(a)) : PlanOf(a)[i] \notin S
<1>a. ASSUME NEW S, Without(S), NEW x \in S  PROVE ~In(a, x) /\ ~Past(a, x)
  BY <1>a, NoPlace
<1> HIDE DEF Without
<1>b. \A i \in 1..Len(PlanOf(a)) : /\ In(a, PlanOf(a)[i]) <=> task[a].n = i
                                   /\ Past(a, PlanOf(a)[i]) <=> task[a].n > i
  BY <1>0, Places
<1>1. CASE s \in Reinstalls
  <2>1. /\ Len(PlanOf(a)) = 10
        /\ PlanOf(a)[1] = "stop" /\ PlanOf(a)[2] = "stopped" /\ PlanOf(a)[3] = "delete"
        /\ PlanOf(a)[4] = "teardown" /\ PlanOf(a)[5] = "image" /\ PlanOf(a)[6] = "download"
        /\ PlanOf(a)[7] = "setup" /\ PlanOf(a)[8] = "create" /\ PlanOf(a)[9] = "start"
        /\ PlanOf(a)[10] = "started"
        /\ Without({"backup"})
    BY <1>0, <1>1, Plans DEF PlanOf, Without
  <2>2. ~In(a, "backup") /\ ~Past(a, "backup")  BY <1>a, <2>1
  <2>3. s \notin Mild \cup {"pending_update", "pending_configure"} /\ s \in Builds
    BY <1>1 DEF Reinstalls, Mild, Builds, RunCommands
  <2> QED  BY <1>b, <2>1, <2>2, <2>3 DEF Mild, RunCommands
<1>2. CASE s = "pending_configure"
  <2>1. /\ Len(PlanOf(a)) = 8
        /\ PlanOf(a)[1] = "stop" /\ PlanOf(a)[2] = "stopped" /\ PlanOf(a)[3] = "delete"
        /\ PlanOf(a)[4] = "download" /\ PlanOf(a)[5] = "setup" /\ PlanOf(a)[6] = "create"
        /\ PlanOf(a)[7] = "start" /\ PlanOf(a)[8] = "started"
        /\ Without({"backup", "teardown", "image"})
    BY <1>0, <1>2, Plans DEF PlanOf, Without
  <2>2. \A x \in {"backup", "teardown", "image"} : ~In(a, x) /\ ~Past(a, x)  BY <1>a, <2>1
  <2>3. s \notin Mild /\ s \in Builds  BY <1>2 DEF Mild, Builds, RunCommands
  <2> QED  BY <1>b, <1>2, <2>1, <2>2, <2>3
<1>3. CASE s = "pending_update"
  <2>1. /\ Len(PlanOf(a)) = 11
        /\ PlanOf(a)[1] = "download" /\ PlanOf(a)[2] = "stop" /\ PlanOf(a)[3] = "stopped"
        /\ PlanOf(a)[4] = "delete" /\ PlanOf(a)[5] = "image" /\ PlanOf(a)[6] = "backup"
        /\ PlanOf(a)[7] = "teardown" /\ PlanOf(a)[8] = "setup" /\ PlanOf(a)[9] = "create"
        /\ PlanOf(a)[10] = "start" /\ PlanOf(a)[11] = "started"
    BY <1>0, <1>3, Plans DEF PlanOf
  <2>3. s \notin Mild /\ s \in Builds  BY <1>3 DEF Mild, Builds, RunCommands, Updates
  <2> QED  BY <1>b, <1>3, <2>1, <2>3
<1>4. CASE s = "pending_force_update"
  <2>1. /\ Len(PlanOf(a)) = 10
        /\ PlanOf(a)[1] = "download" /\ PlanOf(a)[2] = "stop" /\ PlanOf(a)[3] = "stopped"
        /\ PlanOf(a)[4] = "delete" /\ PlanOf(a)[5] = "image"
        /\ PlanOf(a)[6] = "teardown" /\ PlanOf(a)[7] = "setup" /\ PlanOf(a)[8] = "create"
        /\ PlanOf(a)[9] = "start" /\ PlanOf(a)[10] = "started"
        /\ Without({"backup"})
    BY <1>0, <1>4, Plans DEF PlanOf, Without
  <2>2. ~In(a, "backup") /\ ~Past(a, "backup")  BY <1>a, <2>1
  <2>3. s \notin Mild /\ s \in Builds  BY <1>4 DEF Mild, Builds, RunCommands, Updates
  <2> QED  BY <1>b, <1>4, <2>1, <2>2, <2>3
<1>5. CASE s = "pending_backup"
  <2>1. Without({"stop", "stopped", "delete", "teardown", "image", "download", "setup", "create",
                 "start", "started"})
    BY <1>0, <1>5, Plans DEF PlanOf, Without
  <2>2. \A x \in {"stop", "stopped", "delete", "teardown", "image", "download", "setup", "create",
                  "start", "started"} : ~In(a, x) /\ ~Past(a, x)
    BY <1>a, <2>1
  <2>3. s \in Mild /\ s \notin Builds  BY <1>5 DEF Mild, Builds, Reinstalls, Updates
  <2> QED  BY <1>5, <2>2, <2>3
<1>6. CASE s = "pending_uninstall"
  <2>1. /\ Len(PlanOf(a)) = 5
        /\ PlanOf(a)[1] = "stop" /\ PlanOf(a)[2] = "stopped" /\ PlanOf(a)[3] = "delete"
        /\ PlanOf(a)[4] = "teardown" /\ PlanOf(a)[5] = "image"
        /\ Without({"backup", "download", "setup", "create", "start", "started"})
    BY <1>0, <1>6, Plans DEF PlanOf, Without
  <2>2. \A x \in {"backup", "download", "setup", "create", "start", "started"} :
          ~In(a, x) /\ ~Past(a, x)
    BY <1>a, <2>1
  <2>3. s \notin Mild /\ s \notin Builds  BY <1>6 DEF Mild, Builds, Reinstalls, Updates, RunCommands
  <2> QED  BY <1>b, <1>6, <2>1, <2>2, <2>3
<1>7. CASE s = "pending_stop"
  <2>1. Without({"delete", "teardown", "image", "backup", "download", "setup", "create", "start", "started"})
    BY <1>0, <1>7, Plans DEF PlanOf, Without
  <2>2. \A x \in {"delete", "teardown", "image", "backup", "download", "setup", "create", "start", "started"} :
          ~In(a, x) /\ ~Past(a, x)
    BY <1>a, <2>1
  <2>3. s \in Mild /\ s \notin Builds  BY <1>7 DEF Mild, Builds, Reinstalls, Updates, RunCommands
  <2> QED  BY <1>7, <2>2, <2>3
<1>8. CASE s = "pending_start"
  <2>1. /\ Len(PlanOf(a)) = 2 /\ PlanOf(a)[1] = "start" /\ PlanOf(a)[2] = "started"
        /\ Without({"stop", "stopped", "delete", "teardown", "image", "backup", "download", "setup", "create"})
    BY <1>0, <1>8, Plans DEF PlanOf, Without
  <2>2. \A x \in {"stop", "stopped", "delete", "teardown", "image", "backup", "download", "setup", "create"} :
          ~In(a, x) /\ ~Past(a, x)
    BY <1>a, <2>1
  <2>3. s \in Mild /\ s \notin Builds  BY <1>8 DEF Mild, Builds, Reinstalls, Updates, RunCommands
  <2> QED  BY <1>b, <1>8, <2>1, <2>2, <2>3
<1> QED  BY <1>1, <1>2, <1>3, <1>4, <1>5, <1>6, <1>7, <1>8, Kinds

-----------------------------------------------------------------------------
\* The inductive invariant, for each app.

\* A version is chosen when an app is installed; an update comes from the other one, and a
\* restore from a backup that is there, or from nothing.
RowFits(a) ==
    /\ row[a].state = "none" => /\ task[a].n = 0 /\ from[a] = NoBackup
                                /\ ~manager[a].crashed /\ manager[a].removal = "no"
    /\ row[a].state # "none" => row[a].version \in 1..2
    /\ row[a].state \in Updates => row[a].old \in 1..2
    /\ row[a].state \in Reinstalls => from[a] \in saved[a] \cup {NoBackup}

\* What there is to do in a step was found out as it began; an addon that is set up stays
\* to be done until its password is written and, in a restore, its data is there.
TaskFits(a) ==
    /\ task[a].n \in 0..(Len(PlanOf(a)) + 1)
    /\ task[a].n = 0 => task[a] = NoTask
    /\ task[a].n # 0 => task[a].does \in Pending /\ task[a].version \in 1..2
    /\ task[a].n # 0 /\ task[a].does \in Updates => task[a].old \in 1..2
    /\ task[a].addon # "none" => In(a, "setup") /\ task[a].addon \in task[a].todo
    /\ task[a].addon = "none" => task[a].secret = 0
    /\ task[a].addon # "none" /\ task[a].secret = 0 =>
          task[a].addon = "db" /\ task[a].does \in Reinstalls
    /\ In(a, "teardown") => task[a].todo \subseteq Unused(a) \cap Addons
    /\ In(a, "setup") => task[a].todo \subseteq Asks(task[a].version) \cap Addons
    /\ In(a, "delete") => (con[a].id # 0 => "app" \in task[a].todo)

RedisFits(a) == table[a]["redis"] = redis[a]

\* An app that is installed has what it needs (EnvIsCurrent),
Current(a) ==
    /\ con[a].id = row[a].cid /\ con[a].id # 0 /\ con[a].version \in images[a]
    /\ con[a].env = table[a]
    /\ RedisFits(a)

\* and runs when its row says so.
Runs(a) == row[a].run = "running" => con[a].runs

\* The row is that of an app nothing is to be changed of.
AtRest(a) == row[a].state \in {"installed", "pending_backup"}

\* The environment of an app, by the steps its task is past.
EnvFits(a) ==
    /\ con[a].id = 0 => con[a] = NoContainer
    /\ Past(a, "delete") /\ ~Past(a, "create") => con[a] = NoContainer
    /\ Past(a, "download") => task[a].version \in images[a]
    /\ In(a, "setup") /\ "redis" \notin task[a].todo => RedisFits(a)
    /\ task[a].addon = "redis" => task[a].secret = redis[a]
    /\ Past(a, "setup") => RedisFits(a)
    /\ Past(a, "create") => Current(a)
    /\ task[a].n # 0 /\ task[a].does \in Mild => Current(a)
    /\ AtRest(a) => Current(a) /\ (task[a].n # 0 => task[a].does \in Mild)

\* Whether its container runs.
RunFits(a) ==
    /\ Past(a, "start") => con[a].runs
    /\ Past(a, "stop") /\ ~Past(a, "start") => ~con[a].runs
    /\ task[a].n # 0 /\ task[a].does \in Mild => Runs(a)
    /\ AtRest(a) => Runs(a)
    /\ task[a].does = "pending_stop" /\ (In(a, "stop") \/ In(a, "stopped")) => row[a].run = "pending_stop"

IsSaved(a) == \E b \in saved[a] : b.content = latest[a]

\* The database of the app may go.
MayDrop(a) ==
    /\ Past(a, "stop") /\ ~Past(a, "start")
    /\ GivenUp(a) \/ (task[a].does = "pending_update" /\ Past(a, "backup") /\ "db" \in Asks(task[a].old))

\* The data of an app.
DataFits(a) ==
    /\ latest[a] # NoData => latest[a] = db[a] \/ IsSaved(a)
    /\ task[a].n # 0 /\ task[a].does \in Reinstalls => task[a].from \in saved[a] \cup {NoBackup}
    /\ MayDrop(a) => latest[a] = NoData \/ IsSaved(a)

Fits(a) == RowFits(a) /\ TaskFits(a) /\ EnvFits(a) /\ RunFits(a) /\ DataFits(a)

IInv == TypeOK /\ \A a \in Apps : Fits(a)

\* What the invariant speaks of for an app.
about(a) == <<row[a], manager[a], table[a], db[a], redis[a], saved[a], from[a], latest[a], images[a],
              con[a], task[a]>>

\* A task that is not moved on is where it was.
LEMMA Stayed ==
    ASSUME NEW a \in Apps, task'[a].does = task[a].does, task'[a].n = task[a].n
    PROVE  /\ PlanOf(a)' = PlanOf(a)
           /\ \A x : (In(a, x)' <=> In(a, x)) /\ (Past(a, x)' <=> Past(a, x))
BY DEF In, Past, PlanOf

\* So are the addons and the data it is about.
LEMMA SameTask ==
    ASSUME NEW a \in Apps, task'[a].does = task[a].does, task'[a].n = task[a].n,
           task'[a].version = task[a].version, task'[a].old = task[a].old
    PROVE  /\ Unused(a)' = Unused(a) /\ (GivenUp(a)' <=> GivenUp(a))
           /\ (MayDrop(a)' <=> MayDrop(a))
<1>1. Unused(a)' = Unused(a)  BY DEF Unused
<1>2. GivenUp(a)' <=> GivenUp(a)  BY <1>1 DEF GivenUp
<1>3. \A x : Past(a, x)' <=> Past(a, x)  BY Stayed
<1> QED  BY <1>1, <1>2, <1>3 DEF MayDrop

\* A step that leaves all of it alone keeps the invariant for the app.
LEMMA Elsewhere ==
    ASSUME NEW a \in Apps, Fits(a), about(a)' = about(a)
    PROVE  Fits(a)'
<1>1. /\ row'[a] = row[a] /\ manager'[a] = manager[a] /\ table'[a] = table[a] /\ db'[a] = db[a]
      /\ redis'[a] = redis[a] /\ saved'[a] = saved[a] /\ from'[a] = from[a]
      /\ latest'[a] = latest[a] /\ images'[a] = images[a] /\ con'[a] = con[a] /\ task'[a] = task[a]
  BY DEF about
<1>2. /\ PlanOf(a)' = PlanOf(a)
      /\ \A x : (In(a, x)' <=> In(a, x)) /\ (Past(a, x)' <=> Past(a, x))
  BY <1>1, Stayed
<1>3. Unused(a)' = Unused(a) /\ (MayDrop(a)' <=> MayDrop(a))  BY <1>1, SameTask
<1>4. /\ (RedisFits(a)' <=> RedisFits(a)) /\ (Current(a)' <=> Current(a)) /\ (Runs(a)' <=> Runs(a))
      /\ (AtRest(a)' <=> AtRest(a)) /\ (IsSaved(a)' <=> IsSaved(a))
  BY <1>1 DEF RedisFits, Current, Runs, AtRest, IsSaved
<1>5. RowFits(a)'  BY <1>1 DEF Fits, RowFits
<1>6. TaskFits(a)'  BY <1>1, <1>2, <1>3 DEF Fits, TaskFits
<1>7. EnvFits(a)'  BY <1>1, <1>2, <1>4 DEF Fits, EnvFits
<1>8. RunFits(a)'  BY <1>1, <1>2, <1>4 DEF Fits, RunFits
<1>9. DataFits(a)'  BY <1>1, <1>3, <1>4 DEF Fits, DataFits
<1> QED  BY <1>5, <1>6, <1>7, <1>8, <1>9 DEF Fits

\* An app without a task is at no step and past none.
LEMMA Rests ==
    ASSUME NEW a \in Apps, task[a] = NoTask
    PROVE  /\ TaskFits(a) /\ ~MayDrop(a) /\ \A x : ~In(a, x) /\ ~Past(a, x)
           /\ task[a].n = 0 /\ task[a].does = "none" /\ task[a].addon = "none"
<1>1. /\ task[a].n = 0 /\ task[a].addon = "none" /\ task[a].secret = 0 /\ task[a].does = "none"
      /\ task[a].does \in Whats
  BY DEF NoTask, Whats, States
<1>2. Len(PlanOf(a)) \in 0..11  BY <1>1, PlanLength DEF PlanOf
<1>3. \A x : ~In(a, x) /\ ~Past(a, x)  BY <1>1, <1>2 DEF In, Past
<1>4. TaskFits(a)  BY <1>1, <1>2, <1>3 DEF TaskFits
<1> QED  BY <1>1, <1>3, <1>4 DEF MayDrop

LEMMA Resting ==
    ASSUME NEW a \in Apps, task'[a] = NoTask
    PROVE  /\ TaskFits(a)' /\ ~MayDrop(a)' /\ \A x : ~In(a, x)' /\ ~Past(a, x)'
           /\ task'[a].n = 0 /\ task'[a].does = "none" /\ task'[a].addon = "none"
<1>1. /\ task'[a].n = 0 /\ task'[a].addon = "none" /\ task'[a].secret = 0 /\ task'[a].does = "none"
      /\ task'[a].does \in Whats
  BY DEF NoTask, Whats, States
<1>2. Len(PlanOf(a)') \in 0..11  BY <1>1, PlanLength DEF PlanOf
<1>3. \A x : ~In(a, x)' /\ ~Past(a, x)'  BY <1>1, <1>2 DEF In, Past
<1>4. TaskFits(a)'  BY <1>1, <1>2, <1>3 DEF TaskFits
<1> QED  BY <1>1, <1>3, <1>4 DEF MayDrop

\* The row of an app is written and nothing of what it consists of is changed, whether its task
\* goes on or ends.
LEMMA Rewritten ==
    ASSUME NEW a \in Apps, Fits(a), RowFits(a)',
           task'[a] \in {task[a], NoTask},
           table'[a] = table[a], db'[a] = db[a], redis'[a] = redis[a], saved'[a] = saved[a],
           latest'[a] = latest[a], images'[a] = images[a], con'[a] = con[a],
           row'[a].cid = row[a].cid,
           \/ row'[a].run = row[a].run
           \/ row'[a].run \in RunCommands /\ row[a].run \notin RunCommands,
           AtRest(a)' => \/ AtRest(a)
                         \/ (Current(a) /\ Runs(a) /\ task'[a] = NoTask)
    PROVE  Fits(a)'
<1>1. (RedisFits(a)' <=> RedisFits(a)) /\ (Current(a)' <=> Current(a)) /\ (IsSaved(a)' <=> IsSaved(a))
  BY DEF RedisFits, Current, IsSaved
<1>2. Runs(a) => Runs(a)'  BY DEF Runs, RunCommands
<1>3. CASE task'[a] = task[a]
  <2>1. /\ PlanOf(a)' = PlanOf(a)
        /\ \A x : (In(a, x)' <=> In(a, x)) /\ (Past(a, x)' <=> Past(a, x))
    BY <1>3, Stayed
  <2>2. Unused(a)' = Unused(a) /\ (MayDrop(a)' <=> MayDrop(a))  BY <1>3, SameTask
  <2>3. AtRest(a)' => Current(a) /\ Runs(a) /\ (task[a].n # 0 => task[a].does \in Mild)
    <3>1. CASE AtRest(a)  BY <3>1 DEF Fits, EnvFits, RunFits
    <3>2. CASE AtRest(a)' /\ ~AtRest(a)  BY <1>3, <3>2 DEF NoTask
    <3> QED  BY <3>1, <3>2
  <2>4. TaskFits(a)'  BY <1>3, <2>1, <2>2 DEF Fits, TaskFits
  <2>5. EnvFits(a)'  BY <1>1, <1>3, <2>1, <2>3 DEF Fits, EnvFits
  <2>6. RunFits(a)'
    <3>1. task[a].does = "pending_stop" /\ (In(a, "stop") \/ In(a, "stopped"))
             => row'[a].run = "pending_stop"
      BY DEF Fits, RunFits, RunCommands
    <3> QED  BY <1>2, <1>3, <2>1, <2>3, <3>1 DEF Fits, RunFits
  <2>7. DataFits(a)'  BY <1>1, <1>3, <2>2 DEF Fits, DataFits
  <2> QED  BY <2>4, <2>5, <2>6, <2>7 DEF Fits
<1>4. CASE task'[a] = NoTask
  <2>1. /\ TaskFits(a)' /\ ~MayDrop(a)' /\ \A x : ~In(a, x)' /\ ~Past(a, x)'
        /\ task'[a].n = 0 /\ task'[a].does = "none" /\ task'[a].addon = "none"
    BY <1>4, Resting
  <2>2. AtRest(a)' => Current(a) /\ Runs(a)  BY DEF Fits, EnvFits, RunFits
  <2>3. EnvFits(a)'  BY <1>1, <2>1, <2>2 DEF Fits, EnvFits
  <2>4. RunFits(a)'
    <3>1. task'[a].does # "pending_stop"  BY <2>1
    <3> QED  BY <1>2, <2>1, <2>2, <3>1 DEF RunFits
  <2>5. DataFits(a)'  BY <1>1, <2>1 DEF Fits, DataFits
  <2> QED  BY <2>1, <2>3, <2>4, <2>5 DEF Fits
<1> QED  BY <1>3, <1>4

LEMMA Counted ==
    ASSUME TypeOK, NEW what \in {"commands", "faults"}, Count(what)
    PROVE  count' \in Counts
<1>1. count \in Counts /\ count[what] < Bound[what] /\ count' = [count EXCEPT ![what] = count[what] + 1]
  BY DEF TypeOK, Count
<1>2. MaxCommands \in Nat /\ MaxFaults \in Nat  BY ContainersAssumption
<1>3. CASE what = "commands"  BY <1>1, <1>2, <1>3 DEF Counts, Bound
<1>4. CASE what = "faults"  BY <1>1, <1>2, <1>4 DEF Counts, Bound
<1> QED  BY <1>3, <1>4

\* The data there can be.
LEMMA SomeData == NoData \in Data /\ 0 \in Data
<1>1. MaxUses \in Nat  BY ContainersAssumption
<1> QED  BY <1>1 DEF Data, NoData

-----------------------------------------------------------------------------
\* Commands, and the end of a task.

\* What the steps of a task need to know of the invariant.
LEMMA Known ==
    ASSUME IInv, NEW a \in Apps
    PROVE  /\ TypeOK /\ Fits(a) /\ RowFits(a) /\ TaskFits(a) /\ EnvFits(a) /\ RunFits(a) /\ DataFits(a)
           /\ row[a] \in Row /\ row[a].state \in States /\ row[a].version \in 0..2
           /\ task[a] \in Task /\ task[a].n \in Nat /\ task[a].does \in Whats
           /\ manager[a] \in Managed /\ con[a] \in Container /\ table[a] \in Secrets
           /\ NoTask \in Task
<1>1. TypeOK /\ Fits(a)  BY DEF IInv
<1>2. row[a] \in Row /\ task[a] \in Task /\ manager[a] \in Managed /\ con[a] \in Container
      /\ table[a] \in Secrets
  BY <1>1 DEF TypeOK
<1>3. task[a].n \in Nat /\ task[a].does \in Whats  BY <1>2 DEF Task, Whats
<1>4. NoTask \in Task  BY DEF NoTask, Task, Addons, States
<1>5. row[a].state \in States /\ row[a].version \in 0..2  BY <1>2 DEF Row
<1> QED  BY <1>1, <1>2, <1>3, <1>4, <1>5 DEF Fits

\* The new row says what the app is to become; what it consists of is left as it is.
LEMMA Ordered ==
    ASSUME IInv, NEW a \in Apps, NEW r \in Row, Order(a, r),
           from' \in [Apps -> Saved \cup {NoBackup}], \A b \in Apps \ {a} : from'[b] = from[b],
           r.state # "none", r.version \in 1..2,
           r.state \in Updates => r.old \in 1..2,
           r.state \in Reinstalls => from'[a] \in saved[a] \cup {NoBackup},
           r.cid = row[a].cid,
           \/ r.run = row[a].run
           \/ r.run \in RunCommands /\ row[a].run \notin RunCommands,
           r.state \in {"installed", "pending_backup"} => AtRest(a)
    PROVE  IInv'
<1>k. /\ TypeOK /\ Fits(a) /\ RowFits(a) /\ TaskFits(a) /\ EnvFits(a) /\ RunFits(a) /\ DataFits(a)
      /\ row[a] \in Row /\ row[a].state \in States /\ row[a].version \in 0..2
      /\ task[a] \in Task /\ task[a].n \in Nat /\ task[a].does \in Whats
      /\ manager[a] \in Managed /\ NoTask \in Task
  BY Known
<1> USE <1>k
<1>1. /\ row' = [row EXCEPT ![a] = r]
      /\ manager' = [manager EXCEPT ![a].restarts = @ + 1]
      /\ UNCHANGED <<table, db, redis, saved, latest, images, con, sub, task, scheduler, monitor>>
  BY DEF Order, commandFrame
<1>2. row' \in [Apps -> Row] /\ row'[a] = r  BY <1>1 DEF TypeOK
<1>3. manager' \in [Apps -> Managed]
  <2>1. [manager[a] EXCEPT !.restarts = @ + 1] \in Managed  BY DEF Managed
  <2>2. manager' = [manager EXCEPT ![a] = [manager[a] EXCEPT !.restarts = @ + 1]]  BY <1>1
  <2> HIDE DEF Managed
  <2> QED  BY <2>1, <2>2 DEF TypeOK
<1>4. count' \in Counts  BY Counted DEF Order
<1>5. TypeOK'  BY <1>1, <1>2, <1>3, <1>4 DEF TypeOK, scheduler, monitor
<1>6. RowFits(a)'  BY <1>1, <1>2 DEF RowFits
<1>7. Fits(a)'
  <2>1. AtRest(a)' => AtRest(a)  BY <1>2 DEF AtRest
  <2> QED  BY <1>1, <1>2, <1>6, <2>1, Rewritten
<1>8. ASSUME NEW b \in Apps \ {a}  PROVE Fits(b)'
  <2>1. about(b)' = about(b)  BY <1>1 DEF about, TypeOK
  <2> QED  BY <2>1, Elsewhere DEF IInv
<1> QED  BY <1>5, <1>7, <1>8 DEF IInv

\* The rows that commands write.
LEMMA StateRow ==
    ASSUME NEW q \in Row, NEW s \in States
    PROVE  /\ [q EXCEPT !.state = s] \in Row
           /\ [q EXCEPT !.state = s].state = s /\ [q EXCEPT !.state = s].version = q.version
           /\ [q EXCEPT !.state = s].old = q.old /\ [q EXCEPT !.state = s].cid = q.cid
           /\ [q EXCEPT !.state = s].run = q.run
BY DEF Row

LEMMA VersionRow ==
    ASSUME NEW q \in Row, NEW s \in States, NEW v \in 0..2, NEW o \in 0..2
    PROVE  [q EXCEPT !.state = s, !.version = v, !.old = o] \in Row
BY DEF Row

\* No command leaves an app to a task that it does not fit.
LEMMA CommandStep ==
    ASSUME IInv, NEW a \in Apps, Command(a)
    PROVE  IInv'
<1>k. /\ TypeOK /\ Fits(a) /\ RowFits(a) /\ TaskFits(a) /\ EnvFits(a) /\ RunFits(a) /\ DataFits(a)
      /\ row[a] \in Row /\ row[a].state \in States /\ row[a].version \in 0..2
      /\ task[a] \in Task /\ task[a].n \in Nat /\ task[a].does \in Whats
      /\ manager[a] \in Managed /\ NoTask \in Task
  BY Known
<1> USE <1>k
<1>0. /\ from \in [Apps -> Saved \cup {NoBackup}]
      /\ "pending_install" \in States /\ "pending_configure" \in States
      /\ "pending_update" \in States /\ "pending_force_update" \in States
      /\ "pending_restore" \in States /\ "pending_backup" \in States
      /\ 1 \in 0..2
  BY DEF TypeOK, States
<1>1. CASE Install(a)
  <2> DEFINE r == [row[a] EXCEPT !.state = "pending_install", !.version = 1]
  <2>1. Order(a, r) /\ row[a].state = "none" /\ from' = from  BY <1>1 DEF Install
  <2>2. /\ r \in Row /\ r.state = "pending_install" /\ r.version = 1 /\ r.cid = row[a].cid
        /\ r.run = row[a].run
    <3>1. r \in Row  BY <1>0 DEF Row
    <3>2. r.state = "pending_install" /\ r.version = 1 /\ r.cid = row[a].cid /\ r.run = row[a].run
      BY DEF Row
    <3> QED  BY <3>1, <3>2
  <2> HIDE DEF r
  <2>3. from[a] = NoBackup  BY <2>1 DEF RowFits
  <2> QED  BY <1>0, <2>1, <2>2, <2>3, Ordered DEF Updates
<1>2. CASE Configure(a)
  <2> DEFINE r == [row[a] EXCEPT !.state = "pending_configure", !.old = row[a].version]
  <2>1. Order(a, r) /\ row[a].state # "none" /\ from' = from  BY <1>2 DEF Configure
  <2>2. /\ r \in Row /\ r.state = "pending_configure" /\ r.version = row[a].version
        /\ r.cid = row[a].cid /\ r.run = row[a].run
    <3>1. r \in Row  BY <1>0 DEF Row
    <3>2. r.state = "pending_configure" /\ r.version = row[a].version
      BY DEF Row
    <3>3. r.cid = row[a].cid /\ r.run = row[a].run  BY DEF Row
    <3> QED  BY <3>1, <3>2, <3>3
  <2> HIDE DEF r
  <2>3. row[a].version \in 1..2  BY <2>1 DEF RowFits
  <2> QED  BY <1>0, <2>1, <2>2, <2>3, Ordered DEF Updates, Reinstalls
<1>3. CASE Update(a)
  <2> DEFINE v == 3 - row[a].version
             r == [row[a] EXCEPT !.state = "pending_update", !.version = v, !.old = row[a].version]
  <2>1. Order(a, r) /\ row[a].state = "installed" /\ from' = from  BY <1>3 DEF Update
  <2>2. row[a].version \in 1..2  BY <2>1 DEF RowFits
  <2>3. v \in 1..2  BY <2>2
  <2> HIDE DEF v
  <2>4. /\ r \in Row /\ r.state = "pending_update" /\ r.version = v /\ r.old = row[a].version
        /\ r.cid = row[a].cid /\ r.run = row[a].run
    <3>1. row[a].version \in 0..2 /\ v \in 0..2  BY <2>2, <2>3
    <3>2. r \in Row  BY ONLY <1>0, <1>k, <3>1, VersionRow
    <3>3. r.state = "pending_update" /\ r.version = v  BY DEF Row
    <3>4. r.old = row[a].version  BY DEF Row
    <3>5. r.cid = row[a].cid /\ r.run = row[a].run  BY DEF Row
    <3> QED  BY <3>2, <3>3, <3>4, <3>5
  <2> HIDE DEF r
  <2> QED  BY <1>0, <2>1, <2>2, <2>3, <2>4, Ordered DEF Reinstalls
<1>4. CASE ForceUpdate(a)
  <2>1. PICK v \in 1..2 :
           Order(a, [row[a] EXCEPT !.state = "pending_force_update", !.version = v,
                                   !.old = row[a].version])
    BY <1>4 DEF ForceUpdate
  <2> DEFINE r == [row[a] EXCEPT !.state = "pending_force_update", !.version = v,
                                 !.old = row[a].version]
  <2>2. row[a].state # "none" /\ from' = from  BY <1>4 DEF ForceUpdate
  <2>3. row[a].version \in 1..2  BY <2>2 DEF RowFits
  <2>4. /\ r \in Row /\ r.state = "pending_force_update" /\ r.version = v
        /\ r.old = row[a].version /\ r.cid = row[a].cid /\ r.run = row[a].run
    <3>1. row[a].version \in 0..2 /\ v \in 0..2  BY <2>3
    <3>2. r \in Row  BY ONLY <1>0, <1>k, <3>1, VersionRow
    <3>3. r.state = "pending_force_update" /\ r.version = v  BY DEF Row
    <3>4. r.old = row[a].version  BY DEF Row
    <3>5. r.cid = row[a].cid /\ r.run = row[a].run  BY DEF Row
    <3> QED  BY <3>2, <3>3, <3>4, <3>5
  <2>5. Order(a, r)  BY <2>1
  <2> HIDE DEF r
  <2> QED  BY <1>0, <2>2, <2>3, <2>4, <2>5, Ordered DEF Reinstalls
<1>5. CASE Restore(a)
  <2>1. PICK b \in saved[a] \cup {[NoBackup EXCEPT !.version = row[a].version]} :
           /\ Order(a, [row[a] EXCEPT !.state = "pending_restore", !.version = b.version,
                                      !.old = row[a].version])
           /\ from' = [from EXCEPT ![a] = IF b \in saved[a] THEN b ELSE NoBackup]
    BY <1>5 DEF Restore
  <2> DEFINE r == [row[a] EXCEPT !.state = "pending_restore", !.version = b.version,
                                 !.old = row[a].version]
  <2>2. row[a].state # "none"  BY <1>5 DEF Restore
  <2>3. row[a].version \in 1..2  BY <2>2 DEF RowFits
  <2>4. b.version \in 1..2 /\ (b \in saved[a] => b \in Saved)
    <3>1. b \in saved[a] => b \in Saved  BY DEF TypeOK
    <3>2. [NoBackup EXCEPT !.version = row[a].version].version = row[a].version  BY DEF NoBackup
    <3> QED  BY <2>3, <3>1, <3>2 DEF Saved
  <2>5. Order(a, r)  BY <2>1
  <2>6. /\ from' \in [Apps -> Saved \cup {NoBackup}]
        /\ from'[a] \in saved[a] \cup {NoBackup}
        /\ \A c \in Apps \ {a} : from'[c] = from[c]
    BY <1>0, <2>1, <2>4
  <2>7. /\ r \in Row /\ r.state = "pending_restore" /\ r.version = b.version
        /\ r.old = row[a].version /\ r.cid = row[a].cid /\ r.run = row[a].run
    <3>1. row[a].version \in 0..2 /\ b.version \in 0..2  BY <2>3, <2>4
    <3>2. r \in Row  BY ONLY <1>0, <1>k, <3>1, VersionRow
    <3>3. r.state = "pending_restore" /\ r.version = b.version  BY DEF Row
    <3>4. r.old = row[a].version  BY DEF Row
    <3>5. r.cid = row[a].cid /\ r.run = row[a].run  BY DEF Row
    <3> QED  BY <3>2, <3>3, <3>4, <3>5
  <2> HIDE DEF r
  <2> QED  BY <2>4, <2>5, <2>6, <2>7, Ordered DEF Updates
<1>6. CASE Backup(a)
  <2> DEFINE r == [row[a] EXCEPT !.state = "pending_backup"]
  <2>1. Order(a, r) /\ row[a].state = "installed" /\ from' = from  BY <1>6 DEF Backup
  <2>2. /\ r \in Row /\ r.state = "pending_backup" /\ r.version = row[a].version
        /\ r.cid = row[a].cid /\ r.run = row[a].run
    BY <1>0, StateRow
  <2> HIDE DEF r
  <2>3. row[a].version \in 1..2 /\ AtRest(a)  BY <2>1 DEF RowFits, AtRest
  <2> QED  BY <1>0, <2>1, <2>2, <2>3, Ordered DEF Updates, Reinstalls
<1>7. CASE Run(a)
  <2>1. PICK command \in RunCommands : Order(a, [row[a] EXCEPT !.run = command])
    BY <1>7 DEF Run, RunCommands
  <2> DEFINE r == [row[a] EXCEPT !.run = command]
  <2>2. row[a].state = "installed" /\ row[a].run \notin RunCommands /\ from' = from
    BY <1>7 DEF Run, RunCommands
  <2>3. /\ r \in Row /\ r.state = "installed" /\ r.version = row[a].version
        /\ r.cid = row[a].cid /\ r.run = command
    BY <2>2 DEF Row, RunCommands, RunStates
  <2>4. Order(a, r)  BY <2>1
  <2> HIDE DEF r
  <2>5. row[a].version \in 1..2 /\ AtRest(a)  BY <2>2 DEF RowFits, AtRest
  <2> QED  BY <1>0, <2>2, <2>3, <2>4, <2>5, Ordered DEF Updates, Reinstalls
<1>8. CASE Uninstall(a)
  <2>1. /\ task' = [task EXCEPT ![a] = NoTask]
        /\ manager' = [manager EXCEPT ![a].removal = "stopped", ![a].queued = FALSE]
        /\ row[a].state # "none" /\ Count("commands")
        /\ UNCHANGED <<row, things, images, con, sub, scheduler, monitor>>
    BY <1>8 DEF Uninstall
  <2>2. task' \in [Apps -> Task] /\ manager' \in [Apps -> Managed] /\ count' \in Counts
    BY <2>1, Counted DEF TypeOK, Managed
  <2>3. TypeOK'  BY <2>1, <2>2 DEF TypeOK, things, scheduler, monitor
  <2>4. RowFits(a)'  BY <2>1 DEF RowFits, things
  <2>5. Fits(a)'
    <3>1. AtRest(a)' => AtRest(a)  BY <2>1 DEF AtRest
    <3>2. task'[a] = NoTask  BY <2>1 DEF TypeOK
    <3> QED  BY <2>1, <2>4, <3>1, <3>2, Rewritten DEF things
  <2>6. ASSUME NEW b \in Apps \ {a}  PROVE Fits(b)'
    <3>1. about(b)' = about(b)  BY <2>1 DEF about, TypeOK, things
    <3> QED  BY <3>1, Elsewhere DEF IInv
  <2> QED  BY <2>3, <2>5, <2>6 DEF IInv
<1> QED  BY <1>1, <1>2, <1>3, <1>4, <1>5, <1>6, <1>7, <1>8 DEF Command

\* It is enough to look at the one app a step is about.
LEMMA OneApp ==
    ASSUME IInv, NEW a \in Apps, TypeOK', Fits(a)', \A b \in Apps \ {a} : about(b)' = about(b)
    PROVE  IInv'
<1>1. ASSUME NEW b \in Apps \ {a}  PROVE Fits(b)'  BY Elsewhere DEF IInv
<1> QED  BY <1>1 DEF IInv

\* What the task manager writes down.
LEMMA ManageStep ==
    ASSUME IInv, NEW a \in Apps, Manage(a)
    PROVE  IInv'
<1>k. /\ TypeOK /\ Fits(a) /\ RowFits(a)
      /\ row[a] \in Row /\ row[a].state \in States /\ NoTask \in Task /\ manager[a] \in Managed
  BY Known
<1> USE <1>k
<1>1. CASE MarkRemoval(a)
  <2>1. /\ manager[a].removal = "stopped"
        /\ UNCHANGED <<table, db, redis, saved, from, latest, images, con, sub, task, scheduler,
                       monitor, count>>
    BY <1>1 DEF MarkRemoval, things, commandFrame
  <2>2. row[a].state # "none"  BY <2>1 DEF RowFits
  <2>3. PICK s \in {"no", "marked"} : manager' = [manager EXCEPT ![a].removal = s]
    BY <1>1 DEF MarkRemoval
  <2>4. manager' \in [Apps -> Managed]  BY <2>3 DEF TypeOK, Managed
  <2>5. /\ row' \in [Apps -> Row] /\ row'[a].state \in {"gone", "pending_uninstall"}
        /\ row'[a].version = row[a].version /\ row'[a].cid = row[a].cid /\ row'[a].run = row[a].run
        /\ \A b \in Apps \ {a} : row'[b] = row[b]
    <3>1. CASE row[a].state = "gone"  BY <1>1, <3>1 DEF MarkRemoval, TypeOK
    <3>2. CASE row[a].state # "gone"
      <4>1. row' = [row EXCEPT ![a] = [row[a] EXCEPT !.state = "pending_uninstall"]]
        BY <1>1, <3>2 DEF MarkRemoval
      <4>2. "pending_uninstall" \in States  BY DEF States
      <4>3. [row[a] EXCEPT !.state = "pending_uninstall"] \in Row  BY <4>2, StateRow
      <4>4. row' \in [Apps -> Row] /\ row'[a] = [row[a] EXCEPT !.state = "pending_uninstall"]
        BY <4>1, <4>3 DEF TypeOK
      <4> QED  BY <4>1, <4>2, <4>4, StateRow DEF TypeOK
    <3> QED  BY <3>1, <3>2
  <2>6. TypeOK'  BY <2>1, <2>4, <2>5 DEF TypeOK, scheduler, monitor
  <2>7. RowFits(a)'  BY <2>2, <2>5 DEF RowFits, Updates, Reinstalls
  <2>8. ~AtRest(a)'  BY <2>5 DEF AtRest
  <2>9. Fits(a)'  BY <2>1, <2>5, <2>7, <2>8, Rewritten
  <2>10. \A b \in Apps \ {a} : about(b)' = about(b)  BY <2>1, <2>3, <2>5 DEF about, TypeOK
  <2> QED  BY <2>6, <2>9, <2>10, OneApp
<1>2. CASE StartRemoval(a)
  <2>1. /\ manager' = [manager EXCEPT ![a].removal = "no", ![a].queued = @ \/ task[a].n = 0]
        /\ UNCHANGED <<row, table, db, redis, saved, from, latest, images, con, sub, task,
                       scheduler, monitor, count>>
    BY <1>2 DEF StartRemoval, things, commandFrame
  <2>2. manager' \in [Apps -> Managed]  BY <2>1 DEF TypeOK, Managed
  <2>3. TypeOK'  BY <2>1, <2>2 DEF TypeOK, scheduler, monitor
  <2>4. manager'[a].crashed = manager[a].crashed /\ manager'[a].removal = "no"
    BY <2>1 DEF TypeOK, Managed
  <2>5. RowFits(a)'  BY <2>1, <2>4 DEF RowFits
  <2>6. AtRest(a)' => AtRest(a)  BY <2>1 DEF AtRest
  <2>7. Fits(a)'  BY <2>1, <2>5, <2>6, Rewritten
  <2>8. \A b \in Apps \ {a} : about(b)' = about(b)  BY <2>1 DEF about, TypeOK
  <2> QED  BY <2>3, <2>7, <2>8, OneApp
<1>3. CASE restartAppTask(a)
  <2>1. /\ manager' = [manager EXCEPT ![a].restarts = @ - 1, ![a].queued = TRUE]
        /\ manager[a].restarts > 0
        /\ task' = [task EXCEPT ![a] = NoTask]
        /\ UNCHANGED <<row, table, db, redis, saved, from, latest, images, con, sub,
                       scheduler, monitor, count>>
    BY <1>3 DEF restartAppTask, things
  <2>2. manager' \in [Apps -> Managed]
    <3> DEFINE m == [manager[a] EXCEPT !.restarts = @ - 1, !.queued = TRUE]
    <3>1. m \in Managed
      <4>1. manager[a].restarts - 1 \in Nat  BY <2>1 DEF Managed
      <4> QED  BY <4>1 DEF Managed
    <3>2. manager' = [manager EXCEPT ![a] = m]  BY <2>1
    <3> HIDE DEF m
    <3> QED  BY <3>1, <3>2 DEF TypeOK
  <2>3. task' \in [Apps -> Task] /\ task'[a] = NoTask  BY <2>1 DEF TypeOK
  <2>4. TypeOK'  BY <2>1, <2>2, <2>3 DEF TypeOK, scheduler, monitor
  <2>5. manager'[a].crashed = manager[a].crashed /\ manager'[a].removal = manager[a].removal
    BY <2>1 DEF TypeOK, Managed
  <2>6. RowFits(a)'  BY <2>1, <2>3, <2>5 DEF RowFits, NoTask
  <2>7. AtRest(a)' => AtRest(a)  BY <2>1 DEF AtRest
  <2>8. Fits(a)'  BY <2>1, <2>3, <2>6, <2>7, Rewritten
  <2>9. \A b \in Apps \ {a} : about(b)' = about(b)  BY <2>1 DEF about, TypeOK
  <2> QED  BY <2>4, <2>8, <2>9, OneApp
<1> QED  BY <1>1, <1>2, <1>3 DEF Manage

LEMMA CrashedManaged ==
    ASSUME TypeOK, NEW a \in Apps, NEW q \in BOOLEAN,
           manager' \in {manager, [manager EXCEPT ![a].crashed = q]}
    PROVE  manager' \in [Apps -> Managed]
<1>1. manager \in [Apps -> Managed] /\ manager[a] \in Managed  BY DEF TypeOK
<1>2. [manager[a] EXCEPT !.crashed = q] \in Managed  BY <1>1 DEF Managed
<1> HIDE DEF Managed
<1> QED  BY <1>1, <1>2

\* The task of an app ends with a state written to the row, or without one.
LEMMA Ended ==
    ASSUME IInv, NEW a \in Apps, task[a].n # 0, NEW s \in States,
           row' = [row EXCEPT ![a].state = s], task' = [task EXCEPT ![a] = NoTask],
           UNCHANGED <<table, db, redis, saved, from, latest, images, con, sub, scheduler>>,
           mailed' = mailed, alive' = alive, count' \in Counts,
           health' \in [Apps -> {"null", "healthy", "dead"}],
           manager' \in {manager, [manager EXCEPT ![a].crashed = TRUE]},
           s \in {row[a].state, "installed", "error", "gone"},
           s = "installed" => row[a].state = s \/ (Current(a) /\ Runs(a))
    PROVE  IInv'
<1>k. /\ TypeOK /\ Fits(a) /\ RowFits(a) /\ row[a] \in Row /\ NoTask \in Task
  BY Known
<1> USE <1>k
<1>1. /\ row' \in [Apps -> Row] /\ row'[a].state = s
      /\ row'[a].version = row[a].version /\ row'[a].old = row[a].old
      /\ row'[a].cid = row[a].cid /\ row'[a].run = row[a].run
  <2>1. row' = [row EXCEPT ![a] = [row[a] EXCEPT !.state = s]]  OBVIOUS
  <2>2. [row[a] EXCEPT !.state = s] \in Row  BY StateRow
  <2>3. row' \in [Apps -> Row] /\ row'[a] = [row[a] EXCEPT !.state = s]
    BY <2>1, <2>2 DEF TypeOK
  <2> QED  BY <2>3, StateRow
<1>2. task' \in [Apps -> Task] /\ task'[a] = NoTask  BY DEF TypeOK
<1>3. manager' \in [Apps -> Managed]  BY CrashedManaged
<1>4. TypeOK'  BY <1>1, <1>2, <1>3 DEF TypeOK, scheduler
<1>5. row[a].state # "none"  BY DEF RowFits
<1>6. RowFits(a)'  BY <1>1, <1>5 DEF RowFits, Updates, Reinstalls
<1>7. AtRest(a)' => AtRest(a) \/ (Current(a) /\ Runs(a))
  <2>1. CASE s = row[a].state  BY <1>1, <2>1 DEF AtRest
  <2>2. CASE s = "installed"  BY <1>1, <2>2 DEF AtRest
  <2>3. CASE s \in {"error", "gone"}  BY <1>1, <2>3 DEF AtRest
  <2> QED  BY <2>1, <2>2, <2>3
<1>8. Fits(a)'  BY <1>1, <1>2, <1>6, <1>7, Rewritten
<1>9. \A b \in Apps \ {a} : about(b)' = about(b)  BY DEF about, TypeOK
<1> QED  BY <1>4, <1>8, <1>9, OneApp

\* The same row.
LEMMA SameRow ==
    ASSUME TypeOK, NEW a \in Apps
    PROVE  /\ row = [row EXCEPT ![a].state = row[a].state]
           /\ [row EXCEPT ![a] = row[a]] = [row EXCEPT ![a].state = row[a].state]
<1>1. row[a] \in Row /\ row \in [Apps -> Row]  BY DEF TypeOK
<1>2. row[a] = [row[a] EXCEPT !.state = row[a].state]  BY <1>1 DEF Row
<1> QED  BY <1>1, <1>2

\* A task that fails leaves the app in error, or installed when it only was to be backed up, or
\* the row as it is.
LEMMA FailStep ==
    ASSUME IInv, NEW a \in Apps, Fail(a)
    PROVE  IInv'
<1>k. /\ TypeOK /\ EnvFits(a) /\ RunFits(a) /\ row[a] \in Row /\ row[a].state \in States
  BY Known
<1> USE <1>k
<1>1. /\ task[a].n # 0 /\ task' = [task EXCEPT ![a] = NoTask]
      /\ UNCHANGED <<manager, table, db, redis, saved, from, latest, images, con, sub, scheduler,
                     health, mailed, alive>>
  BY DEF Fail, End, things, monitor
<1>2. count' \in Counts
  <2>1. CASE UNCHANGED count  BY <2>1 DEF TypeOK
  <2>2. CASE Count("faults")  BY <2>2, Counted
  <2> QED  BY <2>1, <2>2 DEF Fail
<1>3. health' \in [Apps -> {"null", "healthy", "dead"}]  BY <1>1 DEF TypeOK
<1>4. CASE row' = [row EXCEPT ![a] = row[a]]
  <2> DEFINE s == row[a].state
  <2>1. row' = [row EXCEPT ![a].state = s] /\ s \in States  BY <1>4, SameRow
  <2>2. /\ s \in {row[a].state, "installed", "error", "gone"}
        /\ s = "installed" => row[a].state = s \/ (Current(a) /\ Runs(a))
    OBVIOUS
  <2> HIDE DEF s
  <2> QED  BY <1>1, <1>2, <1>3, <2>1, <2>2, Ended
<1>5. CASE /\ task[a].does = "pending_backup"
           /\ row' = [row EXCEPT ![a] = [row[a] EXCEPT !.state = "installed"]]
  <2>1. row' = [row EXCEPT ![a].state = "installed"] /\ "installed" \in States  BY <1>5 DEF States
  <2>2. Current(a) /\ Runs(a)  BY <1>1, <1>5 DEF EnvFits, RunFits, Mild
  <2> QED  BY <1>1, <1>2, <1>3, <2>1, <2>2, Ended
<1>6. CASE row' = [row EXCEPT ![a] = [row[a] EXCEPT !.state = "error"]]
  <2>1. row' = [row EXCEPT ![a].state = "error"] /\ "error" \in States  BY <1>6 DEF States
  <2> QED  BY <1>1, <1>2, <1>3, <2>1, Ended
<1> QED  BY <1>4, <1>5, <1>6 DEF Fail, End

\* A task that is done leaves the app as it was to become, whatever its row says.
LEMMA FinishStep ==
    ASSUME IInv, NEW a \in Apps, Finish(a)
    PROVE  IInv'
<1>k. /\ TypeOK /\ TaskFits(a) /\ EnvFits(a) /\ RunFits(a) /\ row[a] \in Row
      /\ row[a].state \in States /\ task[a].n \in Nat
  BY Known
<1> USE <1>k
<1>1. /\ task[a].n # 0 /\ task[a].n = Len(PlanOf(a)) + 1 /\ task' = [task EXCEPT ![a] = NoTask]
      /\ UNCHANGED <<manager, table, db, redis, saved, from, latest, images, con, sub, scheduler,
                     mailed, alive, count>>
  BY DEF Finish, End, things
<1>2. count' \in Counts /\ task[a].does \in Pending  BY <1>1 DEF TypeOK, TaskFits
<1>3. health' \in [Apps -> {"null", "healthy", "dead"}]  BY DEF Finish, TypeOK
<1>4. CASE task[a].does \in RunCommands
  <2>1. row' = [row EXCEPT ![a] = row[a]]  BY <1>4 DEF Finish, End, RunCommands
  <2> DEFINE s == row[a].state
  <2>2. row' = [row EXCEPT ![a].state = s] /\ s \in States  BY <2>1, SameRow
  <2>3. /\ s \in {row[a].state, "installed", "error", "gone"}
        /\ s = "installed" => row[a].state = s \/ (Current(a) /\ Runs(a))
    OBVIOUS
  <2> HIDE DEF s
  <2> QED  BY <1>1, <1>2, <1>3, <2>2, <2>3, Ended
<1>5. CASE task[a].does = "pending_uninstall"
  <2>1. row' = [row EXCEPT ![a].state = "gone"] /\ "gone" \in States
    BY <1>5 DEF Finish, End, RunCommands, States
  <2> QED  BY <1>1, <1>2, <1>3, <2>1, Ended
<1>6. CASE task[a].does \notin RunCommands \cup {"pending_uninstall"}
  <2>1. row' = [row EXCEPT ![a].state = "installed"] /\ "installed" \in States
    BY <1>6 DEF Finish, End, States
  <2>2. Current(a) /\ Runs(a)
    <3>1. CASE task[a].does \in Mild  BY <1>1, <3>1 DEF EnvFits, RunFits
    <3>2. CASE task[a].does \in Builds
      <4>1. Past(a, "create") /\ Past(a, "start")  BY <1>1, <1>2, <3>2, Order1
      <4> QED  BY <4>1 DEF EnvFits, RunFits, Runs
    <3> QED  BY <1>2, <1>6, <3>1, <3>2 DEF Pending
  <2> QED  BY <1>1, <1>2, <1>3, <2>1, <2>2, Ended
<1> QED  BY <1>4, <1>5, <1>6

\* A crash says error, and later than anything else.
LEMMA CrashSteps ==
    ASSUME IInv, NEW a \in Apps, TaskCrashes(a) \/ CrashWrite(a)
    PROVE  IInv'
<1>k. /\ TypeOK /\ Fits(a) /\ RowFits(a) /\ row[a] \in Row /\ row[a].state \in States
  BY Known
<1> USE <1>k
<1>1. CASE TaskCrashes(a)
  <2>1. /\ task[a].n # 0 /\ task' = [task EXCEPT ![a] = NoTask] /\ row' = row
        /\ manager' = [manager EXCEPT ![a].crashed = TRUE]
        /\ UNCHANGED <<table, db, redis, saved, from, latest, images, con, sub, scheduler,
                       health, mailed, alive>>
    BY <1>1 DEF TaskCrashes, things, monitor
  <2>2. count' \in Counts /\ health' \in [Apps -> {"null", "healthy", "dead"}]
    BY <1>1, <2>1, Counted DEF TaskCrashes, TypeOK
  <2> DEFINE s == row[a].state
  <2>3. row' = [row EXCEPT ![a].state = s] /\ s \in States  BY <2>1, SameRow
  <2>4. /\ s \in {row[a].state, "installed", "error", "gone"}
        /\ s = "installed" => row[a].state = s \/ (Current(a) /\ Runs(a))
    OBVIOUS
  <2> HIDE DEF s
  <2> QED  BY <2>1, <2>2, <2>3, <2>4, Ended
<1>2. CASE CrashWrite(a)
  <2> DEFINE s == IF row[a].state = "gone" THEN "gone" ELSE "error"
             r == [row[a] EXCEPT !.state = s]
  <2>1. /\ manager[a].crashed
        /\ manager' = [manager EXCEPT ![a].crashed = FALSE]
        /\ row' = [row EXCEPT ![a] = r]
        /\ UNCHANGED <<table, db, redis, saved, from, latest, images, con, sub, task, scheduler,
                       monitor, count>>
    BY <1>2 DEF CrashWrite, things
  <2>2. row[a].state # "none"  BY <2>1 DEF RowFits
  <2>3. s \in States /\ s \in {"gone", "error"}  BY DEF States
  <2> HIDE DEF s
  <2>4. /\ r \in Row /\ r.state = s /\ r.version = row[a].version /\ r.cid = row[a].cid
        /\ r.run = row[a].run
    BY <2>3, StateRow
  <2> HIDE DEF r
  <2>5. row' \in [Apps -> Row] /\ row'[a] = r  BY <2>1, <2>4 DEF TypeOK
  <2>6. manager' \in [Apps -> Managed]  BY <2>1, CrashedManaged
  <2>7. TypeOK'  BY <2>1, <2>5, <2>6 DEF TypeOK, scheduler, monitor
  <2>8. RowFits(a)'  BY <2>2, <2>3, <2>4, <2>5 DEF RowFits, Updates, Reinstalls
  <2>9. ~AtRest(a)'  BY <2>3, <2>4, <2>5 DEF AtRest
  <2>10. Fits(a)'  BY <2>1, <2>4, <2>5, <2>8, <2>9, Rewritten
  <2>11. \A b \in Apps \ {a} : about(b)' = about(b)  BY <2>1 DEF about, TypeOK
  <2> QED  BY <2>7, <2>10, <2>11, OneApp
<1> QED  BY <1>1, <1>2

\* When the box ends, every task is to be done again; what was done stays.
LEMMA GoneStep ==
    ASSUME IInv, ProcessGone, count' \in Counts
    PROVE  IInv'
<1>0. /\ TypeOK /\ task' = [a \in Apps |-> NoTask]
      /\ manager' = [a \in Apps |-> [Idle EXCEPT !.queued = Unfinished(row[a])]]
      /\ UNCHANGED <<row, table, db, redis, saved, from, latest, images, con, health, alive>>
  BY DEF IInv, ProcessGone, things
<1>1. TypeOK'
  <2>1. task' \in [Apps -> Task]
    <3>1. NoTask \in Task  BY DEF NoTask, Task, Addons, States
    <3> QED  BY <1>0, <3>1
  <2>2. /\ gState' \in [Apps -> BOOLEAN] /\ job' \in [Apps -> BOOLEAN]
        /\ mailed' \in [Apps -> BOOLEAN]
    BY DEF ProcessGone
  <2>3. sync' \in SyncState  BY DEF ProcessGone, NoSync, SyncState
  <2>4. tick' \in [Apps -> TickState]  BY DEF ProcessGone, NoTick, TickState
  <2>5. sub' \in [Apps -> {"none", "made", "lost"}]  BY <1>0 DEF ProcessGone, TypeOK
  <2>6. manager' \in [Apps -> Managed]
    <3>1. \A r : Unfinished(r) \in BOOLEAN  BY DEF Unfinished
    <3>2. \A q \in BOOLEAN : [Idle EXCEPT !.queued = q] \in Managed  BY DEF Idle, Managed
    <3> QED  BY <1>0, <3>1, <3>2
  <2> QED  BY <1>0, <2>1, <2>2, <2>3, <2>4, <2>5, <2>6 DEF TypeOK
<1>2. ASSUME NEW a \in Apps  PROVE Fits(a)'
  <2>1. Fits(a) /\ RowFits(a)  BY Known
  <2>2. task'[a] = NoTask  BY <1>0
  <2>3. task'[a].n = 0 /\ ~manager'[a].crashed /\ manager'[a].removal = "no"
    BY <1>0 DEF NoTask, Idle
  <2>4. RowFits(a)'  BY <1>0, <2>1, <2>3 DEF RowFits
  <2>5. AtRest(a)' => AtRest(a)  BY <1>0 DEF AtRest
  <2> QED  BY <1>0, <2>1, <2>2, <2>4, <2>5, Rewritten
<1> QED  BY <1>1, <1>2 DEF IInv

LEMMA EndStep ==
    ASSUME IInv, Crash \/ \E a \in Apps : LookupThrows(a)
    PROVE  IInv'
<1>1. CASE Crash
  <2>1. count' \in Counts  BY <1>1, Counted DEF Crash, IInv
  <2> QED  BY <1>1, <2>1, GoneStep DEF Crash
<1>2. CASE \E a \in Apps : LookupThrows(a)
  <2>1. ProcessGone /\ count' \in Counts  BY <1>2 DEF LookupThrows, IInv, TypeOK
  <2> QED  BY <2>1, GoneStep
<1> QED  BY <1>1, <1>2

-----------------------------------------------------------------------------
\* The steps of a task.

\* A step ends: the task is past it, and what there is to do in the next is found out.
LEMMA Advanced ==
    ASSUME TypeOK, NEW a \in Apps, NEW x, In(a, x), Advance(a)
    PROVE  /\ task' \in [Apps -> Task]
           /\ task'[a].n = task[a].n + 1 /\ task'[a].n \in 1..(Len(PlanOf(a)) + 1)
           /\ task'[a].does = task[a].does /\ task'[a].version = task[a].version
           /\ task'[a].old = task[a].old /\ task'[a].from = task[a].from
           /\ task'[a].addon = "none" /\ task'[a].secret = 0
           /\ PlanOf(a)' = PlanOf(a)
           /\ \A y : In(a, y)' => task'[a].todo = Todo(a, y)
           /\ \A y : Past(a, y)' <=> Past(a, y) \/ y = x
           /\ \A b \in Apps \ {a} : task'[b] = task[b]
<1>0. task[a] \in Task /\ task[a].does \in Whats /\ task \in [Apps -> Task]
  <2>1. task[a] \in Task /\ task \in [Apps -> Task]  BY DEF TypeOK
  <2> QED  BY <2>1 DEF Task, Whats
<1>1. task[a].n \in 1..Len(PlanOf(a)) /\ PlanOf(a)[task[a].n] = x  BY DEF In
<1>2. Len(PlanOf(a)) \in 0..11  BY <1>0, PlanLength DEF PlanOf
<1> DEFINE n == task[a].n + 1
           todo == IF n <= Len(PlanOf(a)) THEN Todo(a, PlanOf(a)[n]) ELSE {}
           next == [task[a] EXCEPT !.n = n, !.addon = "none", !.secret = 0, !.todo = todo]
<1>3. task' = [task EXCEPT ![a] = next]  BY DEF Advance
<1>4. /\ n \in 0..12 /\ todo \in SUBSET (Addons \cup {"app", "sub"})
  <2>1. \A y : Todo(a, y) \in SUBSET (Addons \cup {"app", "sub"})  BY DEF Todo, Addons
  <2>2. todo \in SUBSET (Addons \cup {"app", "sub"})  BY <2>1
  <2>3. \A i, l : l \in 0..11 /\ i \in 1..l => i + 1 \in 0..12  OBVIOUS
  <2>4. n \in 0..12  BY <1>1, <1>2, <2>3
  <2> QED  BY <2>2, <2>4
<1>5. n = task[a].n + 1 /\ todo = IF n <= Len(PlanOf(a)) THEN Todo(a, PlanOf(a)[n]) ELSE {}
  OBVIOUS
<1> HIDE DEF n, todo
<1>6. /\ next \in Task
      /\ next.n = n /\ next.todo = todo /\ next.addon = "none" /\ next.secret = 0
      /\ next.does = task[a].does /\ next.version = task[a].version /\ next.old = task[a].old
      /\ next.from = task[a].from
  BY <1>0, <1>4 DEF Task
<1> HIDE DEF next
<1>7. task' \in [Apps -> Task] /\ task'[a] = next /\ \A b \in Apps \ {a} : task'[b] = task[b]
  BY <1>0, <1>3, <1>6
<1>8. PlanOf(a)' = PlanOf(a)  BY <1>6, <1>7 DEF PlanOf
<1>9. \A y : In(a, y)' => task'[a].todo = Todo(a, y)  BY <1>1, <1>2, <1>5, <1>6, <1>7, <1>8 DEF In
<1>10. \A y : Past(a, y)' <=> Past(a, y) \/ y = x  BY <1>1, <1>2, <1>5, <1>6, <1>7, <1>8 DEF Past
<1> QED  BY <1>1, <1>2, <1>5, <1>6, <1>7, <1>8, <1>9, <1>10

\* A task that stops an app does nothing else.
LEMMA StopPlan ==
    ASSUME NEW a \in Apps, task[a].does = "pending_stop", NEW x, In(a, x)
    PROVE  x \in {"stop", "stopped"}
<1>1. PlanOf(a) = <<"stop", "stopped">>  BY Plans DEF PlanOf, Whats, RunStates
<1> QED  BY <1>1 DEF In

\* The row of an app whose task changes it says so.
LEMMA Unrest ==
    ASSUME IInv, NEW a \in Apps, task[a].n # 0, task[a].does \notin Mild
    PROVE  ~AtRest(a)
BY Known DEF EnvFits

\* The next step of a task starts with what there is to do in it.
LEMMA TaskMoves ==
    ASSUME IInv, NEW a \in Apps, NEW x, In(a, x), Advance(a),
           row'[a].state = row[a].state, row'[a].version = row[a].version,
           row'[a].old = row[a].old, manager'[a] = manager[a], from'[a] = from[a],
           saved[a] \subseteq saved'[a],
           In(a, "delete")' => con'[a].id = con[a].id
    PROVE  /\ RowFits(a)' /\ TaskFits(a)'
           /\ In(a, "setup")' => "redis" \in task'[a].todo
<1>k. /\ TypeOK /\ RowFits(a) /\ TaskFits(a) /\ task[a].n \in Nat /\ task[a].does \in Whats
  BY Known
<1> USE <1>k
<1>0. task[a].n # 0 /\ task[a].does \in Pending  BY OneStep
<1>1. /\ task'[a].n \in 1..(Len(PlanOf(a)) + 1) /\ task'[a].n # 0
      /\ task'[a].does = task[a].does /\ task'[a].version = task[a].version
      /\ task'[a].old = task[a].old
      /\ task'[a].addon = "none" /\ task'[a].secret = 0 /\ PlanOf(a)' = PlanOf(a)
      /\ \A y : In(a, y)' => task'[a].todo = Todo(a, y)
  BY Advanced
<1>2. RowFits(a)'
  <2>1. row[a].state # "none"  BY <1>0 DEF RowFits
  <2> QED  BY <2>1 DEF RowFits
<1>3. Unused(a)' = Unused(a)  BY <1>1 DEF Unused
<1>4. In(a, "teardown")' => task'[a].todo \subseteq Unused(a)' \cap Addons  BY <1>1, <1>3 DEF Todo
<1>5. In(a, "setup")' => task'[a].todo = Asks(task'[a].version) \cap Addons  BY <1>1 DEF Todo
<1>6. In(a, "delete")' => (con'[a].id # 0 => "app" \in task'[a].todo)  BY <1>1 DEF Todo
<1>7. TaskFits(a)'  BY <1>0, <1>1, <1>4, <1>5, <1>6 DEF TaskFits
<1>8. In(a, "setup")' => "redis" \in task'[a].todo
  <2>1. task[a].version \in 1..2  BY <1>0 DEF TaskFits
  <2>2. "redis" \in Asks(task[a].version) \cap Addons  BY <2>1 DEF Asks, Addons
  <2> QED  BY <1>1, <1>5, <2>2
<1> QED  BY <1>2, <1>7, <1>8

\* Most steps leave the environment as it is, but for whether the container runs,
LEMMA EnvKept ==
    ASSUME IInv, NEW a \in Apps, NEW x, In(a, x), Advance(a),
           x \notin {"delete", "download", "setup", "create"},
           row'[a].state = row[a].state, row'[a].cid = row[a].cid,
           con'[a].id = con[a].id, con'[a].version = con[a].version, con'[a].env = con[a].env,
           con[a] = NoContainer => con'[a] = NoContainer,
           table'[a] = table[a], redis'[a] = redis[a], images'[a] = images[a],
           In(a, "setup")' => "redis" \in task'[a].todo
    PROVE  EnvFits(a)'
<1>k. TypeOK /\ EnvFits(a) /\ task[a].n \in Nat /\ task[a].does \in Whats  BY Known
<1> USE <1>k
<1>0. task[a].n # 0  BY OneStep
<1>1. /\ task'[a].does = task[a].does /\ task'[a].version = task[a].version
      /\ task'[a].addon = "none"
      /\ \A y : Past(a, y)' <=> Past(a, y) \/ y = x
  BY Advanced
<1>2. (RedisFits(a)' <=> RedisFits(a)) /\ (Current(a)' <=> Current(a)) /\ (AtRest(a)' <=> AtRest(a))
  BY DEF RedisFits, Current, AtRest
<1>3. /\ Past(a, "delete")' <=> Past(a, "delete")
      /\ Past(a, "download")' <=> Past(a, "download")
      /\ Past(a, "setup")' <=> Past(a, "setup")
      /\ Past(a, "create")' <=> Past(a, "create")
  BY <1>1
<1> QED  BY <1>0, <1>1, <1>2, <1>3 DEF EnvFits

\* or leave that as it is,
LEMMA RunKept ==
    ASSUME IInv, NEW a \in Apps, NEW x, In(a, x), Advance(a),
           x \notin {"stop", "stopped", "start", "started"},
           row'[a].state = row[a].state, row'[a].run = row[a].run, con'[a].runs = con[a].runs
    PROVE  RunFits(a)'
<1>k. TypeOK /\ RunFits(a) /\ task[a].n \in Nat /\ task[a].does \in Whats  BY Known
<1> USE <1>k
<1>0. task[a].n # 0 /\ task[a].does # "pending_stop"  BY OneStep, StopPlan
<1>1. /\ task'[a].does = task[a].does
      /\ \A y : Past(a, y)' <=> Past(a, y) \/ y = x
  BY Advanced
<1>2. (Runs(a)' <=> Runs(a)) /\ (AtRest(a)' <=> AtRest(a))  BY DEF Runs, AtRest
<1>3. /\ Past(a, "start")' <=> Past(a, "start")
      /\ Past(a, "stop")' <=> Past(a, "stop")
  BY <1>1
<1> QED  BY <1>0, <1>1, <1>2, <1>3 DEF RunFits

\* and leave the data alone.
LEMMA DataKept ==
    ASSUME IInv, NEW a \in Apps, NEW x, In(a, x), Advance(a), x \notin {"stop", "backup"},
           db'[a] = db[a], saved'[a] = saved[a], latest'[a] = latest[a]
    PROVE  DataFits(a)'
<1>k. TypeOK /\ DataFits(a) /\ task[a].n \in Nat /\ task[a].does \in Whats  BY Known
<1> USE <1>k
<1>0. task[a].n # 0  BY OneStep
<1>1. /\ task'[a].does = task[a].does /\ task'[a].version = task[a].version
      /\ task'[a].old = task[a].old /\ task'[a].from = task[a].from
      /\ \A y : Past(a, y)' <=> Past(a, y) \/ y = x
  BY Advanced
<1>2. IsSaved(a)' <=> IsSaved(a)  BY DEF IsSaved
<1>3. MayDrop(a)' => MayDrop(a)
  <2>1. Unused(a)' = Unused(a)  BY <1>1 DEF Unused
  <2>2. GivenUp(a)' <=> GivenUp(a)  BY <1>1, <2>1 DEF GivenUp
  <2>3. /\ Past(a, "stop")' => Past(a, "stop")
        /\ Past(a, "start") => Past(a, "start")'
        /\ Past(a, "backup")' => Past(a, "backup")
    BY <1>1
  <2> QED  BY <1>1, <2>2, <2>3 DEF MayDrop
<1> QED  BY <1>0, <1>1, <1>2, <1>3 DEF DataFits

\* A task begins by what the row says, at a step in which there is nothing to find out.
LEMMA StartStep ==
    ASSUME IInv, NEW a \in Apps, startTask(a)
    PROVE  IInv'
<1>k. /\ TypeOK /\ Fits(a) /\ RowFits(a) /\ EnvFits(a) /\ RunFits(a) /\ DataFits(a)
      /\ row[a] \in Row /\ row[a].state \in States /\ NoTask \in Task /\ manager[a] \in Managed
  BY Known
<1> USE <1>k
<1> DEFINE what == Does(row[a])
           next == [NoTask EXCEPT !.n = 1, !.does = what, !.version = row[a].version,
                                  !.old = row[a].old, !.from = from[a]]
<1>0. /\ manager' = [manager EXCEPT ![a].queued = FALSE]
      /\ task' = [task EXCEPT ![a] = IF Plan(what) = <<>> THEN NoTask ELSE next]
      /\ UNCHANGED <<row, table, db, redis, saved, from, latest, images, con, sub, scheduler,
                     monitor, count>>
  BY DEF startTask, things
<1>1. what \in Whats
  <2>1. row[a].run \in RunStates  BY DEF Row
  <2>2. "pending_start" \in RunStates  BY DEF RunStates
  <2> QED  BY <2>1, <2>2 DEF Does, Whats
<1>2. /\ next \in Task /\ next.n = 1 /\ next.does = what /\ next.version = row[a].version
      /\ next.old = row[a].old /\ next.from = from[a] /\ next.todo = {} /\ next.addon = "none"
      /\ next.secret = 0
  <2>1. from[a] \in Saved \cup {NoBackup}  BY DEF TypeOK
  <2>2. row[a].version \in 0..2 /\ row[a].old \in 0..2  BY DEF Row
  <2>3. what \in States \cup RunStates  BY <1>1 DEF Whats
  <2> HIDE DEF what
  <2>4. 1 \in 0..12  OBVIOUS
  <2>5. /\ next.n = 1 /\ next.does = what /\ next.version = row[a].version
        /\ next.old = row[a].old /\ next.from = from[a] /\ next.todo = {} /\ next.addon = "none"
        /\ next.secret = 0
    BY DEF NoTask
  <2>6. next \in Task  BY <2>1, <2>2, <2>3, <2>4 DEF Task
  <2> QED  BY <2>5, <2>6
<1>3. /\ row[a].state = "installed" =>
           /\ what \in {"pending_start", row[a].run} /\ what \in RunStates
           /\ what = "pending_stop" => row[a].run = "pending_stop"
      /\ row[a].state # "installed" => what = row[a].state
  <2>1. row[a].run \in RunStates  BY DEF Row
  <2> QED  BY <2>1 DEF Does, RunStates
<1> HIDE DEF next, what
<1>4. /\ task' \in [Apps -> Task]
      /\ task'[a] = IF Plan(what) = <<>> THEN NoTask ELSE next
      /\ \A b \in Apps \ {a} : task'[b] = task[b]
  BY <1>0, <1>2 DEF TypeOK
<1>5. manager' \in [Apps -> Managed] /\ \A b \in Apps \ {a} : manager'[b] = manager[b]
  <2>1. [manager[a] EXCEPT !.queued = FALSE] \in Managed  BY DEF Managed
  <2>2. manager' = [manager EXCEPT ![a] = [manager[a] EXCEPT !.queued = FALSE]]  BY <1>0
  <2> HIDE DEF Managed
  <2> QED  BY <2>1, <2>2 DEF TypeOK
<1>6. TypeOK'  BY <1>0, <1>4, <1>5 DEF TypeOK, scheduler, monitor
<1>7. manager'[a].crashed = manager[a].crashed /\ manager'[a].removal = manager[a].removal
  BY <1>0 DEF TypeOK, Managed
<1>8. row[a].state = "none" => Plan(what) = <<>>
  <2>1. "none" \notin Pending
    BY DEF Pending, Builds, Mild, Reinstalls, Updates, RunCommands
  <2> QED  BY <1>1, <1>3, <2>1, PlanLength
<1>9. RowFits(a)'
  <2>1. row[a].state = "none" => task'[a].n = 0  BY <1>4, <1>8 DEF NoTask
  <2> QED  BY <1>0, <1>7, <2>1 DEF RowFits
<1>10. Fits(a)'
  <2>1. CASE Plan(what) = <<>>
    <3>1. AtRest(a)' => AtRest(a)  BY <1>0 DEF AtRest
    <3>2. task'[a] = NoTask  BY <1>4, <2>1
    <3> QED  BY <1>0, <1>9, <3>1, <3>2, Rewritten
  <2>2. CASE Plan(what) # <<>>
    <3>1. task'[a] = next /\ what \in Pending /\ Len(Plan(what)) \in 1..11
      BY <1>1, <1>4, <2>2, PlanLength
    <3>2. PlanOf(a)' = Plan(what)  BY <1>2, <3>1 DEF PlanOf
    <3>3. Plan(what)[1] \in {"stop", "download", "backup", "start"}
      <4> USE <1>1, <3>1
      <4>1. CASE what \in Reinstalls  BY <4>1, Plans
      <4>2. CASE what = "pending_configure"  BY <4>2, Plans
      <4>3. CASE what = "pending_update"  BY <4>3, Plans
      <4>4. CASE what = "pending_force_update"  BY <4>4, Plans
      <4>5. CASE what = "pending_backup"  BY <4>5, Plans
      <4>6. CASE what = "pending_uninstall"  BY <4>6, Plans
      <4>7. CASE what = "pending_stop"  BY <4>7, Plans
      <4>8. CASE what = "pending_start"  BY <4>8, Plans
      <4> QED  BY <4>1, <4>2, <4>3, <4>4, <4>5, <4>6, <4>7, <4>8, Kinds
    <3>4. \A x : ~Past(a, x)' /\ (In(a, x)' => x \in {"stop", "download", "backup", "start"})
      BY <1>2, <3>1, <3>2, <3>3 DEF In, Past
    <3>5. ~MayDrop(a)'  BY <3>4 DEF MayDrop
    <3>6. what \in Mild <=> AtRest(a)
      <4>1. CASE row[a].state = "installed"
        <5>1. what \in RunStates \cap Pending  BY <1>3, <3>1, <4>1
        <5> QED
          BY <4>1, <5>1 DEF AtRest, Mild, RunStates, Pending, Builds, Reinstalls, Updates, RunCommands
      <4>2. CASE row[a].state # "installed"
        <5>1. what = row[a].state  BY <1>3, <4>2
        <5> QED  BY <4>2, <5>1 DEF AtRest, Mild, RunCommands, States
      <4> QED  BY <4>1, <4>2
    <3>7. TaskFits(a)'
      <4>1. row[a].version \in 1..2
        BY <1>8, <2>2 DEF RowFits
      <4>2. what \in Updates => row[a].old \in 1..2
        <5>1. what \in Updates => row[a].state = what
          BY <1>3 DEF Updates, RunStates
        <5> QED  BY <5>1 DEF RowFits
      <4> QED  BY <1>2, <3>1, <3>2, <3>4, <4>1, <4>2 DEF TaskFits
    <3>8. (Current(a)' <=> Current(a)) /\ (Runs(a)' <=> Runs(a)) /\ (AtRest(a)' <=> AtRest(a))
          /\ (IsSaved(a)' <=> IsSaved(a))
      BY <1>0 DEF Current, RedisFits, Runs, AtRest, IsSaved
    <3>9. EnvFits(a)'  BY <1>0, <1>2, <3>1, <3>4, <3>6, <3>8 DEF EnvFits
    <3>10. RunFits(a)'
      <4>1. what = "pending_stop" => row[a].run = "pending_stop"
        <5>1. "pending_stop" \notin States  BY DEF States
        <5> QED  BY <1>3, <5>1
      <4> QED  BY <1>0, <1>2, <3>1, <3>4, <3>6, <3>8, <4>1 DEF RunFits
    <3>11. DataFits(a)'
      <4>1. what \in Reinstalls => row[a].state = what  BY <1>3 DEF Reinstalls, RunStates
      <4>2. what \in Reinstalls => from[a] \in saved[a] \cup {NoBackup}  BY <4>1 DEF RowFits
      <4> QED  BY <1>0, <1>2, <3>1, <3>5, <3>8, <4>2 DEF DataFits
    <3> QED  BY <1>9, <3>7, <3>9, <3>10, <3>11 DEF Fits
  <2> QED  BY <2>1, <2>2
<1>11. \A b \in Apps \ {a} : about(b)' = about(b)  BY <1>0, <1>4, <1>5 DEF about
<1> QED  BY <1>6, <1>10, <1>11, OneApp

LEMMA EqualContainers ==
    ASSUME NEW c \in Container, NEW d \in Container,
           c.id = d.id, c.version = d.version, c.env = d.env, c.runs = d.runs
    PROVE  c = d
BY DEF Container

\* A container that is stopped or started is the same.
LEMMA SameContainer ==
    ASSUME TypeOK, NEW a \in Apps, NEW runs \in BOOLEAN, con' = [con EXCEPT ![a].runs = runs]
    PROVE  /\ con' \in [Apps -> Container] /\ \A b \in Apps \ {a} : con'[b] = con[b]
           /\ con'[a].id = con[a].id /\ con'[a].version = con[a].version
           /\ con'[a].env = con[a].env /\ con'[a].runs = runs
           /\ ~runs /\ con[a] = NoContainer => con'[a] = NoContainer
<1>1. con \in [Apps -> Container] /\ con[a] \in Container  BY DEF TypeOK
<1> DEFINE c == [con[a] EXCEPT !.runs = runs]
<1>2. /\ c \in Container /\ c.id = con[a].id /\ c.version = con[a].version
      /\ c.env = con[a].env /\ c.runs = runs
  BY <1>1 DEF Container
<1>3. ~runs /\ con[a] = NoContainer => c = NoContainer
  <2> SUFFICES ASSUME ~runs, con[a] = NoContainer  PROVE c = NoContainer
    OBVIOUS
  <2>1. runs = FALSE /\ NoContainer.runs = FALSE /\ NoContainer \in Container
    BY <1>1 DEF NoContainer
  <2>2. /\ c.id = NoContainer.id /\ c.version = NoContainer.version /\ c.env = NoContainer.env
        /\ c.runs = NoContainer.runs
    BY <1>2, <2>1
  <2> HIDE DEF c
  <2> QED  BY <1>2, <2>1, <2>2, EqualContainers
<1>4. con' = [con EXCEPT ![a] = c]  OBVIOUS
<1> HIDE DEF c
<1> QED  BY <1>1, <1>2, <1>3, <1>4

\* What is given up is given up as the app is stopped.
LEMMA StopStep ==
    ASSUME IInv, NEW a \in Apps, stopApp(a)
    PROVE  IInv'
<1>k. /\ TypeOK /\ TaskFits(a) /\ RunFits(a) /\ DataFits(a) /\ row[a] \in Row
      /\ task[a] \in Task /\ task[a].n \in Nat /\ task[a].does \in Whats
  BY Known
<1> USE <1>k
<1> DEFINE last == CASE task[a].does \in Reinstalls -> task[a].from.content
                     [] task[a].does \notin Reinstalls -> IF GivenUp(a) THEN NoData ELSE latest[a]
<1>0. /\ In(a, "stop") /\ Advance(a) /\ con' = [con EXCEPT ![a].runs = FALSE]
      /\ latest' = [latest EXCEPT ![a] = last]
      /\ alive' = [alive EXCEPT ![a] = TRUE]
      /\ UNCHANGED <<row, manager, table, db, redis, saved, from, images, sub, scheduler, health,
                     mailed, count>>
  BY DEF stopApp
<1>1. /\ con' \in [Apps -> Container] /\ \A b \in Apps \ {a} : con'[b] = con[b]
      /\ con'[a].id = con[a].id /\ con'[a].version = con[a].version
      /\ con'[a].env = con[a].env /\ ~con'[a].runs
      /\ con[a] = NoContainer => con'[a] = NoContainer
  BY <1>0, SameContainer
<1>2. last \in Data
  <2>1. task[a].from \in Saved \cup {NoBackup}  BY DEF Task
  <2>2. task[a].from.content \in Data  BY <2>1, SomeData DEF Saved, NoBackup
  <2>3. latest[a] \in Data  BY DEF TypeOK
  <2> QED  BY <2>2, <2>3, SomeData
<1>3. last = NoData \/ (~GivenUp(a) /\ last = latest[a])
         \/ \E b \in saved[a] : b.content = last
  <2>1. CASE task[a].does \in Reinstalls
    <3>1. task[a].n # 0  BY <1>0, OneStep
    <3>2. task[a].from \in saved[a] \cup {NoBackup}  BY <2>1, <3>1 DEF DataFits
    <3>3. last = task[a].from.content  BY <2>1
    <3> HIDE DEF last
    <3> QED  BY <3>2, <3>3 DEF NoBackup
  <2>2. CASE task[a].does \notin Reinstalls  BY <2>2
  <2> QED  BY <2>1, <2>2
<1> HIDE DEF last
<1>4. /\ latest' \in [Apps -> Data] /\ latest'[a] = last
      /\ \A b \in Apps \ {a} : latest'[b] = latest[b]
  BY <1>0, <1>2 DEF TypeOK
<1>5. /\ task' \in [Apps -> Task] /\ \A b \in Apps \ {a} : task'[b] = task[b]
      /\ task'[a].does = task[a].does /\ task'[a].version = task[a].version
      /\ task'[a].old = task[a].old /\ task'[a].from = task[a].from
      /\ \A y : Past(a, y)' <=> Past(a, y) \/ y = "stop"
  BY <1>0, Advanced
<1>6. TypeOK'
  <2>1. alive' \in [Apps -> BOOLEAN]  BY <1>0 DEF TypeOK
  <2> QED  BY <1>0, <1>1, <1>4, <1>5, <2>1 DEF TypeOK, scheduler
<1>7. RowFits(a)' /\ TaskFits(a)' /\ (In(a, "setup")' => "redis" \in task'[a].todo)
  BY <1>0, <1>1, TaskMoves
<1>8. EnvFits(a)'  BY <1>0, <1>1, <1>7, EnvKept
<1>9. task[a].does \in Pending /\ task[a].n # 0  BY <1>0, OneStep
<1>10. /\ ~Past(a, "start") /\ ~Past(a, "backup")
       /\ task[a].does \notin {"pending_backup", "pending_start"}
  BY <1>0, <1>9, Order1
<1>11. RunFits(a)'
  <2>1. CASE task[a].does = "pending_stop"
    <3>1. row[a].run = "pending_stop"  BY <1>0, <2>1 DEF RunFits
    <3> QED  BY <1>0, <1>1, <1>5, <1>10, <2>1, <3>1 DEF RunFits, Runs
  <2>2. CASE task[a].does # "pending_stop"
    <3>1. task[a].does \notin Mild  BY <1>10, <2>2 DEF Mild, RunCommands
    <3>2. ~AtRest(a)'
      <4>1. ~AtRest(a)  BY <1>9, <3>1, Unrest
      <4> QED  BY <1>0, <4>1 DEF AtRest
    <3> QED  BY <1>0, <1>1, <1>5, <1>10, <2>2, <3>1, <3>2 DEF RunFits
  <2> QED  BY <2>1, <2>2
<1>12. DataFits(a)'
  <2>1. latest'[a] = NoData \/ (~GivenUp(a) /\ latest'[a] = latest[a]) \/ IsSaved(a)'
    BY <1>0, <1>3, <1>4 DEF IsSaved
  <2>2. MayDrop(a)' => GivenUp(a)
    <3>1. Unused(a)' = Unused(a)  BY <1>5 DEF Unused
    <3>2. GivenUp(a)' <=> GivenUp(a)  BY <1>5, <3>1 DEF GivenUp
    <3>3. ~Past(a, "backup")'  BY <1>5, <1>10
    <3> QED  BY <3>2, <3>3 DEF MayDrop
  <2>3. (IsSaved(a) /\ latest'[a] = latest[a]) => IsSaved(a)'  BY <1>0 DEF IsSaved
  <2>4. latest'[a] # NoData => latest'[a] = db'[a] \/ IsSaved(a)'
    BY <1>0, <2>1, <2>3 DEF DataFits
  <2> QED  BY <1>0, <1>5, <1>9, <2>1, <2>2, <2>4 DEF DataFits
<1>13. \A b \in Apps \ {a} : about(b)' = about(b)  BY <1>0, <1>1, <1>4, <1>5 DEF about
<1> QED  BY <1>6, <1>7, <1>8, <1>11, <1>12, <1>13, OneApp DEF Fits

LEMMA StoppedStep ==
    ASSUME IInv, NEW a \in Apps, appStopped(a)
    PROVE  IInv'
<1>k. /\ TypeOK /\ RunFits(a) /\ row[a] \in Row
      /\ task[a].n \in Nat /\ task[a].does \in Whats
  BY Known
<1> USE <1>k
<1>0. /\ In(a, "stopped") /\ Advance(a) /\ row' = [row EXCEPT ![a].run = "stopped"]
      /\ health' = [health EXCEPT ![a] = "null"]
      /\ UNCHANGED <<manager, table, db, redis, saved, from, latest, images, con, sub, scheduler,
                     mailed, alive, count>>
  BY DEF appStopped, things
<1>1. /\ row' \in [Apps -> Row] /\ \A b \in Apps \ {a} : row'[b] = row[b]
      /\ row'[a].state = row[a].state /\ row'[a].version = row[a].version
      /\ row'[a].old = row[a].old /\ row'[a].cid = row[a].cid /\ row'[a].run = "stopped"
  BY <1>0 DEF TypeOK, Row, RunStates
<1>2. /\ task' \in [Apps -> Task] /\ \A b \in Apps \ {a} : task'[b] = task[b]
      /\ task'[a].does = task[a].does
      /\ \A y : Past(a, y)' <=> Past(a, y) \/ y = "stopped"
  BY <1>0, Advanced
<1>3. TypeOK'
  <2>1. health' \in [Apps -> {"null", "healthy", "dead"}]  BY <1>0 DEF TypeOK
  <2> QED  BY <1>0, <1>1, <1>2, <2>1 DEF TypeOK, scheduler
<1>4. RowFits(a)' /\ TaskFits(a)' /\ (In(a, "setup")' => "redis" \in task'[a].todo)
  BY <1>0, <1>1, TaskMoves
<1>5. EnvFits(a)'  BY <1>0, <1>1, <1>4, EnvKept
<1>6. DataFits(a)'  BY <1>0, DataKept
<1>7. RunFits(a)'
  <2>1. Runs(a)'  BY <1>1 DEF Runs
  <2>2. (Past(a, "stop")' <=> Past(a, "stop")) /\ (Past(a, "start")' <=> Past(a, "start"))
    BY <1>2
  <2>3. ~(task[a].does = "pending_stop" /\ (In(a, "stop") \/ In(a, "stopped"))')
    <3> SUFFICES ASSUME task[a].does = "pending_stop"  PROVE ~In(a, "stop")' /\ ~In(a, "stopped")'
      OBVIOUS
    <3>1. Len(PlanOf(a)) = 2 /\ PlanOf(a)[2] = "stopped"  BY Plans DEF PlanOf
    <3>2. task[a].n = 2  BY <1>0, <3>1, Places
    <3>3. task'[a].n = 3 /\ PlanOf(a)' = PlanOf(a)  BY <1>0, <3>2, Advanced
    <3>4. Len(PlanOf(a)') = 2  BY <3>1, <3>3
    <3> QED  BY <3>3, <3>4 DEF In
  <2> QED  BY <1>0, <1>2, <2>1, <2>2, <2>3 DEF RunFits
<1>8. \A b \in Apps \ {a} : about(b)' = about(b)  BY <1>0, <1>1, <1>2 DEF about
<1> QED  BY <1>3, <1>4, <1>5, <1>6, <1>7, <1>8, OneApp DEF Fits

\* One of the things to do in a step is done.
LEMMA OneLess ==
    ASSUME TypeOK, NEW a \in Apps, NEW what, OneDone(a, what)
    PROVE  /\ task' \in [Apps -> Task] /\ \A b \in Apps \ {a} : task'[b] = task[b]
           /\ task'[a].n = task[a].n /\ task'[a].does = task[a].does
           /\ task'[a].version = task[a].version /\ task'[a].old = task[a].old
           /\ task'[a].from = task[a].from
           /\ task'[a].todo = task[a].todo \ {what}
           /\ task'[a].addon = "none" /\ task'[a].secret = 0
<1>0. task \in [Apps -> Task] /\ task[a] \in Task  BY DEF TypeOK
<1> DEFINE next == [task[a] EXCEPT !.todo = task[a].todo \ {what}, !.addon = "none", !.secret = 0]
<1>1. /\ next.n = task[a].n /\ next.todo = task[a].todo \ {what}
      /\ next.does = task[a].does /\ next.version = task[a].version /\ next.old = task[a].old
      /\ next.from = task[a].from
      /\ next.addon = "none" /\ next.secret = 0 /\ next \in Task
  BY <1>0 DEF Task
<1>2. task' = [task EXCEPT ![a] = next]  BY <1>0 DEF OneDone, Task
<1> HIDE DEF next
<1> QED  BY <1>0, <1>1, <1>2

LEMMA DeleteStep ==
    ASSUME IInv, NEW a \in Apps, deleteContainer(a)
    PROVE  IInv'
<1>k. /\ TypeOK /\ RowFits(a) /\ TaskFits(a) /\ EnvFits(a) /\ RunFits(a) /\ DataFits(a)
      /\ task[a].n \in Nat /\ task[a].does \in Whats
  BY Known
<1> USE <1>k
<1>0. PICK what \in task[a].todo :
         /\ con' = IF what = "app" THEN [con EXCEPT ![a] = NoContainer] ELSE con
         /\ sub' = IF what = "sub" THEN [sub EXCEPT ![a] = "none"] ELSE sub
         /\ OneDone(a, what)
  BY DEF deleteContainer
<1>1. /\ In(a, "delete")
      /\ UNCHANGED <<row, manager, table, db, redis, saved, from, latest, images, scheduler,
                     monitor, count>>
  BY DEF deleteContainer, things
<1>2. /\ task' \in [Apps -> Task] /\ \A b \in Apps \ {a} : task'[b] = task[b]
      /\ task'[a].n = task[a].n /\ task'[a].does = task[a].does
      /\ task'[a].version = task[a].version /\ task'[a].old = task[a].old
      /\ task'[a].from = task[a].from
      /\ task'[a].todo = task[a].todo \ {what}
      /\ task'[a].addon = "none" /\ task'[a].secret = 0
  BY <1>0, OneLess
<1>3. /\ PlanOf(a)' = PlanOf(a)
      /\ \A x : (In(a, x)' <=> In(a, x)) /\ (Past(a, x)' <=> Past(a, x))
  BY <1>2, Stayed
<1>4. /\ NoContainer.id = 0 /\ NoContainer.runs = FALSE
      /\ con' \in [Apps -> Container] /\ \A b \in Apps \ {a} : con'[b] = con[b]
      /\ con'[a] = IF what = "app" THEN NoContainer ELSE con[a]
  <2>1. NoContainer \in Container /\ NoContainer.id = 0 /\ NoContainer.runs = FALSE
    BY DEF NoContainer, Container, Secrets, Addons
  <2> QED  BY <1>0, <2>1 DEF TypeOK
<1>5. TypeOK'
  <2>1. sub' \in [Apps -> {"none", "made", "lost"}]  BY <1>0 DEF TypeOK
  <2> QED  BY <1>1, <1>2, <1>4, <2>1 DEF TypeOK, scheduler, monitor
<1>6. /\ task[a].does \in Pending /\ task[a].n # 0
      /\ \A y : In(a, y) => y = "delete"
      /\ ~Past(a, "delete") /\ ~Past(a, "setup") /\ ~Past(a, "create") /\ ~Past(a, "start")
      /\ task[a].does \notin Mild
  <2>1. /\ task[a].does \in Pending /\ task[a].n # 0 /\ ~Past(a, "delete")
        /\ \A y : In(a, y) => y = "delete"
    BY <1>1, OneStep
  <2> QED  BY <1>1, <2>1, Order1
<1>7. ~AtRest(a)'
  <2>1. ~AtRest(a)  BY <1>6, Unrest
  <2> QED  BY <1>1, <2>1 DEF AtRest
<1>8. TaskFits(a)'
  <2>1. con'[a].id # 0 => "app" \in task'[a].todo  BY <1>1, <1>2, <1>4 DEF TaskFits
  <2> QED  BY <1>1, <1>2, <1>3, <1>6, <2>1 DEF TaskFits
<1>9. RowFits(a)'  BY <1>1, <1>2 DEF RowFits
<1>10. EnvFits(a)'
  <2>1. con'[a].id = 0 => con'[a] = NoContainer  BY <1>4 DEF EnvFits
  <2>2. Past(a, "download")' => task'[a].version \in images'[a]  BY <1>1, <1>2, <1>3 DEF EnvFits
  <2>3. ~In(a, "setup")' /\ task'[a].addon # "redis"  BY <1>2, <1>3, <1>6
  <2> QED  BY <1>2, <1>3, <1>6, <1>7, <2>1, <2>2, <2>3 DEF EnvFits
<1>11. RunFits(a)'
  <2>1. task[a].does # "pending_stop"  BY <1>6 DEF Mild, RunCommands
  <2>2. ~con[a].runs => ~con'[a].runs  BY <1>4
  <2> QED  BY <1>2, <1>3, <1>6, <1>7, <2>1, <2>2 DEF RunFits
<1>12. DataFits(a)'
  <2>1. MayDrop(a)' <=> MayDrop(a)  BY <1>2, SameTask
  <2> QED  BY <1>1, <1>2, <2>1 DEF DataFits, IsSaved
<1>13. \A b \in Apps \ {a} : about(b)' = about(b)  BY <1>1, <1>2, <1>4 DEF about
<1> QED  BY <1>5, <1>8, <1>9, <1>10, <1>11, <1>12, <1>13, OneApp DEF Fits

LEMMA DeletedStep ==
    ASSUME IInv, NEW a \in Apps, deleteContainers(a)
    PROVE  IInv'
<1>k. /\ TypeOK /\ TaskFits(a) /\ EnvFits(a) /\ row[a] \in Row
      /\ task[a].n \in Nat /\ task[a].does \in Whats
  BY Known
<1> USE <1>k
<1>0. /\ In(a, "delete") /\ task[a].todo = {} /\ row' = [row EXCEPT ![a].cid = 0] /\ Advance(a)
      /\ UNCHANGED <<manager, table, db, redis, saved, from, latest, images, con, sub, scheduler,
                     monitor, count>>
  BY DEF deleteContainers, things
<1>1. /\ row' \in [Apps -> Row] /\ \A b \in Apps \ {a} : row'[b] = row[b]
      /\ row'[a].state = row[a].state /\ row'[a].version = row[a].version
      /\ row'[a].old = row[a].old /\ row'[a].run = row[a].run
  BY <1>0 DEF TypeOK, Row
<1>2. con[a] = NoContainer  BY <1>0 DEF TaskFits, EnvFits
<1>3. /\ task' \in [Apps -> Task] /\ \A b \in Apps \ {a} : task'[b] = task[b]
      /\ task'[a].does = task[a].does /\ task'[a].version = task[a].version
      /\ task'[a].addon = "none"
      /\ \A y : Past(a, y)' <=> Past(a, y) \/ y = "delete"
  BY <1>0, Advanced
<1>4. TypeOK'  BY <1>0, <1>1, <1>3 DEF TypeOK, scheduler, monitor
<1>5. RowFits(a)' /\ TaskFits(a)' /\ (In(a, "setup")' => "redis" \in task'[a].todo)
  BY <1>0, <1>1, TaskMoves
<1>6. RunFits(a)'  BY <1>0, <1>1, RunKept
<1>7. DataFits(a)'  BY <1>0, DataKept
<1>8. EnvFits(a)'
  <2>1. task[a].does \in Pending /\ task[a].n # 0  BY <1>0, OneStep
  <2>2. ~Past(a, "setup") /\ ~Past(a, "create") /\ task[a].does \notin Mild
    BY <1>0, <2>1, Order1
  <2>3. ~AtRest(a)'
    <3>1. ~AtRest(a)  BY <2>1, <2>2, Unrest
    <3> QED  BY <1>1, <3>1 DEF AtRest
  <2>4. ~Past(a, "setup")' /\ ~Past(a, "create")'  BY <1>3, <2>2
  <2>5. Past(a, "download")' => Past(a, "download")  BY <1>3
  <2> QED  BY <1>0, <1>2, <1>3, <1>5, <2>2, <2>3, <2>4, <2>5 DEF EnvFits
<1>9. \A b \in Apps \ {a} : about(b)' = about(b)  BY <1>0, <1>1, <1>3 DEF about
<1> QED  BY <1>4, <1>5, <1>6, <1>7, <1>8, <1>9, OneApp DEF Fits

\* The addon that is next is one there is to do.
LEMMA FirstOne ==
    ASSUME NEW S \in SUBSET Addons, S # {}
    PROVE  First(S) \in S
BY DEF First, Addons

\* A database is removed only when what it holds is given up or saved.
LEMMA TeardownStep ==
    ASSUME IInv, NEW a \in Apps, teardownAddon(a)
    PROVE  IInv'
<1>k. /\ TypeOK /\ RowFits(a) /\ TaskFits(a) /\ EnvFits(a) /\ RunFits(a) /\ DataFits(a)
      /\ task[a].n \in Nat /\ task[a].does \in Whats
  BY Known
<1> USE <1>k
<1> DEFINE addon == First(task[a].todo)
<1>0. /\ In(a, "teardown") /\ task[a].todo # {}
      /\ table' = [table EXCEPT ![a][addon] = 0]
      /\ OneDone(a, addon)
      /\ \/ addon = "mail" /\ UNCHANGED <<db, redis>>
         \/ addon = "db" /\ teardownDatabase(a)
         \/ addon = "redis" /\ teardownRedis(a)
      /\ UNCHANGED <<row, manager, saved, from, latest, images, con, sub, scheduler, monitor, count>>
  BY DEF teardownAddon
<1>1. task[a].todo \subseteq Unused(a) /\ addon \in task[a].todo /\ addon \in Addons
  BY <1>0, FirstOne DEF TaskFits
<1> HIDE DEF addon
<1>2. /\ task' \in [Apps -> Task] /\ \A b \in Apps \ {a} : task'[b] = task[b]
      /\ task'[a].n = task[a].n /\ task'[a].does = task[a].does
      /\ task'[a].version = task[a].version /\ task'[a].old = task[a].old
      /\ task'[a].from = task[a].from
      /\ task'[a].todo = task[a].todo \ {addon}
      /\ task'[a].addon = "none" /\ task'[a].secret = 0
  BY <1>0, OneLess
<1>3. /\ PlanOf(a)' = PlanOf(a)
      /\ \A x : (In(a, x)' <=> In(a, x)) /\ (Past(a, x)' <=> Past(a, x))
      /\ Unused(a)' = Unused(a) /\ (MayDrop(a)' <=> MayDrop(a))
  BY <1>2, Stayed, SameTask
<1>4. /\ db' \in [Apps -> Data] /\ redis' \in [Apps -> Nat]
      /\ \A b \in Apps \ {a} : db'[b] = db[b] /\ redis'[b] = redis[b]
      /\ addon # "db" => db' = db
  BY <1>0, SomeData DEF TypeOK, teardownDatabase, teardownRedis, databaseAfter
<1>5. table' \in [Apps -> Secrets] /\ \A b \in Apps \ {a} : table'[b] = table[b]
  BY <1>0 DEF TypeOK, Secrets
<1>6. TypeOK'  BY <1>0, <1>2, <1>4, <1>5 DEF TypeOK, scheduler, monitor
<1>7. /\ task[a].does \in Pending /\ task[a].n # 0
      /\ \A y : In(a, y) => y = "teardown"
  BY <1>0, OneStep
<1>8. /\ Past(a, "delete") /\ Past(a, "stop")
      /\ ~Past(a, "setup") /\ ~Past(a, "create") /\ ~Past(a, "start")
      /\ task[a].does \notin Mild \cup {"pending_configure"}
      /\ task[a].does = "pending_update" => Past(a, "backup")
  BY <1>0, <1>7, Order1
<1>9. ~AtRest(a)'
  <2>1. ~AtRest(a)  BY <1>7, <1>8, Unrest
  <2> QED  BY <1>0, <2>1 DEF AtRest
<1>10. RowFits(a)'  BY <1>0, <1>2 DEF RowFits
<1>11. TaskFits(a)'  BY <1>0, <1>2, <1>3, <1>7 DEF TaskFits
<1>12. EnvFits(a)'
  <2>1. ~In(a, "setup")' /\ task'[a].addon # "redis"  BY <1>2, <1>3, <1>7
  <2> QED  BY <1>0, <1>2, <1>3, <1>8, <1>9, <2>1 DEF EnvFits
<1>13. RunFits(a)'
  <2>1. ~In(a, "stop")' /\ ~In(a, "stopped")'  BY <1>3, <1>7
  <2> QED  BY <1>0, <1>2, <1>3, <1>8, <1>9, <2>1 DEF RunFits
<1>14. DataFits(a)'
  <2>1. saved' = saved /\ from' = from /\ latest' = latest  BY <1>0
  <2>2. CASE addon # "db"  BY <1>2, <1>3, <1>4, <2>1, <2>2 DEF DataFits, IsSaved
  <2>3. CASE addon = "db"
    <3>1. GivenUp(a) \/ (task[a].does = "pending_update" /\ "db" \in Asks(task[a].old))
      <4>1. "db" \in Unused(a)  BY <1>1, <2>3
      <4>2. CASE task[a].does \in Reinstalls \cup {"pending_uninstall"}  BY <4>2 DEF GivenUp
      <4>3. CASE task[a].does = "pending_force_update"  BY <4>1, <4>3 DEF GivenUp
      <4>4. CASE task[a].does = "pending_update"  BY <4>1, <4>4 DEF Unused, Updates
      <4> QED  BY <1>7, <1>8, <4>2, <4>3, <4>4 DEF Pending, Builds, Updates
    <3>2. MayDrop(a)  BY <1>8, <3>1 DEF MayDrop
    <3>3. latest[a] = NoData \/ IsSaved(a)  BY <3>2 DEF DataFits
    <3> QED  BY <1>2, <1>3, <2>1, <3>3 DEF DataFits, IsSaved
  <2> QED  BY <2>2, <2>3
<1>15. \A b \in Apps \ {a} : about(b)' = about(b)  BY <1>0, <1>2, <1>4, <1>5 DEF about
<1> QED  BY <1>6, <1>10, <1>11, <1>12, <1>13, <1>14, <1>15, OneApp DEF Fits

\* The step that sets the addons up, and what it leaves alone.
LEMMA AtSetup ==
    ASSUME IInv, NEW a \in Apps, In(a, "setup")
    PROVE  /\ task[a].does \in Builds /\ task[a].does \notin Mild /\ task[a].n # 0
           /\ \A y : In(a, y) => y = "setup"
           /\ ~Past(a, "setup") /\ ~Past(a, "create") /\ ~Past(a, "start") /\ Past(a, "stop")
           /\ ~AtRest(a)
<1>k. TypeOK /\ task[a].n \in Nat /\ task[a].does \in Whats  BY Known
<1> USE <1>k
<1>1. task[a].does \in Pending /\ task[a].n # 0 /\ ~Past(a, "setup")
  BY OneStep
<1>2. \A y : In(a, y) => y = "setup"  BY OneStep
<1>3. /\ task[a].does \in Builds /\ ~Past(a, "create") /\ ~Past(a, "start") /\ Past(a, "stop")
  BY <1>1, Order1
<1>4. task[a].does \notin Mild
  BY <1>3 DEF Builds, Mild, Reinstalls, Updates, RunCommands
<1>5. ~AtRest(a)  BY <1>1, <1>4, Unrest
<1> QED  BY <1>1, <1>2, <1>3, <1>4, <1>5

LEMMA SetupFits ==
    ASSUME IInv, NEW a \in Apps, In(a, "setup"),
           task'[a].n = task[a].n, task'[a].does = task[a].does,
           task'[a].version = task[a].version, task'[a].old = task[a].old,
           task'[a].from = task[a].from, task'[a].todo \subseteq task[a].todo,
           task'[a].addon # "none" => task'[a].addon \in task'[a].todo,
           task'[a].addon = "none" => task'[a].secret = 0,
           task'[a].addon # "none" /\ task'[a].secret = 0 =>
              task'[a].addon = "db" /\ task'[a].does \in Reinstalls,
           row'[a] = row[a], manager'[a] = manager[a], saved'[a] = saved[a], from'[a] = from[a],
           latest'[a] = latest[a], images'[a] = images[a], con'[a] = con[a],
           "redis" \notin task'[a].todo => RedisFits(a)',
           task'[a].addon = "redis" => task'[a].secret = redis'[a],
           latest[a] # NoData => latest[a] = db'[a] \/ IsSaved(a)
    PROVE  Fits(a)'
<1>k. RowFits(a) /\ TaskFits(a) /\ EnvFits(a) /\ RunFits(a) /\ DataFits(a)  BY Known
<1> USE <1>k
<1>1. /\ PlanOf(a)' = PlanOf(a)
      /\ \A x : (In(a, x)' <=> In(a, x)) /\ (Past(a, x)' <=> Past(a, x))
      /\ Unused(a)' = Unused(a) /\ (MayDrop(a)' <=> MayDrop(a))
  BY Stayed, SameTask
<1>2. /\ task[a].does \in Builds /\ task[a].does \notin Mild /\ task[a].n # 0
      /\ \A y : In(a, y) => y = "setup"
      /\ ~Past(a, "setup") /\ ~Past(a, "create") /\ ~AtRest(a)
  BY AtSetup
<1>3. ~AtRest(a)' /\ (IsSaved(a)' <=> IsSaved(a))  BY <1>2 DEF AtRest, IsSaved
<1>4. RowFits(a)'  BY <1>2 DEF RowFits
<1>5. TaskFits(a)'
  <2>1. task[a].todo \subseteq Asks(task[a].version) \cap Addons  BY DEF TaskFits
  <2>2. ~In(a, "teardown")' /\ ~In(a, "delete")'  BY <1>1, <1>2
  <2> QED  BY <1>1, <1>2, <2>1, <2>2 DEF TaskFits
<1>6. EnvFits(a)'  BY <1>1, <1>2, <1>3 DEF EnvFits
<1>7. RunFits(a)'
  <2>1. ~In(a, "stop")' /\ ~In(a, "stopped")'  BY <1>1, <1>2
  <2> QED  BY <1>1, <1>2, <1>3, <2>1 DEF RunFits
<1>8. DataFits(a)'  BY <1>1, <1>3 DEF DataFits
<1> QED  BY <1>4, <1>5, <1>6, <1>7, <1>8 DEF Fits

LEMMA SetupStep ==
    ASSUME IInv, NEW a \in Apps, setupAddon(a)
    PROVE  IInv'
<1>k. TypeOK /\ TaskFits(a) /\ EnvFits(a) /\ DataFits(a)  BY Known
<1> USE <1>k
<1> DEFINE addon == First(task[a].todo)
<1>0. PICK x \in New(a) :
         /\ \/ addon = "mail" /\ UNCHANGED <<db, redis>>
            \/ addon = "db" /\ setupDatabase(a)
            \/ addon = "redis" /\ setupRedis(a, x)
         /\ task' = [task EXCEPT ![a].addon = addon, ![a].secret = x]
  BY DEF setupAddon
<1>1. /\ In(a, "setup") /\ task[a].todo # {} /\ task[a].addon = "none"
      /\ UNCHANGED <<row, manager, table, saved, from, latest, images, con, sub, scheduler,
                     monitor, count>>
  BY DEF setupAddon
<1>2. task[a].todo \subseteq Addons /\ addon \in task[a].todo /\ addon \in Addons /\ addon # "none"
  <2>1. task[a].todo \subseteq Addons  BY <1>1 DEF TaskFits
  <2>2. addon \in task[a].todo  BY <1>1, <2>1, FirstOne
  <2> QED  BY <2>1, <2>2 DEF Addons
<1> HIDE DEF addon
<1>3. x \in Nat /\ x # 0  BY DEF New
<1>4. /\ task' \in [Apps -> Task] /\ \A b \in Apps \ {a} : task'[b] = task[b]
      /\ task'[a].n = task[a].n /\ task'[a].does = task[a].does
      /\ task'[a].version = task[a].version /\ task'[a].old = task[a].old
      /\ task'[a].from = task[a].from /\ task'[a].todo = task[a].todo
      /\ task'[a].addon = addon /\ task'[a].secret = x
  <2> DEFINE next == [task[a] EXCEPT !.addon = addon, !.secret = x]
  <2>0. task[a] \in Task /\ task \in [Apps -> Task]  BY DEF TypeOK
  <2>1. /\ next \in Task /\ next.n = task[a].n /\ next.todo = task[a].todo
        /\ next.does = task[a].does /\ next.version = task[a].version /\ next.old = task[a].old
        /\ next.from = task[a].from /\ next.addon = addon /\ next.secret = x
    BY <1>2, <1>3, <2>0 DEF Task
  <2>2. task' = [task EXCEPT ![a] = next]  BY <1>0
  <2> HIDE DEF next
  <2> QED  BY <2>0, <2>1, <2>2
<1>5. /\ db' \in [Apps -> Data] /\ redis' \in [Apps -> Nat]
      /\ \A b \in Apps \ {a} : db'[b] = db[b] /\ redis'[b] = redis[b]
      /\ db[a] # NoData => db'[a] = db[a]
      /\ IF addon = "redis" THEN redis'[a] = x ELSE redis' = redis
  <2>1. CASE addon = "mail"  BY <1>0, <2>1 DEF TypeOK
  <2>2. CASE addon = "db"
    <3>1. db' = [db EXCEPT ![a] = IF db[a] = NoData THEN 0 ELSE db[a]] /\ redis' = redis
      BY <1>0, <2>2 DEF setupDatabase, databaseAfter
    <3> QED  BY <2>2, <3>1, SomeData DEF TypeOK
  <2>3. CASE addon = "redis"  BY <1>0, <1>3, <2>3 DEF TypeOK, setupRedis
  <2> QED  BY <1>2, <2>1, <2>2, <2>3 DEF Addons
<1>6. TypeOK'  BY <1>1, <1>4, <1>5 DEF TypeOK, scheduler, monitor
<1>7. Fits(a)'
  <2>1. "redis" \notin task'[a].todo => RedisFits(a)'
    <3>1. "redis" \notin task[a].todo => addon # "redis"  BY <1>2
    <3> QED  BY <1>1, <1>4, <1>5, <3>1 DEF EnvFits, RedisFits
  <2>2. latest[a] # NoData => latest[a] = db'[a] \/ IsSaved(a)  BY <1>5 DEF DataFits
  <2> QED  BY <1>1, <1>2, <1>3, <1>4, <1>5, <2>1, <2>2, SetupFits
<1>8. \A b \in Apps \ {a} : about(b)' = about(b)  BY <1>1, <1>4, <1>5 DEF about
<1> QED  BY <1>6, <1>7, <1>8, OneApp

LEMMA ConfigStep ==
    ASSUME IInv, NEW a \in Apps, setAddonConfig(a)
    PROVE  IInv'
<1>k. TypeOK /\ TaskFits(a) /\ EnvFits(a) /\ DataFits(a) /\ task[a] \in Task /\ table[a] \in Secrets
  BY Known
<1> USE <1>k
<1> DEFINE addon == task[a].addon
           kept == addon = "db" /\ task[a].does \in Reinstalls /\ task[a].from # NoBackup
<1>0. /\ In(a, "setup") /\ task[a].secret # 0
      /\ table' = [table EXCEPT ![a][addon] = task[a].secret]
      /\ IF kept THEN task' = [task EXCEPT ![a].secret = 0] ELSE OneDone(a, addon)
      /\ UNCHANGED <<row, manager, db, redis, saved, from, latest, images, con, sub, scheduler,
                     monitor, count>>
  BY DEF setAddonConfig
<1>1. task[a].secret \in Nat /\ addon \in task[a].todo /\ addon \in Addons
  <2>1. task[a].todo \subseteq Addons /\ addon # "none"  BY <1>0 DEF TaskFits
  <2> QED  BY <2>1 DEF TaskFits, Task
<1>a. addon = task[a].addon /\ (kept => addon = "db" /\ task[a].does \in Reinstalls)  OBVIOUS
<1> HIDE DEF addon, kept
<1>2. /\ task' \in [Apps -> Task] /\ \A b \in Apps \ {a} : task'[b] = task[b]
      /\ task'[a].n = task[a].n /\ task'[a].does = task[a].does
      /\ task'[a].version = task[a].version /\ task'[a].old = task[a].old
      /\ task'[a].from = task[a].from /\ task'[a].secret = 0
      /\ kept => task'[a].addon = addon /\ task'[a].todo = task[a].todo
      /\ ~kept => task'[a].addon = "none" /\ task'[a].todo = task[a].todo \ {addon}
  <2>1. CASE kept
    <3> DEFINE next == [task[a] EXCEPT !.secret = 0]
    <3>0. task \in [Apps -> Task]  BY DEF TypeOK
    <3>1. /\ next \in Task /\ next.n = task[a].n /\ next.todo = task[a].todo
          /\ next.does = task[a].does /\ next.version = task[a].version /\ next.old = task[a].old
          /\ next.from = task[a].from /\ next.addon = task[a].addon /\ next.secret = 0
      BY DEF Task
    <3>2. task' = [task EXCEPT ![a] = next]  BY <1>0, <2>1
    <3> HIDE DEF next
    <3> QED  BY <1>a, <2>1, <3>0, <3>1, <3>2
  <2>2. CASE ~kept
    <3>1. OneDone(a, addon)  BY <1>0, <2>2
    <3> QED  BY <2>2, <3>1, OneLess
  <2> QED  BY <2>1, <2>2
<1>3. /\ table' \in [Apps -> Secrets] /\ \A b \in Apps \ {a} : table'[b] = table[b]
      /\ addon = "redis" => table'[a]["redis"] = task[a].secret
      /\ addon # "redis" => table'[a]["redis"] = table[a]["redis"]
  <2>1. table' \in [Apps -> Secrets] /\ \A b \in Apps \ {a} : table'[b] = table[b]
    BY <1>0, <1>1 DEF TypeOK, Secrets
  <2>2. table'[a] = [table[a] EXCEPT ![addon] = task[a].secret]  BY <1>0 DEF TypeOK
  <2>3. "redis" \in Addons  BY DEF Addons
  <2> QED  BY <1>1, <2>1, <2>2, <2>3 DEF Secrets
<1>4. TypeOK'  BY <1>0, <1>2, <1>3 DEF TypeOK, scheduler, monitor
<1>5. Fits(a)'
  <2>1. ASSUME "redis" \notin task'[a].todo  PROVE RedisFits(a)'
    <3>1. CASE addon = "redis"
      <4>1. task[a].secret = redis[a]  BY <1>a, <3>1 DEF EnvFits
      <4> QED  BY <1>0, <1>3, <3>1, <4>1 DEF RedisFits
    <3>2. CASE addon # "redis"
      <4>1. "redis" \notin task[a].todo  BY <1>2, <2>1, <3>2
      <4>2. RedisFits(a)  BY <1>0, <4>1 DEF EnvFits
      <4> QED  BY <1>0, <1>3, <3>2, <4>2 DEF RedisFits
    <3> QED  BY <3>1, <3>2
  <2>2. latest[a] # NoData => latest[a] = db'[a] \/ IsSaved(a)  BY <1>0 DEF DataFits
  <2>3. /\ task'[a].todo \subseteq task[a].todo
        /\ task'[a].addon # "none" => kept /\ task'[a].addon = "db" /\ task'[a].addon \in task'[a].todo
        /\ task'[a].addon # "redis"
    BY <1>1, <1>2, <1>a
  <2> QED  BY <1>0, <1>2, <1>a, <2>1, <2>2, <2>3, SetupFits
<1>6. \A b \in Apps \ {a} : about(b)' = about(b)  BY <1>0, <1>2, <1>3 DEF about
<1> QED  BY <1>4, <1>5, <1>6, OneApp

\* What is restored is what the backup holds, whatever was there.
LEMMA RestoreStep ==
    ASSUME IInv, NEW a \in Apps, restoreDatabase(a)
    PROVE  IInv'
<1>k. TypeOK /\ TaskFits(a) /\ EnvFits(a) /\ DataFits(a) /\ task[a] \in Task  BY Known
<1> USE <1>k
<1>0. /\ In(a, "setup") /\ task[a].addon = "db" /\ task[a].secret = 0
      /\ db' = [db EXCEPT ![a] = task[a].from.content]
      /\ OneDone(a, "db")
      /\ UNCHANGED <<row, manager, table, redis, saved, from, latest, images, con, sub, scheduler,
                     monitor, count>>
  BY DEF restoreDatabase, databaseAfter
<1>1. task[a].does \in Reinstalls  BY <1>0 DEF TaskFits
<1>2. /\ task' \in [Apps -> Task] /\ \A b \in Apps \ {a} : task'[b] = task[b]
      /\ task'[a].n = task[a].n /\ task'[a].does = task[a].does
      /\ task'[a].version = task[a].version /\ task'[a].old = task[a].old
      /\ task'[a].from = task[a].from
      /\ task'[a].todo = task[a].todo \ {"db"}
      /\ task'[a].addon = "none" /\ task'[a].secret = 0
  BY <1>0, OneLess
<1>3. db' \in [Apps -> Data] /\ \A b \in Apps \ {a} : db'[b] = db[b]
  <2>1. task[a].from \in Saved \cup {NoBackup}  BY DEF Task
  <2>2. task[a].from.content \in Data  BY <2>1, SomeData DEF Saved, NoBackup
  <2> QED  BY <1>0, <2>2 DEF TypeOK
<1>4. TypeOK'  BY <1>0, <1>2, <1>3 DEF TypeOK, scheduler, monitor
<1>5. Fits(a)'
  <2>1. "redis" \notin task'[a].todo => RedisFits(a)'
    BY <1>0, <1>2 DEF EnvFits, RedisFits
  <2>2. latest[a] # NoData => IsSaved(a)
    <3>1. Past(a, "stop") /\ ~Past(a, "start")  BY <1>0, AtSetup
    <3>2. MayDrop(a)  BY <1>1, <3>1 DEF MayDrop, GivenUp
    <3> QED  BY <3>2 DEF DataFits
  <2> QED  BY <1>0, <1>2, <2>1, <2>2, SetupFits
<1>6. \A b \in Apps \ {a} : about(b)' = about(b)  BY <1>0, <1>2, <1>3 DEF about
<1> QED  BY <1>4, <1>5, <1>6, OneApp

LEMMA AddonsDoneStep ==
    ASSUME IInv, NEW a \in Apps, addonsDone(a)
    PROVE  IInv'
<1>k. /\ TypeOK /\ EnvFits(a) /\ task[a].n \in Nat /\ task[a].does \in Whats
  BY Known
<1> USE <1>k
<1>0. /\ task[a].todo = {} /\ Advance(a)
      /\ UNCHANGED <<row, manager, table, db, redis, saved, from, latest, images, con, sub,
                     scheduler, monitor, count>>
  BY DEF addonsDone, things
<1>1. PICK x \in {"teardown", "setup"} : In(a, x)  BY DEF addonsDone
<1>2. /\ task' \in [Apps -> Task] /\ \A b \in Apps \ {a} : task'[b] = task[b]
      /\ task'[a].does = task[a].does /\ task'[a].version = task[a].version
      /\ task'[a].addon = "none"
      /\ \A y : Past(a, y)' <=> Past(a, y) \/ y = x
  BY <1>0, <1>1, Advanced
<1>3. TypeOK'  BY <1>0, <1>2 DEF TypeOK, scheduler, monitor
<1>4. RowFits(a)' /\ TaskFits(a)' /\ (In(a, "setup")' => "redis" \in task'[a].todo)
  BY <1>0, <1>1, TaskMoves
<1>5. RunFits(a)'  BY <1>0, <1>1, RunKept
<1>6. DataFits(a)'  BY <1>0, <1>1, DataKept
<1>7. EnvFits(a)'
  <2>1. CASE x = "teardown"  BY <1>0, <1>1, <1>4, <2>1, EnvKept
  <2>2. CASE x = "setup"
    <3>1. In(a, "setup")  BY <1>1, <2>2
    <3>2. task[a].does \notin Mild /\ ~Past(a, "create") /\ ~AtRest(a)  BY <3>1, AtSetup
    <3>3. RedisFits(a)'  BY <1>0, <3>1 DEF EnvFits, RedisFits
    <3>4. /\ ~AtRest(a)' /\ ~Past(a, "create")'
          /\ Past(a, "delete")' => Past(a, "delete")
          /\ Past(a, "download")' => Past(a, "download")
      BY <1>0, <1>2, <2>2, <3>2 DEF AtRest
    <3> QED  BY <1>0, <1>2, <1>4, <3>2, <3>3, <3>4 DEF EnvFits
  <2> QED  BY <2>1, <2>2
<1>8. \A b \in Apps \ {a} : about(b)' = about(b)  BY <1>0, <1>2 DEF about
<1> QED  BY <1>3, <1>4, <1>5, <1>6, <1>7, <1>8, OneApp DEF Fits

\* A backup holds what the database holds, or the app had none.
LEMMA BackupStep ==
    ASSUME IInv, NEW a \in Apps, backupAddons(a)
    PROVE  IInv'
<1>k. /\ TypeOK /\ TaskFits(a) /\ EnvFits(a) /\ DataFits(a)
      /\ task[a].n \in Nat /\ task[a].does \in Whats
  BY Known
<1> USE <1>k
<1> DEFINE dump == [version |-> BackedUp(a), content |-> dumped(a)]
<1>0. /\ In(a, "backup") /\ Advance(a)
      /\ saved' = [saved EXCEPT ![a] = saved[a] \cup {dump}]
      /\ UNCHANGED <<row, manager, table, db, redis, from, latest, images, con, sub, scheduler,
                     monitor, count>>
  BY DEF backupAddons
<1>1. /\ task[a].does \in Pending /\ task[a].n # 0
      /\ task[a].does \in {"pending_backup", "pending_update"}
  <2>1. task[a].does \in Pending /\ task[a].n # 0  BY <1>0, OneStep
  <2> QED  BY <1>0, <2>1, Order1
<1>2. dump \in Saved /\ dump.content = dumped(a)
  <2>1. BackedUp(a) \in 1..2  BY <1>1 DEF BackedUp, TaskFits, Updates
  <2>2. dumped(a) \in Data  BY SomeData DEF dumped, TypeOK
  <2> QED  BY <2>1, <2>2 DEF Saved
<1> HIDE DEF dump
<1>3. /\ saved' \in [Apps -> SUBSET Saved] /\ saved'[a] = saved[a] \cup {dump}
      /\ \A b \in Apps \ {a} : saved'[b] = saved[b]
  BY <1>0, <1>2 DEF TypeOK
<1>4. /\ task' \in [Apps -> Task] /\ \A b \in Apps \ {a} : task'[b] = task[b]
      /\ task'[a].does = task[a].does /\ task'[a].version = task[a].version
      /\ task'[a].old = task[a].old /\ task'[a].from = task[a].from
  BY <1>0, Advanced
<1>5. TypeOK'  BY <1>0, <1>3, <1>4 DEF TypeOK, scheduler, monitor
<1>6. RowFits(a)' /\ TaskFits(a)' /\ (In(a, "setup")' => "redis" \in task'[a].todo)
  BY <1>0, <1>3, TaskMoves
<1>7. EnvFits(a)'  BY <1>0, <1>6, EnvKept
<1>8. RunFits(a)'  BY <1>0, RunKept
<1>9. DataFits(a)'
  <2>1. IsSaved(a) => IsSaved(a)'  BY <1>0, <1>3 DEF IsSaved
  <2>2. ASSUME MayDrop(a)', latest[a] # NoData  PROVE IsSaved(a)'
    <3>1. task[a].does = "pending_update" /\ "db" \in Asks(task[a].old)
      <4>1. ~GivenUp(a)'  BY <1>1, <1>4 DEF GivenUp, Reinstalls
      <4> QED  BY <1>4, <2>2, <4>1 DEF MayDrop
    <3>2. dump.content = db[a]  BY <1>2, <3>1 DEF dumped, BackedUp
    <3>3. CASE latest[a] = db[a]  BY <1>0, <1>3, <3>2, <3>3 DEF IsSaved
    <3>4. CASE latest[a] # db[a]  BY <2>1, <2>2, <3>4 DEF DataFits
    <3> QED  BY <3>3, <3>4
  <2>3. latest'[a] = latest[a] /\ db'[a] = db[a]  BY <1>0
  <2>4. task[a].does \notin Reinstalls  BY <1>1 DEF Reinstalls
  <2> QED  BY <1>4, <2>1, <2>2, <2>3, <2>4 DEF DataFits
<1>10. \A b \in Apps \ {a} : about(b)' = about(b)  BY <1>0, <1>3, <1>4 DEF about
<1> QED  BY <1>5, <1>6, <1>7, <1>8, <1>9, <1>10, OneApp DEF Fits

LEMMA DownloadStep ==
    ASSUME IInv, NEW a \in Apps, downloadImage(a)
    PROVE  IInv'
<1>k. /\ TypeOK /\ EnvFits(a) /\ task[a] \in Task /\ task[a].n \in Nat /\ task[a].does \in Whats
  BY Known
<1> USE <1>k
<1>0. /\ In(a, "download") /\ Advance(a)
      /\ images' = [images EXCEPT ![a] = images[a] \cup {task[a].version}]
      /\ UNCHANGED <<row, manager, table, db, redis, saved, from, latest, con, sub, scheduler,
                     monitor, count>>
  BY DEF downloadImage, things
<1>1. /\ images' \in [Apps -> SUBSET (0..2)] /\ images'[a] = images[a] \cup {task[a].version}
      /\ \A b \in Apps \ {a} : images'[b] = images[b]
  BY <1>0 DEF TypeOK, Task
<1>2. /\ task' \in [Apps -> Task] /\ \A b \in Apps \ {a} : task'[b] = task[b]
      /\ task'[a].does = task[a].does /\ task'[a].version = task[a].version
      /\ task'[a].addon = "none"
      /\ \A y : Past(a, y)' <=> Past(a, y) \/ y = "download"
  BY <1>0, Advanced
<1>3. TypeOK'  BY <1>0, <1>1, <1>2 DEF TypeOK, scheduler, monitor
<1>4. RowFits(a)' /\ TaskFits(a)' /\ (In(a, "setup")' => "redis" \in task'[a].todo)
  BY <1>0, TaskMoves
<1>5. RunFits(a)'  BY <1>0, RunKept
<1>6. DataFits(a)'  BY <1>0, DataKept
<1>7. EnvFits(a)'
  <2>1. task[a].does \in Pending /\ task[a].n # 0  BY <1>0, OneStep
  <2>2. ~Past(a, "setup") /\ ~Past(a, "create") /\ task[a].does \in Builds
    BY <1>0, <2>1, Order1
  <2>3. task[a].does \notin Mild  BY <2>2 DEF Builds, Mild, Reinstalls, Updates, RunCommands
  <2>4. ~AtRest(a)'
    <3>1. ~AtRest(a)  BY <2>1, <2>3, Unrest
    <3> QED  BY <1>0, <3>1 DEF AtRest
  <2>5. ~Past(a, "setup")' /\ ~Past(a, "create")' /\ (Past(a, "delete")' => Past(a, "delete"))
    BY <1>2, <2>2
  <2>6. task'[a].version \in images'[a]  BY <1>1, <1>2
  <2> QED  BY <1>0, <1>2, <1>4, <2>2, <2>3, <2>4, <2>5, <2>6 DEF EnvFits
<1>8. \A b \in Apps \ {a} : about(b)' = about(b)  BY <1>0, <1>1, <1>2 DEF about
<1> QED  BY <1>3, <1>4, <1>5, <1>6, <1>7, <1>8, OneApp DEF Fits

\* The image of an app that goes on stays.
LEMMA ImageStep ==
    ASSUME IInv, NEW a \in Apps, deleteImage(a)
    PROVE  IInv'
<1>k. /\ TypeOK /\ TaskFits(a) /\ EnvFits(a) /\ task[a].n \in Nat /\ task[a].does \in Whats
  BY Known
<1> USE <1>k
<1>0. /\ In(a, "image") /\ Advance(a)
      /\ UNCHANGED <<row, manager, table, db, redis, saved, from, latest, con, sub, scheduler,
                     monitor, count>>
  BY DEF deleteImage, things
<1>1. /\ images' \in [Apps -> SUBSET (0..2)] /\ images[a] \ {Outdated(a)} \subseteq images'[a]
      /\ \A b \in Apps \ {a} : images'[b] = images[b]
  BY DEF deleteImage, TypeOK
<1>2. /\ task' \in [Apps -> Task] /\ \A b \in Apps \ {a} : task'[b] = task[b]
      /\ task'[a].does = task[a].does /\ task'[a].version = task[a].version
      /\ task'[a].addon = "none"
      /\ \A y : Past(a, y)' <=> Past(a, y) \/ y = "image"
  BY <1>0, Advanced
<1>3. TypeOK'  BY <1>0, <1>1, <1>2 DEF TypeOK, scheduler, monitor
<1>4. RowFits(a)' /\ TaskFits(a)' /\ (In(a, "setup")' => "redis" \in task'[a].todo)
  BY <1>0, TaskMoves
<1>5. RunFits(a)'  BY <1>0, RunKept
<1>6. DataFits(a)'  BY <1>0, DataKept
<1>7. EnvFits(a)'
  <2>1. task[a].does \in Pending /\ task[a].n # 0  BY <1>0, OneStep
  <2>2. ~Past(a, "setup") /\ ~Past(a, "create") /\ task[a].does \notin Mild
    BY <1>0, <2>1, Order1
  <2>3. ~AtRest(a)'
    <3>1. ~AtRest(a)  BY <2>1, <2>2, Unrest
    <3> QED  BY <1>0, <3>1 DEF AtRest
  <2>4. Past(a, "download") => task[a].version \in images'[a]
    <3> SUFFICES ASSUME Past(a, "download")  PROVE task[a].version \in images'[a]
      OBVIOUS
    <3>1. task[a].does # "pending_uninstall"
      <4> SUFFICES ASSUME task[a].does = "pending_uninstall"  PROVE FALSE
        OBVIOUS
      <4>1. PlanOf(a) = <<"stop", "stopped", "delete", "teardown", "image">>
        BY Plans DEF PlanOf
      <4> QED  BY <4>1, NoPlace
    <3>2. task[a].version \in 1..2 /\ task[a].version \in images[a]
      BY <2>1 DEF TaskFits, EnvFits
    <3>3. task[a].version # Outdated(a)  BY <3>1, <3>2 DEF Outdated
    <3> QED  BY <1>1, <3>2, <3>3
  <2>5. ~Past(a, "setup")' /\ ~Past(a, "create")' /\ (Past(a, "delete")' => Past(a, "delete"))
        /\ (Past(a, "download")' => Past(a, "download"))
    BY <1>2, <2>2
  <2> QED  BY <1>0, <1>2, <1>4, <2>2, <2>3, <2>4, <2>5 DEF EnvFits
<1>8. \A b \in Apps \ {a} : about(b)' = about(b)  BY <1>0, <1>1, <1>2 DEF about
<1> QED  BY <1>3, <1>4, <1>5, <1>6, <1>7, <1>8, OneApp DEF Fits

\* The container is made from the image of the version and the table as it is now.
LEMMA CreateStep ==
    ASSUME IInv, NEW a \in Apps, createContainer(a)
    PROVE  IInv'
<1>k. /\ TypeOK /\ TaskFits(a) /\ EnvFits(a) /\ RunFits(a) /\ row[a] \in Row
      /\ task[a] \in Task /\ task[a].n \in Nat /\ task[a].does \in Whats /\ table[a] \in Secrets
  BY Known
<1> USE <1>k
<1>0. PICK x \in New(a) :
         /\ con' = [con EXCEPT ![a] = [id |-> x, version |-> task[a].version, env |-> table[a], runs |-> FALSE]]
         /\ row' = [row EXCEPT ![a].cid = x]
  BY DEF createContainer
<1> DEFINE made == [id |-> x, version |-> task[a].version, env |-> table[a], runs |-> FALSE]
<1>1. /\ In(a, "create") /\ con[a] = NoContainer /\ task[a].version \in images[a] /\ Advance(a)
      /\ UNCHANGED <<manager, table, db, redis, saved, from, latest, images, sub, scheduler,
                     monitor, count>>
  BY DEF createContainer, things
<1>2. x \in Nat /\ x # 0  BY DEF New
<1>3. /\ row' \in [Apps -> Row] /\ \A b \in Apps \ {a} : row'[b] = row[b]
      /\ row'[a].state = row[a].state /\ row'[a].cid = x /\ row'[a].run = row[a].run
      /\ row'[a].version = row[a].version /\ row'[a].old = row[a].old
  BY <1>0, <1>2 DEF TypeOK, Row
<1>4. /\ made \in Container /\ made.id = x /\ made.version = task[a].version
      /\ made.env = table[a] /\ made.runs = FALSE
  <2>1. task[a].version \in 0..2  BY DEF Task
  <2> QED  BY <1>2, <2>1 DEF Container
<1>5. con' = [con EXCEPT ![a] = made]  BY <1>0
<1> HIDE DEF made
<1>6. /\ con' \in [Apps -> Container] /\ con'[a] = made /\ \A b \in Apps \ {a} : con'[b] = con[b]
  BY <1>4, <1>5 DEF TypeOK
<1>7. /\ task' \in [Apps -> Task] /\ \A b \in Apps \ {a} : task'[b] = task[b]
      /\ task'[a].does = task[a].does /\ task'[a].version = task[a].version
      /\ task'[a].addon = "none" /\ PlanOf(a)' = PlanOf(a)
      /\ \A y : Past(a, y)' <=> Past(a, y) \/ y = "create"
  BY <1>1, Advanced
<1>8. TypeOK'  BY <1>1, <1>3, <1>6, <1>7 DEF TypeOK, scheduler, monitor
<1>9. /\ task[a].does \in Builds /\ task[a].n # 0 /\ task[a].does \notin Mild
      /\ Past(a, "delete") /\ Past(a, "download") /\ Past(a, "setup") /\ ~Past(a, "start")
  <2>1. task[a].does \in Pending /\ task[a].n # 0  BY <1>1, OneStep
  <2>2. /\ task[a].does \in Builds
        /\ Past(a, "delete") /\ Past(a, "download") /\ Past(a, "setup") /\ ~Past(a, "start")
    BY <1>1, <2>1, Order1
  <2> QED  BY <2>1, <2>2 DEF Builds, Mild, Reinstalls, Updates, RunCommands
<1>10. ~In(a, "delete")'
  <2>0. Past(a, "delete")' /\ PlanOf(a)' = PlanOf(a)  BY <1>7, <1>9
  <2>1. PICK i \in 1..Len(PlanOf(a)) : i < task'[a].n /\ PlanOf(a)[i] = "delete"
    BY <2>0 DEF Past
  <2>2. Len(PlanOf(a)) \in 0..11  BY PlanLength DEF PlanOf
  <2>3. ASSUME In(a, "delete")'  PROVE FALSE
    <3>1. task'[a].n \in 1..Len(PlanOf(a)) /\ PlanOf(a)[task'[a].n] = "delete"
      BY <1>7, <2>3 DEF In
    <3>2. task'[a].n = i  BY <2>1, <3>1, PlanOnce DEF PlanOf
    <3> QED  BY <2>1, <2>2, <3>2
  <2> QED  BY <2>3
<1>11. RowFits(a)' /\ TaskFits(a)' /\ (In(a, "setup")' => "redis" \in task'[a].todo)
  BY <1>1, <1>3, <1>10, TaskMoves
<1>12. RunFits(a)'
  <2>1. NoContainer.runs = FALSE  BY DEF NoContainer
  <2>2. con'[a].runs = con[a].runs  BY <1>1, <1>4, <1>6, <2>1
  <2> QED  BY <1>1, <1>3, <2>2, RunKept
<1>13. DataFits(a)'  BY <1>1, DataKept
<1>14. EnvFits(a)'
  <2>1. RedisFits(a)'  BY <1>1, <1>9 DEF EnvFits, RedisFits
  <2>2. Current(a)'  BY <1>1, <1>2, <1>3, <1>4, <1>6, <2>1 DEF Current
  <2>3. ~AtRest(a)'
    <3>1. ~AtRest(a)  BY <1>9, Unrest
    <3> QED  BY <1>3, <3>1 DEF AtRest
  <2>4. con'[a].id # 0  BY <1>2, <1>4, <1>6
  <2>5. task'[a].version \in images'[a] /\ Past(a, "create")'  BY <1>1, <1>7
  <2> QED  BY <1>7, <1>9, <1>11, <2>1, <2>2, <2>3, <2>4, <2>5 DEF EnvFits
<1>15. \A b \in Apps \ {a} : about(b)' = about(b)  BY <1>1, <1>3, <1>6, <1>7 DEF about
<1> QED  BY <1>8, <1>11, <1>12, <1>13, <1>14, <1>15, OneApp DEF Fits

LEMMA RunStep ==
    ASSUME IInv, NEW a \in Apps, startContainer(a)
    PROVE  IInv'
<1>k. /\ TypeOK /\ RunFits(a) /\ task[a].n \in Nat /\ task[a].does \in Whats
  BY Known
<1> USE <1>k
<1>0. /\ In(a, "start") /\ con[a].id # 0 /\ Advance(a) /\ con' = [con EXCEPT ![a].runs = TRUE]
      /\ UNCHANGED <<row, manager, table, db, redis, saved, from, latest, images, sub, scheduler,
                     monitor, count>>
  BY DEF startContainer, things
<1>1. /\ con' \in [Apps -> Container] /\ \A b \in Apps \ {a} : con'[b] = con[b]
      /\ con'[a].id = con[a].id /\ con'[a].version = con[a].version
      /\ con'[a].env = con[a].env /\ con'[a].runs = TRUE
  BY <1>0, SameContainer
<1>2. con[a] # NoContainer  BY <1>0 DEF NoContainer
<1>3. /\ task' \in [Apps -> Task] /\ \A b \in Apps \ {a} : task'[b] = task[b]
      /\ task'[a].does = task[a].does
      /\ \A y : Past(a, y)' <=> Past(a, y) \/ y = "start"
  BY <1>0, Advanced
<1>4. TypeOK'  BY <1>0, <1>1, <1>3 DEF TypeOK, scheduler, monitor
<1>5. RowFits(a)' /\ TaskFits(a)' /\ (In(a, "setup")' => "redis" \in task'[a].todo)
  BY <1>0, <1>1, TaskMoves
<1>6. EnvFits(a)'  BY <1>0, <1>1, <1>2, <1>5, EnvKept
<1>7. DataFits(a)'  BY <1>0, DataKept
<1>8. RunFits(a)'
  <2>1. task[a].does # "pending_stop"  BY <1>0, StopPlan
  <2>2. Runs(a)' /\ Past(a, "start")'  BY <1>1, <1>3 DEF Runs
  <2> QED  BY <1>1, <1>3, <2>1, <2>2 DEF RunFits
<1>9. \A b \in Apps \ {a} : about(b)' = about(b)  BY <1>0, <1>1, <1>3 DEF about
<1> QED  BY <1>4, <1>5, <1>6, <1>7, <1>8, <1>9, OneApp DEF Fits

\* The row says that the app runs when it does.
LEMMA StartedStep ==
    ASSUME IInv, NEW a \in Apps, appStarted(a)
    PROVE  IInv'
<1>k. /\ TypeOK /\ RunFits(a) /\ row[a] \in Row /\ task[a].n \in Nat /\ task[a].does \in Whats
  BY Known
<1> USE <1>k
<1>0. /\ In(a, "started") /\ Advance(a) /\ row' = [row EXCEPT ![a].run = "running"]
      /\ UNCHANGED <<manager, table, db, redis, saved, from, latest, images, con, sub, scheduler,
                     monitor, count>>
  BY DEF appStarted, things
<1>1. /\ row' \in [Apps -> Row] /\ \A b \in Apps \ {a} : row'[b] = row[b]
      /\ row'[a].state = row[a].state /\ row'[a].version = row[a].version
      /\ row'[a].old = row[a].old /\ row'[a].cid = row[a].cid
  BY <1>0 DEF TypeOK, Row, RunStates
<1>2. /\ task' \in [Apps -> Task] /\ \A b \in Apps \ {a} : task'[b] = task[b]
      /\ task'[a].does = task[a].does
      /\ \A y : Past(a, y)' <=> Past(a, y) \/ y = "started"
  BY <1>0, Advanced
<1>3. TypeOK'  BY <1>0, <1>1, <1>2 DEF TypeOK, scheduler, monitor
<1>4. RowFits(a)' /\ TaskFits(a)' /\ (In(a, "setup")' => "redis" \in task'[a].todo)
  BY <1>0, <1>1, TaskMoves
<1>5. EnvFits(a)'  BY <1>0, <1>1, <1>4, EnvKept
<1>6. DataFits(a)'  BY <1>0, DataKept
<1>7. RunFits(a)'
  <2>1. task[a].does # "pending_stop"  BY <1>0, StopPlan
  <2>2. Past(a, "start") /\ con[a].runs
    <3>1. task[a].does \in Pending  BY <1>0, OneStep
    <3> QED  BY <1>0, <3>1, Order1 DEF RunFits
  <2>3. con'[a].runs /\ Runs(a)' /\ Past(a, "start")'  BY <1>0, <1>2, <2>2 DEF Runs
  <2> QED  BY <1>2, <2>1, <2>3 DEF RunFits
<1>8. \A b \in Apps \ {a} : about(b)' = about(b)  BY <1>0, <1>1, <1>2 DEF about
<1> QED  BY <1>3, <1>4, <1>5, <1>6, <1>7, <1>8, OneApp DEF Fits

LEMMA TaskSteps ==
    ASSUME IInv, NEW a \in Apps, TaskStep(a)
    PROVE  IInv'
BY StartStep, StopStep, StoppedStep, DeleteStep, DeletedStep, TeardownStep, SetupStep, ConfigStep,
   RestoreStep, AddonsDoneStep, BackupStep, DownloadStep, ImageStep, CreateStep, RunStep, StartedStep,
   FinishStep DEF TaskStep

-----------------------------------------------------------------------------
\* The users, the removal of backups, the scheduler, the monitor, and the end of the box.

\* While a database may go the container does not run.
LEMMA UseStep ==
    ASSUME IInv, NEW a \in Apps, Use(a)
    PROVE  IInv'
<1>k. TypeOK /\ RowFits(a) /\ TaskFits(a) /\ EnvFits(a) /\ RunFits(a) /\ DataFits(a)  BY Known
<1> USE <1>k
<1>0. /\ con[a].runs /\ db[a] < MaxUses
      /\ db' = [db EXCEPT ![a] = db[a] + 1]
      /\ latest' = [latest EXCEPT ![a] = db[a] + 1]
      /\ UNCHANGED <<row, manager, table, redis, saved, from, images, con, sub, task, scheduler,
                     monitor, count>>
  BY DEF Use
<1>1. db[a] + 1 \in Data
  <2>1. MaxUses \in Nat /\ db[a] \in Data  BY ContainersAssumption DEF TypeOK
  <2> QED  BY <1>0, <2>1 DEF Data, NoData
<1>2. /\ db' \in [Apps -> Data] /\ latest' \in [Apps -> Data] /\ latest'[a] = db'[a]
      /\ \A b \in Apps \ {a} : db'[b] = db[b] /\ latest'[b] = latest[b]
  BY <1>0, <1>1 DEF TypeOK
<1>3. TypeOK'  BY <1>0, <1>2 DEF TypeOK, scheduler, monitor
<1>4. /\ row'[a] = row[a] /\ manager'[a] = manager[a] /\ task'[a] = task[a] /\ con'[a] = con[a]
      /\ table'[a] = table[a] /\ redis'[a] = redis[a] /\ images'[a] = images[a]
      /\ saved'[a] = saved[a] /\ from'[a] = from[a]
  BY <1>0
<1>5. /\ PlanOf(a)' = PlanOf(a)
      /\ \A x : (In(a, x)' <=> In(a, x)) /\ (Past(a, x)' <=> Past(a, x))
      /\ Unused(a)' = Unused(a) /\ (MayDrop(a)' <=> MayDrop(a))
  BY <1>4, Stayed, SameTask
<1>6. (RedisFits(a)' <=> RedisFits(a)) /\ (Current(a)' <=> Current(a)) /\ (Runs(a)' <=> Runs(a))
      /\ (AtRest(a)' <=> AtRest(a))
  BY <1>4 DEF RedisFits, Current, Runs, AtRest
<1>7. RowFits(a)'  BY <1>4 DEF RowFits
<1>8. TaskFits(a)'  BY <1>4, <1>5 DEF TaskFits
<1>9. EnvFits(a)'  BY <1>4, <1>5, <1>6 DEF EnvFits
<1>10. RunFits(a)'  BY <1>4, <1>5, <1>6 DEF RunFits
<1>11. DataFits(a)'
  <2>1. ~MayDrop(a)  BY <1>0 DEF RunFits, MayDrop
  <2> QED  BY <1>2, <1>4, <1>5, <2>1 DEF DataFits
<1>12. \A b \in Apps \ {a} : about(b)' = about(b)  BY <1>0, <1>2 DEF about
<1> QED  BY <1>3, <1>7, <1>8, <1>9, <1>10, <1>11, <1>12, OneApp DEF Fits

\* A backup is removed while no task of its app is at work.
LEMMA CleanupStep ==
    ASSUME IInv, NEW a \in Apps, cleanup(a)
    PROVE  IInv'
<1>k. TypeOK /\ RowFits(a) /\ TaskFits(a) /\ EnvFits(a) /\ RunFits(a) /\ DataFits(a)  BY Known
<1> USE <1>k
<1>0. PICK b \in saved[a] :
         /\ saved' = [saved EXCEPT ![a] = saved[a] \ {b}]
         /\ latest' = [latest EXCEPT ![a] =
                         IF latest[a] = db[a] \/ \E other \in saved[a] \ {b} : other.content = latest[a]
                         THEN latest[a] ELSE NoData]
  BY DEF cleanup
<1>1. /\ row[a].state \in {"installed", "error"} /\ task[a].n = 0
      /\ UNCHANGED <<row, manager, table, db, redis, from, images, con, sub, task, scheduler,
                     monitor, count>>
  BY DEF cleanup
<1>2. /\ saved' \in [Apps -> SUBSET Saved] /\ saved'[a] = saved[a] \ {b}
      /\ latest' \in [Apps -> Data]
      /\ latest'[a] # NoData => latest'[a] = db[a] \/ \E other \in saved'[a] : other.content = latest'[a]
      /\ \A c \in Apps \ {a} : saved'[c] = saved[c] /\ latest'[c] = latest[c]
  BY <1>0, SomeData DEF TypeOK
<1>3. TypeOK'  BY <1>1, <1>2 DEF TypeOK, scheduler, monitor
<1>4. task[a] = NoTask /\ task'[a] = NoTask  BY <1>1 DEF TaskFits
<1>5. /\ TaskFits(a)' /\ ~MayDrop(a)' /\ \A x : ~In(a, x)' /\ ~Past(a, x)'
      /\ task'[a].n = 0 /\ task'[a].does = "none" /\ task'[a].addon = "none"
  BY <1>4, Resting
<1>6. (Current(a)' <=> Current(a)) /\ (Runs(a)' <=> Runs(a)) /\ (AtRest(a)' <=> AtRest(a))
  BY <1>1 DEF RedisFits, Current, Runs, AtRest
<1>7. RowFits(a)'  BY <1>1 DEF RowFits, Reinstalls
<1>8. EnvFits(a)'  BY <1>1, <1>5, <1>6 DEF EnvFits
<1>9. RunFits(a)'
  <2>1. task'[a].does # "pending_stop"  BY <1>5
  <2> QED  BY <1>1, <1>5, <1>6, <2>1 DEF RunFits
<1>10. DataFits(a)'  BY <1>1, <1>2, <1>5 DEF DataFits, IsSaved
<1>11. \A c \in Apps \ {a} : about(c)' = about(c)  BY <1>1, <1>2 DEF about
<1> QED  BY <1>3, <1>5, <1>7, <1>8, <1>9, <1>10, <1>11, OneApp DEF Fits

\* Who leaves the apps and their tasks alone keeps the invariant.
LEMMA Aside ==
    ASSUME IInv, UNCHANGED <<row, manager, things, images, con, task>>, TypeOK'
    PROVE  IInv'
<1>1. ASSUME NEW b \in Apps  PROVE Fits(b)'
  <2>1. about(b)' = about(b)  BY DEF about, things
  <2> QED  BY <2>1, Elsewhere DEF IInv
<1> QED  BY <1>1 DEF IInv

LEMMA SyncStep ==
    ASSUME IInv, Sync \/ \E a \in Apps : KillFails(a)
    PROVE  IInv'
<1>0. /\ TypeOK /\ sync \in SyncState /\ gState \in [Apps -> BOOLEAN] /\ job \in [Apps -> BOOLEAN]
      /\ sub \in [Apps -> {"none", "made", "lost"}]
  BY DEF IInv, TypeOK
<1>1. NoSync \in SyncState  BY DEF NoSync, SyncState
<1>2. ASSUME NEW a \in Apps, DoneWith(a)  PROVE sync' \in SyncState
  <2>1. [sync EXCEPT !.app = {}, !.todo = sync.todo \ {a}] \in SyncState  BY <1>0 DEF SyncState
  <2> QED  BY <1>1, <1>2, <2>1 DEF DoneWith
<1>3. CASE SyncStart
  <2> DEFINE wants == {a \in present : "scheduler" \in Asks(row[a].version)}
             known == {a \in Apps : gState[a]}
             new == [step |-> "removed", rows |-> present, app |-> {}, wants |-> wants,
                     todo |-> known \ present]
  <2>1. sync' = new /\ UNCHANGED <<gState, job, tick, sub, taskFrame>>  BY <1>3 DEF SyncStart
  <2>2. new \in SyncState  BY DEF SyncState, present
  <2> HIDE DEF new
  <2>3. TypeOK'  BY <1>0, <2>1, <2>2 DEF TypeOK, taskFrame, things, monitor
  <2> QED  BY <2>1, <2>3, Aside DEF taskFrame
<1>4. CASE RemovedStopped
  <2> DEFINE changed == {a \in sync.rows : gState[a] # (a \in sync.wants)}
             new == [sync EXCEPT !.step = "apps", !.todo = changed]
  <2>1. /\ gState' = [a \in Apps |-> gState[a] /\ a \in sync.rows]
        /\ sync' = IF changed = {} THEN NoSync ELSE new
        /\ UNCHANGED <<job, tick, sub, taskFrame>>
    BY <1>4 DEF RemovedStopped
  <2>2. changed \subseteq Apps  BY <1>0 DEF SyncState
  <2> HIDE DEF changed
  <2>3. new \in SyncState  BY <1>0, <2>2 DEF SyncState
  <2> HIDE DEF new
  <2>4. sync' \in SyncState /\ gState' \in [Apps -> BOOLEAN]  BY <1>1, <2>1, <2>3
  <2>5. TypeOK'  BY <1>0, <2>1, <2>4 DEF TypeOK, taskFrame, things, monitor
  <2> QED  BY <2>1, <2>5, Aside DEF taskFrame
<1>5. ASSUME NEW a \in Apps, createCronJobs(a)  PROVE IInv'
  <2>1. sync' \in SyncState  BY <1>2, <1>5 DEF createCronJobs
  <2>2. /\ gState' \in [Apps -> BOOLEAN] /\ job' \in [Apps -> BOOLEAN]
        /\ UNCHANGED <<tick, sub, taskFrame>>
    BY <1>0, <1>5 DEF createCronJobs
  <2>3. TypeOK'  BY <1>0, <2>1, <2>2 DEF TypeOK, taskFrame, things, monitor
  <2> QED  BY <2>2, <2>3, Aside DEF taskFrame
<1>6. ASSUME NEW a \in Apps, stopJobs(a)  PROVE IInv'
  <2>1. sync' \in SyncState  BY <1>0, <1>6 DEF stopJobs, SyncState
  <2>2. job' \in [Apps -> BOOLEAN] /\ UNCHANGED <<gState, tick, sub, taskFrame>>
    BY <1>0, <1>6 DEF stopJobs
  <2>3. TypeOK'  BY <1>0, <2>1, <2>2 DEF TypeOK, taskFrame, things, monitor
  <2> QED  BY <2>2, <2>3, Aside DEF taskFrame
<1>7. ASSUME NEW a \in Apps, killContainer(a)  PROVE IInv'
  <2>1. sync' \in SyncState  BY <1>2, <1>7 DEF killContainer
  <2>2. /\ sub' \in [Apps -> {"none", "made", "lost"}]
        /\ UNCHANGED <<job, tick, taskFrame>>
    BY <1>0, <1>7 DEF killContainer
  <2>3. gState' \in [Apps -> BOOLEAN]  BY <1>0, <1>7 DEF killContainer
  <2>4. TypeOK'  BY <1>0, <2>1, <2>2, <2>3 DEF TypeOK, taskFrame, things, monitor
  <2> QED  BY <2>2, <2>4, Aside DEF taskFrame
<1>8. ASSUME NEW a \in Apps, KillFails(a)  PROVE IInv'
  <2>1. sync' \in SyncState
    <3>1. [sync EXCEPT !.app = {}, !.todo = {}] \in SyncState  BY <1>0 DEF SyncState
    <3> QED  BY <1>2, <1>8, <3>1 DEF KillFails
  <2>2. /\ count' \in Counts
        /\ UNCHANGED <<job, tick, row, manager, table, db, redis, saved, from, latest, images, con,
                       task, monitor>>
    BY <1>0, <1>8, Counted DEF KillFails, things
  <2>3. gState' \in [Apps -> BOOLEAN]  BY <1>0, <1>8 DEF KillFails
  <2>4. sub' \in [Apps -> {"none", "made", "lost"}]  BY <1>0, <1>8 DEF KillFails
  <2>5. TypeOK'  BY <1>0, <2>1, <2>2, <2>3, <2>4 DEF TypeOK, monitor
  <2>6. UNCHANGED things  BY <2>2 DEF things
  <2> QED  BY <2>2, <2>5, <2>6, Aside
<1> QED  BY <1>3, <1>4, <1>5, <1>6, <1>7, <1>8 DEF Sync

\* The scheduled command of an app, and what the monitor does.
LEMMA AsideStep ==
    ASSUME IInv, NEW a \in Apps,
           \/ doTask(a) \/ createSubcontainer(a)
           \/ checkAppHealth(a) \/ AppDies(a) \/ AppRecovers(a)
    PROVE  IInv'
<1>0. /\ TypeOK /\ tick \in [Apps -> TickState] /\ row[a].cid \in Nat /\ row[a].version \in 0..2
      /\ sub \in [Apps -> {"none", "made", "lost"}]
  <2>1. TypeOK /\ row[a] \in Row  BY DEF IInv, TypeOK
  <2>2. row[a].cid \in Nat /\ row[a].version \in 0..2  BY <2>1 DEF Row
  <2> QED  BY <2>1, <2>2 DEF TypeOK
<1>1. CASE doTask(a)
  <2>1. tick' \in [Apps -> TickState]  BY <1>0, <1>1 DEF doTask, TickState
  <2>2. sub' \in [Apps -> {"none", "made", "lost"}]  BY <1>0, <1>1 DEF doTask
  <2>3. UNCHANGED <<gState, job, sync, taskFrame>>  BY <1>1 DEF doTask
  <2>4. TypeOK'  BY <1>0, <2>1, <2>2, <2>3 DEF TypeOK, taskFrame, things, monitor
  <2> QED  BY <2>3, <2>4, Aside DEF taskFrame
<1>2. CASE createSubcontainer(a)
  <2>1. tick' \in [Apps -> TickState]
    <3>1. NoTick \in TickState  BY DEF NoTick, TickState
    <3> QED  BY <1>0, <1>2, <3>1 DEF createSubcontainer
  <2>2. sub' \in [Apps -> {"none", "made", "lost"}]  BY <1>0, <1>2 DEF createSubcontainer
  <2>3. UNCHANGED <<gState, job, sync, taskFrame>>  BY <1>2 DEF createSubcontainer
  <2>4. TypeOK'  BY <1>0, <2>1, <2>2, <2>3 DEF TypeOK, taskFrame, things, monitor
  <2> QED  BY <2>3, <2>4, Aside DEF taskFrame
<1>3. CASE checkAppHealth(a)
  <2>1. /\ health' \in [Apps -> {"null", "healthy", "dead"}]
        /\ UNCHANGED <<alive, count, monitorFrame>>
    BY <1>0, <1>3 DEF checkAppHealth, TypeOK
  <2>2. mailed' \in [Apps -> BOOLEAN]  BY <1>0, <1>3 DEF checkAppHealth, TypeOK
  <2>3. TypeOK'  BY <1>0, <2>1, <2>2 DEF TypeOK, monitorFrame, things, scheduler
  <2> QED  BY <2>1, <2>3, Aside DEF monitorFrame
<1>4. CASE AppDies(a)
  <2>1. /\ alive' \in [Apps -> BOOLEAN]
        /\ UNCHANGED <<health, mailed, count, monitorFrame>>
    BY <1>0, <1>4 DEF AppDies, TypeOK
  <2>2. TypeOK'  BY <1>0, <2>1 DEF TypeOK, monitorFrame, things, scheduler
  <2> QED  BY <2>1, <2>2, Aside DEF monitorFrame
<1>5. CASE AppRecovers(a)
  <2>1. /\ alive' \in [Apps -> BOOLEAN]
        /\ UNCHANGED <<health, mailed, count, monitorFrame>>
    BY <1>0, <1>5 DEF AppRecovers, TypeOK
  <2>2. TypeOK'  BY <1>0, <2>1 DEF TypeOK, monitorFrame, things, scheduler
  <2> QED  BY <2>1, <2>2, Aside DEF monitorFrame
<1> QED  BY <1>1, <1>2, <1>3, <1>4, <1>5

-----------------------------------------------------------------------------
\* The invariant holds in all that can happen.

LEMMA InitFits == Init => IInv
<1> SUFFICES ASSUME Init  PROVE IInv
  OBVIOUS
<1>0. MaxCommands \in Nat /\ MaxFaults \in Nat /\ MaxUses \in Nat
  BY ContainersAssumption
<1>1. PICK S \in SUBSET Apps :
         /\ row = [a \in Apps |-> IF a \notin S THEN [state |-> "none", run |-> "null", version |-> 0, old |-> 0, cid |-> 0]
                    ELSE [state |-> "installed", run |-> "running", version |-> 1, old |-> 0, cid |-> 4]]
         /\ table = [a \in Apps |-> IF a \notin S THEN NoContainer.env ELSE [mail |-> 1, db |-> 2, redis |-> 3]]
         /\ redis = [a \in Apps |-> table[a].redis]
         /\ db = [a \in Apps |-> IF a \notin S THEN NoData ELSE 0] /\ latest = db
         /\ images = [a \in Apps |-> IF a \notin S THEN {} ELSE {1}]
         /\ con = [a \in Apps |-> IF a \notin S THEN NoContainer
                                  ELSE [id |-> 4, version |-> 1, env |-> table[a], runs |-> TRUE]]
  BY DEF Init
<1>2. /\ saved = [a \in Apps |-> {}] /\ from = [a \in Apps |-> NoBackup]
      /\ task = [a \in Apps |-> NoTask] /\ manager = [a \in Apps |-> Idle]
  BY DEF Init
<1>3. NoContainer.env \in Secrets /\ [mail |-> 1, db |-> 2, redis |-> 3] \in Secrets
  BY DEF NoContainer, Secrets, Addons
<1>4. TypeOK
  <2>1. row \in [Apps -> Row]  BY <1>1 DEF Row, States, RunStates
  <2>2. table \in [Apps -> Secrets]  BY <1>1, <1>3
  <2>3. redis \in [Apps -> Nat]
    <3>1. \A t \in Secrets : t.redis \in Nat  BY DEF Secrets, Addons
    <3> QED  BY <1>1, <2>2, <3>1
  <2>4. db \in [Apps -> Data] /\ latest \in [Apps -> Data]
    BY <1>0, <1>1 DEF Data, NoData
  <2>5. saved \in [Apps -> SUBSET Saved] /\ from \in [Apps -> Saved \cup {NoBackup}]  BY <1>2
  <2>6. images \in [Apps -> SUBSET (0..2)]  BY <1>1
  <2>7. con \in [Apps -> Container]
    <3>1. NoContainer \in Container  BY <1>3 DEF NoContainer, Container
    <3>2. \A a \in Apps : [id |-> 4, version |-> 1, env |-> table[a], runs |-> TRUE] \in Container
      BY <2>2 DEF Container
    <3> QED  BY <1>1, <3>1, <3>2
  <2>8. task \in [Apps -> Task]
    <3>1. NoTask \in Task  BY DEF NoTask, Task, Addons, States
    <3> QED  BY <1>2, <3>1
  <2>9. /\ sub \in [Apps -> {"none", "made", "lost"}]
        /\ gState \in [Apps -> BOOLEAN] /\ job \in [Apps -> BOOLEAN]
        /\ health \in [Apps -> {"null", "healthy", "dead"}]
        /\ mailed \in [Apps -> BOOLEAN] /\ alive \in [Apps -> BOOLEAN]
    BY DEF Init
  <2>10. sync \in SyncState  BY DEF Init, NoSync, SyncState
  <2>11. tick \in [Apps -> TickState]  BY DEF Init, NoTick, TickState
  <2>12. count \in Counts  BY <1>0 DEF Init, Counts
  <2>13. manager \in [Apps -> Managed]
    <3>1. Idle \in Managed  BY DEF Idle, Managed
    <3> QED  BY <1>2, <3>1
  <2> QED
    BY <2>1, <2>2, <2>3, <2>4, <2>5, <2>6, <2>7, <2>8, <2>9, <2>10, <2>11, <2>12, <2>13 DEF TypeOK
<1>5. ASSUME NEW a \in Apps  PROVE Fits(a)
  <2>0. task[a] = NoTask /\ ~manager[a].crashed /\ manager[a].removal = "no" /\ from[a] = NoBackup
    BY <1>2 DEF Idle
  <2>1. /\ TaskFits(a) /\ ~MayDrop(a) /\ \A x : ~In(a, x) /\ ~Past(a, x)
        /\ task[a].n = 0 /\ task[a].does = "none" /\ task[a].addon = "none"
    BY <2>0, Rests
  <2>2. task[a].does # "pending_stop"  BY <2>1
  <2>3. redis[a] = table[a]["redis"] /\ latest[a] = db[a]  BY <1>1
  <2>4. DataFits(a)  BY <2>1, <2>3 DEF DataFits
  <2>5. CASE a \notin S
    <3>1. row[a].state = "none" /\ con[a] = NoContainer  BY <1>1, <2>5
    <3>2. RowFits(a)  BY <2>0, <2>1, <3>1 DEF RowFits, Updates, Reinstalls
    <3>3. ~AtRest(a)  BY <3>1 DEF AtRest
    <3>4. EnvFits(a)  BY <2>1, <3>1, <3>3 DEF EnvFits
    <3>5. RunFits(a)  BY <2>1, <2>2, <3>3 DEF RunFits
    <3> QED  BY <2>1, <2>4, <3>2, <3>4, <3>5 DEF Fits
  <2>6. CASE a \in S
    <3>1. /\ row[a].state = "installed" /\ row[a].version = 1 /\ row[a].cid = 4
          /\ con[a].id = 4 /\ con[a].version = 1 /\ con[a].env = table[a] /\ con[a].runs
      BY <1>1, <2>6
    <3>2. images[a] = {1}  BY <1>1, <2>6
    <3>3. Current(a) /\ Runs(a)  BY <2>3, <3>1, <3>2 DEF Current, RedisFits, Runs
    <3>4. RowFits(a)  BY <3>1 DEF RowFits, Updates, Reinstalls
    <3>5. EnvFits(a)  BY <2>1, <3>1, <3>3 DEF EnvFits
    <3>6. RunFits(a)  BY <2>1, <2>2, <3>3 DEF RunFits
    <3> QED  BY <2>1, <2>4, <3>4, <3>5, <3>6 DEF Fits
  <2> QED  BY <2>5, <2>6
<1> QED  BY <1>4, <1>5 DEF IInv

LEMMA NextFits == IInv /\ [Next]_vars => IInv'
<1> SUFFICES ASSUME IInv, [Next]_vars  PROVE IInv'
  OBVIOUS
<1>1. CASE Next
  BY <1>1, SyncStep, EndStep, CommandStep, ManageStep, TaskSteps, FailStep, CrashSteps, UseStep,
     CleanupStep, AsideStep
  DEF Next
<1>2. CASE UNCHANGED vars
  <2>1. TypeOK'  BY <1>2 DEF IInv, TypeOK, vars, things, scheduler, monitor
  <2>2. UNCHANGED <<row, manager, things, images, con, task>>  BY <1>2 DEF vars
  <2> QED  BY <2>1, <2>2, Aside
<1> QED  BY <1>1, <1>2

LEMMA Invariance == Spec => []IInv
BY InitFits, NextFits, PTL DEF Spec

\* Every variable has its type: rows, tables, containers and tasks of any apps.
THEOREM TypeCorrect == Spec => []TypeOK
<1>1. IInv => TypeOK  BY DEF IInv
<1> QED  BY <1>1, Invariance, PTL

\* An installed app has the container its row names, of a version whose image is here and with
\* the passwords its addons have now, and it runs when the row says so: whatever commands are
\* given, at whatever step a task is killed, fails or crashes and is done again, and when its
\* last write comes over the row of a newer command (apptask.js and addons.js; the
\* start and stop of apps.js, and the forced update).
THEOREM RunsWithItsAddons == Spec => []EnvIsCurrent
<1>1. IInv => EnvIsCurrent
  BY DEF IInv, Fits, EnvFits, RunFits, AtRest, Runs, Current, RedisFits, EnvIsCurrent
<1> QED  BY <1>1, Invariance, PTL

\* What the users of an app have written last is in its database or in one of its backups,
\* whatever task is done, fails or is stopped, until it is given up: by a removal, by a
\* restore or an install that is begun, by a forced update to a version without the
\* database, which makes no backup, or with the last backup that has it (update of apptask.js,
\* which removes addons only after its backup; the cleanup of backups.js).
THEOREM NothingLost == Spec => []DataRecoverable
<1>1. IInv => DataRecoverable
  BY DEF IInv, Fits, DataFits, IsSaved, DataRecoverable
<1> QED  BY <1>1, Invariance, PTL

=============================================================================
