---------------------------- MODULE NamesProofs ----------------------------
(***************************************************************************)
(* The safety of the names of the box and its apps, for any instances and  *)
(* bounds: of what apps own (AppNames) and, in the second half, of the DNS *)
(* records of the zone they share with the user (Dns).  The two share no   *)
(* variable.                                                               *)
(*                                                                         *)
(* AppNames: types, the ownership of mailboxes and ports, and that no task *)
(* works on an app that is gone.  The invariant adds to the three what a   *)
(* request and a task carry from one step to the next: whom they are       *)
(* about, and where that was.                                              *)
(***************************************************************************)
EXTENDS AppNames, Dns, FiniteSetTheorems, SequenceTheorems, TLAPS

IStates == PendingStates \cup {"none", "gone", "installed", "error"}
Places == Locations \cup {None}
Changes == {PENDING_CONFIGURE, PENDING_UPDATE, PENDING_FORCE_UPDATE, PENDING_RESTORE}

Rows == [istate : IStates, location : Places, oldLocation : Places]
RequestSet == [step : Steps, cmd : PendingStates \cup {"none"}, app : Apps \cup {None},
               location : Places, ports : {None} \cup SUBSET Ports, read : Places]
TaskSet == [state : {"none", "due", "working"}, cmd : IStates, location : Places,
            oldLocation : Places, todo : Todos \cup {<<>>}]

\* A request is about an app, and one that is to change it knows where the app was.
RequestsKnow ==
    \A r \in Requests :
       LET q == request[r]
       IN  /\ q.step # "idle" => q.app \in Apps
           /\ q.step \in {"rename", "set"} => q.read \in Locations /\ q.cmd \in Changes

TasksTyped ==
    /\ task \in [Apps -> TaskSet]
    /\ \A a \in Apps : task[a] = NoTask \/ task[a] = Due \/ task[a].todo \in Todos

RowsTyped ==
    /\ row \in [Apps -> Rows]
    /\ \A a \in Apps : HasRow(a) <=> row[a].location # None

\* EveryAppHasItsMailbox, with the types of the two functions.
WithRow == {a \in Apps : HasRow(a)}

Owned ==
    /\ mailbox \in [Locations -> WithRow \cup {None}]
    /\ ports \in [Ports -> WithRow \cup {None}]
    /\ \A n, m \in Locations : mailbox[n] = mailbox[m] /\ mailbox[n] # None => n = m
    /\ \A a \in WithRow : \E n \in Locations : mailbox[n] = a

IInv ==
    /\ RowsTyped
    /\ Owned
    /\ dns \in [Locations -> {"none", "ours", "foreign"}]
    /\ request \in [Requests -> RequestSet]
    /\ TasksTyped
    /\ commands \in 0 .. MaxCommands
    /\ restarts \in 0 .. MaxRestarts
    /\ RequestsKnow
    /\ TasksHaveRows

-----------------------------------------------------------------------------
(* A mailbox has a name of its own, wherever the app is. *)
LEMMA MailNameIsName ==
    ASSUME NEW a \in Apps, NEW l \in Locations
    PROVE  MailName(a, l) \in Locations
BY AppNamesAssumption DEF MailName

(* What is left of a task's work after a step is such work, or nothing. *)
LEMMA TodoShrinks ==
    ASSUME NEW t \in Todos
    PROVE  /\ t # <<>>
           /\ Len(t) # 1 => Tail(t) \in Todos
<1>1. Tail(<<"unregister old", "register", "done">>) = <<"register", "done">>
  OBVIOUS
<1>2. Tail(<<"register", "done">>) = <<"done">>
  OBVIOUS
<1>3. Tail(<<"unregister", "remove">>) = <<"remove">>
  OBVIOUS
<1>4. /\ Len(<<"done">>) = 1
      /\ Len(<<"already exists">>) = 1
      /\ Len(<<"remove">>) = 1
  OBVIOUS
<1>5. /\ <<"unregister old", "register", "done">> # <<>>
      /\ <<"register", "done">> # <<>>
      /\ <<"unregister", "remove">> # <<>>
      /\ <<"done">> # <<>>
      /\ <<"already exists">> # <<>>
      /\ <<"remove">> # <<>>
  OBVIOUS
<1> QED BY <1>1, <1>2, <1>3, <1>4, <1>5, Zenon DEF Todos

(* A task that takes its next step stays a task; the others stay as they are. *)
LEMMA AdvanceTyped ==
    ASSUME TasksTyped, NEW a \in Apps, task[a].todo # <<>>, Advance(a)
    PROVE  /\ TasksTyped'
           /\ \A b \in Apps : task'[b].todo # <<>> => task[b].todo # <<>>
<1>1. task[a].todo \in Todos
  BY DEF TasksTyped, NoTask, Due
<1>2. NoTask \in TaskSet
  BY DEF NoTask, TaskSet, IStates, Places
<1>3. CASE Len(task[a].todo) = 1
  <2>1. task' = [task EXCEPT ![a] = NoTask]
    BY <1>3 DEF Advance
  <2> QED BY <2>1, <1>2 DEF TasksTyped, NoTask
<1>4. CASE Len(task[a].todo) # 1
  <2>1. task' = [task EXCEPT ![a].todo = Tail(task[a].todo)]
    BY <1>4 DEF Advance, TasksTyped
  <2>2. Tail(task[a].todo) \in Todos
    BY <1>1, <1>4, TodoShrinks
  <2> QED BY <2>1, <2>2 DEF TasksTyped, TaskSet
<1> QED BY <1>3, <1>4

-----------------------------------------------------------------------------
LEMMA InitInv == Init => IInv
<1> SUFFICES ASSUME Init PROVE IInv
  OBVIOUS
<1>1. RowsTyped
  BY AppNamesAssumption DEF Init, RowsTyped, Rows, IStates, Places, NoRow, HasRow
<1>2. request \in [Requests -> RequestSet] /\ RequestsKnow
  BY DEF Init, RequestSet, RequestsKnow, Idle, Steps, Places
<1>3. TasksTyped
  BY DEF Init, TasksTyped, TaskSet, NoTask, IStates, Places
<1>4. Owned
  BY AppNamesAssumption DEF Init, Owned, WithRow, NoRow, HasRow
<1>5. TasksHaveRows
  BY DEF Init, TasksHaveRows, NoTask
<1>6. /\ dns \in [Locations -> {"none", "ours", "foreign"}]
      /\ commands \in 0 .. MaxCommands
      /\ restarts \in 0 .. MaxRestarts
  BY AppNamesAssumption DEF Init
<1> QED BY <1>1, <1>2, <1>3, <1>4, <1>5, <1>6 DEF IInv

(* Counting a request keeps to the bound. *)
LEMMA CountKeeps ==
    ASSUME commands \in 0 .. MaxCommands, commands < MaxCommands, commands' = commands + 1
    PROVE  commands' \in 0 .. MaxCommands
BY AppNamesAssumption

-----------------------------------------------------------------------------
(* An app comes with a row, ports that were free and a mailbox of a name   *)
(* that nobody had.                                                        *)
LEMMA InstallKeeps ==
    ASSUME IInv, NEW r \in Requests, NEW a \in Apps, NEW l \in Locations,
           NEW P \in SUBSET Ports, Install(r, a, l, P)
    PROVE  IInv'
<1> DEFINE n == MailName(a, l)
<1>1. n \in Locations /\ mailbox[n] = None
  BY MailNameIsName DEF Install
<1> HIDE DEF n
<1>2. /\ row' = [row EXCEPT ![a] = [istate |-> PENDING_INSTALL, location |-> l,
                                   oldLocation |-> None]]
      /\ row[a] = NoRow
      /\ mailbox' = [mailbox EXCEPT ![n] = a]
      /\ ports' = PortsAfter(a, P)
      /\ UNCHANGED <<dns, task, restarts>>
  BY DEF Install, n
<1>3. RowsTyped' /\ WithRow' = WithRow \cup {a}
  <2>1. [istate |-> PENDING_INSTALL, location |-> l, oldLocation |-> None] \in Rows
    BY DEF Rows, IStates, Places, PendingStates
  <2>2. row' \in [Apps -> Rows]
    BY <1>2, <2>1 DEF IInv, RowsTyped
  <2>3. \A b \in Apps : HasRow(b)' <=> HasRow(b) \/ b = a
    BY <1>2 DEF IInv, RowsTyped, HasRow, PENDING_INSTALL
  <2>4. \A b \in Apps : HasRow(b)' <=> row'[b].location # None
    BY <1>2, <2>3, AppNamesAssumption DEF IInv, RowsTyped
  <2> QED BY <2>2, <2>3, <2>4 DEF RowsTyped, WithRow
<1>4. a \notin WithRow /\ None \notin WithRow
  BY <1>2, AppNamesAssumption DEF WithRow, HasRow, NoRow
<1>5. Owned'
  <2>1. mailbox' \in [Locations -> WithRow' \cup {None}]
    BY <1>1, <1>2, <1>3 DEF IInv, Owned
  <2>2. ports' \in [Ports -> WithRow' \cup {None}]
    BY <1>2, <1>3 DEF IInv, Owned, PortsAfter
  <2>3. \A m \in Locations : mailbox'[m] = IF m = n THEN a ELSE mailbox[m]
    BY <1>1, <1>2 DEF IInv, Owned
  <2>4. \A m \in Locations : mailbox[m] # a
    BY <1>4, AppNamesAssumption DEF IInv, Owned
  <2>5. \A m, k \in Locations : mailbox'[m] = mailbox'[k] /\ mailbox'[m] # None => m = k
    BY <2>3, <2>4 DEF IInv, Owned
  <2>6. \A b \in WithRow' : \E m \in Locations : mailbox'[m] = b
    BY <1>1, <1>3, <1>4, <2>3 DEF IInv, Owned
  <2> QED BY <2>1, <2>2, <2>5, <2>6 DEF Owned
<1>7. request' \in [Requests -> RequestSet] /\ RequestsKnow'
  <2>1. request' = [request EXCEPT ![r] = [Idle EXCEPT !.step = "accepted", !.app = a,
                                                       !.cmd = PENDING_INSTALL]]
    BY DEF Install
  <2> QED BY <2>1 DEF IInv, RequestSet, RequestsKnow, Idle, Steps, Places, PendingStates
<1>8. TasksTyped' /\ TasksHaveRows'
  BY <1>2, <1>3 DEF IInv, TasksTyped, TasksHaveRows, WithRow
<1>9. commands' \in 0 .. MaxCommands
  BY CountKeeps DEF IInv, Install
<1> QED BY <1>2, <1>3, <1>5, <1>7, <1>8, <1>9 DEF IInv

(* A request reads where its app is. *)
LEMMA ReadAppKeeps ==
    ASSUME IInv, NEW r \in Requests, NEW a \in Apps,
           NEW c \in Commands \ {PENDING_INSTALL, PENDING_UNINSTALL},
           NEW l \in Places, NEW P \in {None} \cup SUBSET Ports, ReadApp(r, a, c, l, P)
    PROVE  IInv'
<1>1. c \in Changes /\ c \in PendingStates
  BY AppNamesAssumption DEF PendingStates, Changes
<1>2. row[a].location \in Locations
  BY DEF IInv, RowsTyped, ReadApp, Rows, Places
<1>3. UNCHANGED <<dbVars, dns, task, restarts>>
  BY DEF ReadApp
<1>4. request' \in [Requests -> RequestSet] /\ RequestsKnow'
  <2> DEFINE new == [step |-> IF c = PENDING_CONFIGURE THEN "rename" ELSE "set",
                     cmd |-> c, app |-> a, location |-> l, ports |-> P,
                     read |-> row[a].location]
  <2>1. request' = [request EXCEPT ![r] = new]
    BY DEF ReadApp
  <2>2. new \in RequestSet
    BY <1>1, <1>2 DEF RequestSet, Steps, Places
  <2>3. new.app \in Apps /\ new.read \in Locations /\ new.cmd \in Changes
    BY <1>1, <1>2
  <2> HIDE DEF new
  <2> QED BY <2>1, <2>2, <2>3 DEF IInv, RequestsKnow
<1>5. commands' \in 0 .. MaxCommands
  BY CountKeeps DEF IInv, ReadApp
<1>6. RowsTyped' /\ Owned' /\ TasksTyped' /\ TasksHaveRows'
  BY <1>3 DEF IInv, dbVars, RowsTyped, Owned, WithRow, HasRow, TasksTyped, TasksHaveRows
<1> QED BY <1>3, <1>4, <1>5, <1>6 DEF IInv

(* An answer says nothing but how far the request is. *)
LEMMA AnswerKeeps ==
    ASSUME IInv, NEW r \in Requests, request[r].step # "idle",
           NEW step \in Steps \ {"idle", "rename"}, Answer(r, step),
           step = "set" => request[r].step = "rename"
    PROVE  request' \in [Requests -> RequestSet] /\ RequestsKnow'
BY DEF IInv, Answer, RequestSet, RequestsKnow, Steps

(* A mailbox that is renamed keeps its owner, and takes a name nobody had. *)
LEMMA RenameMailboxKeeps ==
    ASSUME IInv, NEW r \in Requests, RenameMailbox(r)
    PROVE  IInv'
<1> DEFINE q == request[r]
           old == MailName(q.app, q.read)
           new == IF q.location = None THEN old ELSE MailName(q.app, q.location)
<1>1. q.step = "rename" /\ UNCHANGED <<row, ports, dns, task, commands, restarts>>
  BY DEF RenameMailbox
<1>2. q.app \in Apps /\ q.read \in Locations /\ q.location \in Places
  BY <1>1 DEF IInv, RequestsKnow, RequestSet
<1>3. old \in Locations /\ new \in Locations
  BY <1>2, MailNameIsName DEF Places
<1>4. \E step \in {"set", "bad state", "conflict"} : Answer(r, step)
  BY DEF RenameMailbox
<1>5. \/ UNCHANGED mailbox
      \/ /\ old # new /\ mailbox[old] # None /\ mailbox[new] = None
         /\ mailbox' = [mailbox EXCEPT ![new] = mailbox[old], ![old] = None]
  BY DEF RenameMailbox
<1> HIDE DEF old, new
<1>6. request' \in [Requests -> RequestSet] /\ RequestsKnow'
  BY <1>1, <1>4, AnswerKeeps DEF Steps
<1>7. WithRow' = WithRow
  BY <1>1 DEF WithRow, HasRow
<1>8. Owned'
  <2>1. CASE UNCHANGED mailbox
    BY <1>1, <1>7, <2>1 DEF IInv, Owned
  <2>2. CASE /\ old # new /\ mailbox[old] # None /\ mailbox[new] = None
             /\ mailbox' = [mailbox EXCEPT ![new] = mailbox[old], ![old] = None]
    <3>1. \A m \in Locations : mailbox'[m] = IF m = old THEN None
                                             ELSE IF m = new THEN mailbox[old] ELSE mailbox[m]
      BY <1>3, <2>2 DEF IInv, Owned
    <3>2. mailbox' \in [Locations -> WithRow' \cup {None}]
      BY <1>3, <1>7, <2>2 DEF IInv, Owned
    <3>3. \A m, k \in Locations : mailbox'[m] = mailbox'[k] /\ mailbox'[m] # None => m = k
      BY <1>3, <2>2, <3>1 DEF IInv, Owned
    <3>4. \A a \in WithRow' : \E m \in Locations : mailbox'[m] = a
      <4> SUFFICES ASSUME NEW a \in WithRow PROVE \E m \in Locations : mailbox'[m] = a
        BY <1>7
      <4>1. PICK m \in Locations : mailbox[m] = a
        BY DEF IInv, Owned
      <4>2. a # None
        BY AppNamesAssumption DEF WithRow
      <4>3. CASE m = old
        BY <1>3, <2>2, <3>1, <4>1, <4>3
      <4>4. CASE m # old
        BY <2>2, <3>1, <4>1, <4>2, <4>4
      <4> QED BY <4>3, <4>4
    <3> QED BY <1>1, <1>7, <3>2, <3>3, <3>4 DEF IInv, Owned
  <2> QED BY <1>5, <2>1, <2>2
<1>9. RowsTyped' /\ TasksTyped' /\ TasksHaveRows'
  BY <1>1 DEF IInv, RowsTyped, HasRow, TasksTyped, TasksHaveRows
<1> QED BY <1>1, <1>6, <1>8, <1>9 DEF IInv

(* The database takes a command, or refuses it: whoever has a row has it   *)
(* still, and the ports that change hands were free.                       *)
LEMMA SetCommandKeeps ==
    ASSUME IInv, NEW r \in Requests, SetCommand(r)
    PROVE  IInv'
<1> DEFINE q == request[r]
           a == q.app
<1>1. q.step = "set" /\ UNCHANGED <<dns, task, commands, restarts>> /\ UNCHANGED mailbox
  BY DEF SetCommand, dbVars
<1>2. a \in Apps /\ q.read \in Locations /\ q.cmd \in Changes /\ q.location \in Places
  BY <1>1 DEF IInv, RequestsKnow, RequestSet
<1>3. \E step \in {"accepted", "bad state", "conflict", "not found"} : Answer(r, step)
  BY DEF SetCommand
<1>4. /\ ports' \in {ports, PortsAfter(a, q.ports)}
      /\ ports' # ports => HasRow(a)
  BY DEF SetCommand, dbVars
<1>5. \/ UNCHANGED row
      \/ /\ HasRow(a)
         /\ row' = [row EXCEPT ![a] =
                      [istate |-> q.cmd,
                       location |-> IF q.location # None THEN q.location ELSE row[a].location,
                       oldLocation |-> q.read]]
  BY DEF SetCommand, dbVars
<1> HIDE DEF q
<1>6. request' \in [Requests -> RequestSet] /\ RequestsKnow'
  BY <1>1, <1>3, AnswerKeeps DEF Steps, q
<1>7. RowsTyped' /\ WithRow' = WithRow /\ \A b \in Apps : HasRow(b)' <=> HasRow(b)
  <2>1. CASE UNCHANGED row
    BY <2>1 DEF IInv, RowsTyped, WithRow, HasRow
  <2> DEFINE new == [istate |-> q.cmd,
                     location |-> IF q.location # None THEN q.location ELSE row[a].location,
                     oldLocation |-> q.read]
  <2>2. CASE HasRow(a) /\ row' = [row EXCEPT ![a] = new]
    <3>1. HasRow(a) /\ row' = [row EXCEPT ![a] = new]
      BY <2>2
    <3>2. new \in Rows /\ new.location # None /\ new.istate \notin {"none", "gone"}
      BY <1>2, <3>1 DEF IInv, RowsTyped, Rows, IStates, PendingStates, Changes, Places,
         PENDING_CONFIGURE, PENDING_UPDATE, PENDING_FORCE_UPDATE, PENDING_RESTORE
    <3> HIDE DEF new
    <3>3. row' \in [Apps -> Rows]
      BY <3>1, <3>2 DEF IInv, RowsTyped
    <3>4. \A b \in Apps : HasRow(b)' <=> HasRow(b)
      BY <1>2, <3>1, <3>2 DEF IInv, RowsTyped, HasRow
    <3>5. \A b \in Apps : HasRow(b)' <=> row'[b].location # None
      BY <1>2, <3>1, <3>2, <3>4 DEF IInv, RowsTyped
    <3> QED BY <3>3, <3>4, <3>5 DEF RowsTyped, WithRow
  <2> QED BY <1>5, <2>1, <2>2
<1>8. Owned'
  <2>1. a \in WithRow \/ ports' = ports
    BY <1>2, <1>4 DEF WithRow
  <2>2. ports' \in [Ports -> WithRow \cup {None}]
    BY <1>4, <2>1 DEF IInv, Owned, PortsAfter
  <2> QED BY <1>1, <1>7, <2>2 DEF IInv, Owned
<1>9. TasksTyped' /\ TasksHaveRows'
  BY <1>1, <1>7 DEF IInv, TasksTyped, TasksHaveRows
<1> QED BY <1>1, <1>6, <1>7, <1>8, <1>9 DEF IInv

(* Only the task goes. *)
LEMMA StopForUninstallKeeps ==
    ASSUME IInv, NEW r \in Requests, NEW a \in Apps, StopForUninstall(r, a)
    PROVE  IInv'
<1>1. /\ UNCHANGED <<row, ports, mailbox, dns, restarts>>
      /\ task' = [task EXCEPT ![a] = NoTask]
      /\ request' = [request EXCEPT ![r] = [Idle EXCEPT !.step = "mark", !.app = a,
                                                       !.cmd = PENDING_UNINSTALL]]
  BY DEF StopForUninstall, dbVars
<1>2. RowsTyped' /\ Owned'
  BY <1>1 DEF IInv, RowsTyped, Owned, WithRow, HasRow
<1>3. TasksTyped' /\ TasksHaveRows'
  BY <1>1 DEF IInv, TasksTyped, TaskSet, TasksHaveRows, HasRow, NoTask, IStates, Places
<1>4. request' \in [Requests -> RequestSet] /\ RequestsKnow'
  BY <1>1 DEF IInv, RequestSet, RequestsKnow, Idle, Steps, Places, PendingStates
<1>5. commands' \in 0 .. MaxCommands
  BY CountKeeps DEF IInv, StopForUninstall
<1> QED BY <1>1, <1>2, <1>3, <1>4, <1>5 DEF IInv

(* A new state of an app that has a row takes nothing from anybody. *)
LEMMA StateKeeps ==
    ASSUME RowsTyped, Owned, NEW a \in Apps, HasRow(a),
           NEW s \in PendingStates \cup {"installed", "error"},
           row' = [row EXCEPT ![a].istate = s], UNCHANGED <<ports, mailbox>>
    PROVE  /\ RowsTyped' /\ Owned'
           /\ \A b \in Apps : HasRow(b)' <=> HasRow(b)
<1>1. s \in IStates /\ s \notin {"none", "gone"}
  BY DEF IStates, PendingStates, PENDING_INSTALL, PENDING_CONFIGURE, PENDING_UPDATE,
     PENDING_FORCE_UPDATE, PENDING_RESTORE, PENDING_UNINSTALL
<1>2. row' \in [Apps -> Rows] /\ \A b \in Apps : row'[b].location = row[b].location
  BY <1>1 DEF RowsTyped, Rows
<1>3. \A b \in Apps : HasRow(b)' <=> HasRow(b)
  BY <1>1 DEF RowsTyped, Rows, HasRow
<1>4. WithRow' = WithRow
  BY <1>3 DEF WithRow
<1> QED BY <1>2, <1>3, <1>4 DEF RowsTyped, Owned

LEMMA MarkUninstallKeeps ==
    ASSUME IInv, NEW r \in Requests, MarkUninstall(r)
    PROVE  IInv'
<1> DEFINE a == request[r].app
<1>1. a \in Apps /\ request[r].step = "mark"
  BY DEF MarkUninstall, IInv, RequestsKnow
<1>2. UNCHANGED <<ports, mailbox, dns, task, commands, restarts>>
  BY DEF MarkUninstall
<1>3. \/ HasRow(a) /\ row' = [row EXCEPT ![a].istate = PENDING_UNINSTALL]
      \/ UNCHANGED row
  BY DEF MarkUninstall
<1>4. \E step \in {"accepted", "not found"} : Answer(r, step)
  BY DEF MarkUninstall
<1>5. request' \in [Requests -> RequestSet] /\ RequestsKnow'
  BY <1>1, <1>4, AnswerKeeps DEF Steps
<1>6. RowsTyped' /\ Owned' /\ \A b \in Apps : HasRow(b)' <=> HasRow(b)
  <2>1. CASE HasRow(a) /\ row' = [row EXCEPT ![a].istate = PENDING_UNINSTALL]
    BY <1>1, <1>2, <2>1, StateKeeps DEF IInv, PendingStates
  <2>2. CASE UNCHANGED row
    BY <1>2, <2>2 DEF IInv, RowsTyped, Owned, WithRow, HasRow
  <2> QED BY <1>3, <2>1, <2>2
<1>7. TasksTyped' /\ TasksHaveRows'
  BY <1>2, <1>6 DEF IInv, TasksTyped, TasksHaveRows
<1> QED BY <1>2, <1>5, <1>6, <1>7 DEF IInv

LEMMA CallbackKeeps ==
    ASSUME IInv, NEW r \in Requests, Callback(r)
    PROVE  IInv'
<1>1. /\ UNCHANGED <<row, ports, mailbox, dns, commands, restarts>>
      /\ request' = [request EXCEPT ![r] = Idle]
      /\ task' = task \/ task' = [task EXCEPT ![request[r].app] = Due]
  BY DEF Callback, dbVars
<1>2. RowsTyped' /\ Owned'
  BY <1>1 DEF IInv, RowsTyped, Owned, WithRow, HasRow
<1>3. TasksTyped' /\ TasksHaveRows'
  BY <1>1 DEF IInv, TasksTyped, TaskSet, TasksHaveRows, HasRow, Due, NoTask, IStates, Places
<1>4. request' \in [Requests -> RequestSet] /\ RequestsKnow'
  BY <1>1 DEF IInv, RequestSet, RequestsKnow, Idle, Steps, Places
<1> QED BY <1>1, <1>2, <1>3, <1>4 DEF IInv

(* A task starts at work of its program, on an app that has a row. *)
LEMMA LoadKeeps ==
    ASSUME IInv, NEW a \in Apps, Load(a)
    PROVE  IInv'
<1> DEFINE todo == Program(row[a])
           new == IF todo = <<>> THEN NoTask
                  ELSE [state |-> "working", cmd |-> row[a].istate, location |-> row[a].location,
                        oldLocation |-> row[a].oldLocation, todo |-> todo]
<1>1. task' = [task EXCEPT ![a] = new] /\ UNCHANGED <<dbVars, dns, request, commands, restarts>>
  BY DEF Load
<1>2. todo \in Todos \cup {<<>>} /\ (todo # <<>> => HasRow(a))
  <2>1. row[a].istate \in PendingStates => HasRow(a)
    BY DEF HasRow, PendingStates, PENDING_INSTALL, PENDING_CONFIGURE, PENDING_UPDATE,
       PENDING_FORCE_UPDATE, PENDING_RESTORE, PENDING_UNINSTALL
  <2>2. CASE row[a].istate \in PendingStates
    <3>1. \/ row[a].istate \in {PENDING_INSTALL, PENDING_RESTORE} /\ todo = <<"register", "done">>
          \/ row[a].istate = PENDING_CONFIGURE /\ todo = Reconfigure(row[a])
          \/ row[a].istate \in {PENDING_UPDATE, PENDING_FORCE_UPDATE} /\ todo = <<"done">>
          \/ row[a].istate = PENDING_UNINSTALL /\ todo = <<"unregister", "remove">>
      BY <2>2 DEF Program, PendingStates, PENDING_INSTALL, PENDING_CONFIGURE, PENDING_UPDATE,
         PENDING_FORCE_UPDATE, PENDING_RESTORE, PENDING_UNINSTALL
    <3>2. todo \in Todos
      BY <3>1 DEF Reconfigure, Todos
    <3> QED BY <2>1, <2>2, <3>2
  <2>3. CASE row[a].istate \notin PendingStates
    <3>1. todo = <<>>
      BY <2>3 DEF Program, PendingStates
    <3> QED BY <3>1
  <2> QED BY <2>2, <2>3
<1> HIDE DEF todo
<1>3. new = NoTask \/ new.todo \in Todos
  BY <1>2
<1>4. new \in TaskSet
  <2>1. row[a].istate \in IStates /\ row[a].location \in Places /\ row[a].oldLocation \in Places
    BY DEF IInv, RowsTyped, Rows
  <2> QED BY <1>2, <2>1 DEF TaskSet, NoTask, IStates, Places
<1>5. new.todo # <<>> => HasRow(a)
  BY <1>2 DEF NoTask
<1> HIDE DEF new
<1>6. TasksTyped'
  BY <1>1, <1>3, <1>4 DEF IInv, TasksTyped, NoTask, Due
<1>7. TasksHaveRows'
  BY <1>1, <1>5 DEF IInv, TasksTyped, TasksHaveRows, HasRow, dbVars
<1>8. RowsTyped' /\ Owned' /\ RequestsKnow'
  BY <1>1 DEF IInv, RowsTyped, Owned, WithRow, HasRow, dbVars, RequestsKnow
<1> QED BY <1>1, <1>6, <1>7, <1>8 DEF IInv

(* Making a record changes DNS and the task only. *)
LEMMA RegisterSubdomainKeeps ==
    ASSUME IInv, NEW a \in Apps, RegisterSubdomain(a)
    PROVE  IInv'
<1>1. UNCHANGED <<row, ports, mailbox, request, commands, restarts>> /\ task[a].todo # <<>>
  BY DEF RegisterSubdomain, dbVars, NextIs
<1>2. \/ task' = [task EXCEPT ![a].todo = <<"already exists">>] /\ UNCHANGED dns
      \/ dns' = [dns EXCEPT ![task[a].location] = "ours"] /\ Advance(a)
  BY DEF RegisterSubdomain
<1>3. dns' \in [Locations -> {"none", "ours", "foreign"}]
  BY <1>2 DEF IInv
<1>4. TasksTyped' /\ \A b \in Apps : task'[b].todo # <<>> => task[b].todo # <<>>
  <2>1. CASE task' = [task EXCEPT ![a].todo = <<"already exists">>]
    <3>1. <<"already exists">> \in Todos
      BY DEF Todos
    <3> QED BY <1>1, <2>1, <3>1 DEF IInv, TasksTyped, TaskSet
  <2>2. CASE Advance(a)
    BY <1>1, <2>2, AdvanceTyped DEF IInv
  <2> QED BY <1>2, <2>1, <2>2
<1>5. RowsTyped' /\ Owned' /\ RequestsKnow' /\ TasksHaveRows'
  BY <1>1, <1>4 DEF IInv, RowsTyped, Owned, WithRow, HasRow, RequestsKnow, TasksHaveRows
<1> QED BY <1>1, <1>3, <1>4, <1>5 DEF IInv

(* So does removing one. *)
LEMMA UnregisterSubdomainKeeps ==
    ASSUME IInv, NEW a \in Apps, UnregisterSubdomain(a)
    PROVE  IInv'
<1>1. /\ UNCHANGED <<row, ports, mailbox, request, commands, restarts>>
      /\ task[a].todo # <<>> /\ Advance(a)
  BY DEF UnregisterSubdomain, dbVars, NextIs
<1>2. dns' \in [Locations -> {"none", "ours", "foreign"}]
  <2>1. PICK l : dns' = [dns EXCEPT ![l] = IF dns[l] = "ours" /\ (CustomDomain \/ l # Bare)
                                           THEN "none" ELSE dns[l]]
    BY DEF UnregisterSubdomain
  <2> QED BY <2>1 DEF IInv
<1>3. TasksTyped' /\ \A b \in Apps : task'[b].todo # <<>> => task[b].todo # <<>>
  BY <1>1, AdvanceTyped DEF IInv
<1>4. RowsTyped' /\ Owned' /\ RequestsKnow' /\ TasksHaveRows'
  BY <1>1, <1>3 DEF IInv, RowsTyped, Owned, WithRow, HasRow, RequestsKnow, TasksHaveRows
<1> QED BY <1>1, <1>2, <1>3, <1>4 DEF IInv

LEMMA DoneKeeps ==
    ASSUME IInv, NEW a \in Apps, Done(a)
    PROVE  IInv'
<1>1. /\ UNCHANGED <<ports, mailbox, dns, request, commands, restarts>>
      /\ task[a].todo # <<>> /\ Advance(a)
      /\ row' = [row EXCEPT ![a].istate = "installed"]
  BY DEF Done, NextIs
<1>2. HasRow(a)
  BY <1>1 DEF IInv, TasksHaveRows
<1>3. RowsTyped' /\ Owned' /\ \A b \in Apps : HasRow(b)' <=> HasRow(b)
  BY <1>1, <1>2, StateKeeps DEF IInv
<1>4. TasksTyped' /\ \A b \in Apps : task'[b].todo # <<>> => task[b].todo # <<>>
  BY <1>1, AdvanceTyped DEF IInv
<1>5. RequestsKnow' /\ TasksHaveRows'
  BY <1>1, <1>3, <1>4 DEF IInv, RequestsKnow, TasksHaveRows
<1> QED BY <1>1, <1>3, <1>4, <1>5 DEF IInv

(* A task that fails is over, and its app is in error. *)
LEMMA FailKeeps ==
    ASSUME IInv, NEW a \in Apps, Fail(a)
    PROVE  IInv'
<1>1. /\ UNCHANGED <<ports, mailbox, dns, request, commands, restarts>>
      /\ task[a].todo # <<>> /\ task' = [task EXCEPT ![a] = NoTask]
      /\ row' = [row EXCEPT ![a].istate = "error"]
  BY DEF Fail
<1>2. HasRow(a)
  BY <1>1 DEF IInv, TasksHaveRows
<1>3. RowsTyped' /\ Owned' /\ \A b \in Apps : HasRow(b)' <=> HasRow(b)
  BY <1>1, <1>2, StateKeeps DEF IInv
<1>4. TasksTyped' /\ \A b \in Apps : task'[b].todo # <<>> => task[b].todo # <<>>
  BY <1>1 DEF IInv, TasksTyped, TaskSet, NoTask, IStates, Places
<1>5. RequestsKnow' /\ TasksHaveRows'
  BY <1>1, <1>3, <1>4 DEF IInv, RequestsKnow, TasksHaveRows
<1> QED BY <1>1, <1>3, <1>4, <1>5 DEF IInv

(* An app that goes takes what it owned and its task with it. *)
LEMMA RemoveRowKeeps ==
    ASSUME IInv, NEW a \in Apps, RemoveRow(a)
    PROVE  IInv'
<1>1. /\ UNCHANGED <<dns, request, commands, restarts>>
      /\ NextIs(a, "remove") /\ Advance(a)
      /\ row' = [row EXCEPT ![a] = Gone]
      /\ ports' = PortsAfter(a, {})
      /\ mailbox' = [n \in Locations |-> IF mailbox[n] = a THEN None ELSE mailbox[n]]
  BY DEF RemoveRow
<1>2. RowsTyped' /\ WithRow' = WithRow \ {a} /\ \A b \in Apps : HasRow(b)' <=> HasRow(b) /\ b # a
  <2>1. Gone \in Rows
    BY DEF Gone, NoRow, Rows, IStates, Places
  <2>2. Gone.istate = "gone" /\ Gone.location = None
    BY DEF Gone, NoRow
  <2> HIDE DEF Gone
  <2>3. row' \in [Apps -> Rows]
    BY <1>1, <2>1 DEF IInv, RowsTyped
  <2>4. \A b \in Apps : HasRow(b)' <=> HasRow(b) /\ b # a
    BY <1>1, <2>2 DEF IInv, RowsTyped, HasRow
  <2>5. \A b \in Apps : HasRow(b)' <=> row'[b].location # None
    BY <1>1, <2>2, <2>4 DEF IInv, RowsTyped
  <2> QED BY <2>3, <2>4, <2>5 DEF RowsTyped, WithRow
<1>3. a \in WithRow /\ None \notin WithRow
  BY <1>1, AppNamesAssumption DEF WithRow, NextIs, IInv, TasksHaveRows
<1>4. Owned'
  <2>1. mailbox' \in [Locations -> WithRow' \cup {None}]
    BY <1>1, <1>2 DEF IInv, Owned
  <2>2. ports' \in [Ports -> WithRow' \cup {None}]
    BY <1>1, <1>2 DEF IInv, Owned, PortsAfter
  <2>3. \A n, m \in Locations : mailbox'[n] = mailbox'[m] /\ mailbox'[n] # None => n = m
    BY <1>1 DEF IInv, Owned
  <2>4. \A b \in WithRow' : \E n \in Locations : mailbox'[n] = b
    BY <1>1, <1>2 DEF IInv, Owned
  <2> QED BY <2>1, <2>2, <2>3, <2>4 DEF Owned
<1>5. TasksTyped' /\ \A b \in Apps : task'[b].todo # <<>> => task[b].todo # <<>>
  BY <1>1, AdvanceTyped DEF IInv, NextIs
<1>6. task'[a].todo = <<>>
  <2>1. task[a].todo \in Todos /\ Head(task[a].todo) = "remove"
    BY <1>1 DEF NextIs, IInv, TasksTyped, NoTask, Due
  <2>2. /\ Head(<<"unregister old", "register", "done">>) = "unregister old"
        /\ Head(<<"register", "done">>) = "register"
        /\ Head(<<"done">>) = "done"
        /\ Head(<<"already exists">>) = "already exists"
        /\ Head(<<"unregister", "remove">>) = "unregister"
        /\ Len(<<"remove">>) = 1
    OBVIOUS
  <2>3. task[a].todo = <<"remove">>
    BY <2>1, <2>2 DEF Todos
  <2>4. task' = [task EXCEPT ![a] = NoTask]
    BY <1>1, <2>2, <2>3 DEF Advance
  <2> QED BY <2>4 DEF IInv, TasksTyped, NoTask
<1>7. TasksHaveRows'
  BY <1>2, <1>5, <1>6 DEF IInv, TasksHaveRows
<1> QED BY <1>1, <1>2, <1>4, <1>5, <1>7 DEF IInv, RequestsKnow

(* A restart forgets what was at work; whoever has a row has it still. *)
LEMMA RestartKeeps ==
    ASSUME IInv, NEW infra \in {"no", PENDING_CONFIGURE, PENDING_RESTORE}, Restart(infra)
    PROVE  IInv'
<1>1. /\ UNCHANGED <<ports, mailbox, dns, commands>>
      /\ restarts < MaxRestarts /\ restarts' = restarts + 1
      /\ request' = [r \in Requests |-> Idle]
      /\ row' = [a \in Apps |-> IF infra \in Commands /\ HasRow(a) /\ Allowed(a, infra)
                                THEN [row[a] EXCEPT !.istate = infra, !.oldLocation = None]
                                ELSE row[a]]
      /\ task' = [a \in Apps |-> IF row'[a].istate \in PendingStates THEN Due ELSE NoTask]
  BY DEF Restart
<1>2. restarts' \in 0 .. MaxRestarts
  <2>1. restarts \in 0 .. MaxRestarts /\ restarts < MaxRestarts /\ restarts' = restarts + 1
    BY <1>1 DEF IInv
  <2>2. MaxRestarts \in Nat
    BY AppNamesAssumption
  <2> QED BY <2>1, <2>2
<1>3. row' \in [Apps -> Rows]
  <2> SUFFICES ASSUME NEW a \in Apps PROVE row'[a] \in Rows
    BY <1>1
  <2>1. row[a] \in Rows
    BY DEF IInv, RowsTyped
  <2>2. CASE infra \in Commands
    <3>1. infra \in IStates
      BY <2>2, AppNamesAssumption DEF IStates
    <3>2. [row[a] EXCEPT !.istate = infra, !.oldLocation = None] \in Rows
      BY <2>1, <3>1 DEF Rows, Places
    <3> QED BY <1>1, <2>1, <3>2
  <2> QED BY <1>1, <2>1, <2>2
<1>4. \A a \in Apps : row'[a].location = row[a].location /\ (HasRow(a)' <=> HasRow(a))
  <2> TAKE a \in Apps
  <2>1. row[a] \in Rows
    BY DEF IInv, RowsTyped
  <2>2. CASE infra \in Commands /\ HasRow(a) /\ Allowed(a, infra)
    <3>1. row'[a] = [row[a] EXCEPT !.istate = infra, !.oldLocation = None]
      BY <1>1, <2>2
    <3>2. row'[a].istate = infra /\ row'[a].location = row[a].location
      BY <2>1, <3>1 DEF Rows
    <3>3. infra \notin {"none", "gone"}
      BY <2>2, AppNamesAssumption DEF PendingStates, PENDING_INSTALL, PENDING_CONFIGURE,
         PENDING_UPDATE, PENDING_FORCE_UPDATE, PENDING_RESTORE, PENDING_UNINSTALL
    <3> QED BY <2>2, <3>2, <3>3 DEF HasRow
  <2>3. CASE ~(infra \in Commands /\ HasRow(a) /\ Allowed(a, infra))
    <3>1. row'[a] = row[a]
      BY <1>1, <2>3
    <3> QED BY <3>1 DEF HasRow
  <2> QED BY <2>2, <2>3
<1>5. RowsTyped' /\ WithRow' = WithRow
  BY <1>3, <1>4 DEF IInv, RowsTyped, WithRow
<1>6. Owned'
  BY <1>1, <1>5 DEF IInv, Owned
<1>7. TasksTyped' /\ TasksHaveRows'
  <2>1. NoTask \in TaskSet /\ Due \in TaskSet
    BY DEF TaskSet, NoTask, Due, IStates, Places
  <2>2. NoTask.todo = <<>> /\ Due.todo = <<>>
    BY DEF NoTask, Due
  <2> QED BY <1>1, <2>1, <2>2 DEF TasksTyped, TasksHaveRows
<1>8. request' \in [Requests -> RequestSet] /\ RequestsKnow'
  BY <1>1 DEF RequestSet, RequestsKnow, Idle, Steps, Places
<1> QED BY <1>1, <1>2, <1>5, <1>6, <1>7, <1>8 DEF IInv

-----------------------------------------------------------------------------
(* Every step keeps the invariant. *)
LEMMA NextKeeps ==
    ASSUME IInv, [Next]_vars
    PROVE  IInv'
<1>1. CASE UNCHANGED vars
  <2>1. UNCHANGED <<row, ports, mailbox, dns, request, task, commands, restarts>>
    BY <1>1 DEF vars, dbVars
  <2> QED BY <2>1 DEF IInv, RowsTyped, Owned, WithRow, HasRow, TasksTyped, RequestsKnow,
         TasksHaveRows
<1>2. ASSUME NEW r \in Requests, NEW a \in Apps, NEW P \in SUBSET Ports, NEW l \in Locations,
             Install(r, a, l, P)
      PROVE  IInv'
  BY <1>2, InstallKeeps
<1>3. ASSUME NEW r \in Requests, NEW a \in Apps,
             NEW c \in Commands \ {PENDING_INSTALL, PENDING_UNINSTALL},
             NEW l \in Locations \cup {None}, NEW P \in {None} \cup SUBSET Ports,
             ReadApp(r, a, c, l, P)
      PROVE  IInv'
  BY <1>3, ReadAppKeeps DEF Places
<1>4. ASSUME NEW r \in Requests,
             RenameMailbox(r) \/ SetCommand(r) \/ MarkUninstall(r) \/ Callback(r)
      PROVE  IInv'
  BY <1>4, RenameMailboxKeeps, SetCommandKeeps, MarkUninstallKeeps, CallbackKeeps
<1>5. ASSUME NEW r \in Requests, NEW a \in Apps, StopForUninstall(r, a)
      PROVE  IInv'
  BY <1>5, StopForUninstallKeeps
<1>6. ASSUME NEW a \in Apps,
             \/ Load(a) \/ RegisterSubdomain(a) \/ UnregisterSubdomain(a)
             \/ Done(a) \/ RemoveRow(a) \/ Fail(a)
      PROVE  IInv'
  BY <1>6, LoadKeeps, RegisterSubdomainKeeps, UnregisterSubdomainKeeps, DoneKeeps,
     RemoveRowKeeps, FailKeeps
<1>7. ASSUME NEW infra \in {"no", PENDING_CONFIGURE, PENDING_RESTORE}, Restart(infra)
      PROVE  IInv'
  BY <1>7, RestartKeeps
<1> QED BY <1>1, <1>2, <1>3, <1>4, <1>5, <1>6, <1>7 DEF Next

(***************************************************************************)
(* The inductive invariant holds of every instance.                        *)
(***************************************************************************)
THEOREM Invariance == Spec => []IInv
BY InitInv, NextKeeps, PTL DEF Spec

(***************************************************************************)
(* Every variable holds a value the code can give it, for any apps, names, *)
(* ports and number of requests at once.                                   *)
(***************************************************************************)
THEOREM TypeCorrect == Spec => []TypeOK
<1>1. IInv => TypeOK
  <2> SUFFICES ASSUME IInv PROVE TypeOK
    OBVIOUS
  <2>1. mailbox \in [Locations -> Apps \cup {None}] /\ ports \in [Ports -> Apps \cup {None}]
    BY DEF IInv, Owned, WithRow
  <2> QED BY <2>1 DEF IInv, TypeOK, RowsTyped, Rows, IStates, Places, RequestSet, TasksTyped
<1> QED BY <1>1, Invariance, PTL

(***************************************************************************)
(* Whatever is installed, configured, updated, restored and uninstalled at *)
(* once, every app owns exactly one mailbox, and mailboxes and host ports  *)
(* belong to apps that exist.                                              *)
(***************************************************************************)
THEOREM MailboxesCorrect == Spec => []EveryAppHasItsMailbox
<1>1. IInv => EveryAppHasItsMailbox
  <2> SUFFICES ASSUME IInv PROVE EveryAppHasItsMailbox
    OBVIOUS
  <2>1. \A a \in Apps : HasRow(a) => \E n \in Locations : mailbox[n] = a
    BY DEF IInv, Owned, WithRow
  <2>2. \A n \in Locations : mailbox[n] # None => HasRow(mailbox[n])
    BY DEF IInv, Owned, WithRow
  <2>3. \A p \in Ports : ports[p] # None => HasRow(ports[p])
    BY DEF IInv, Owned, WithRow
  <2> QED BY <2>1, <2>2, <2>3 DEF IInv, Owned, EveryAppHasItsMailbox
<1> QED BY <1>1, Invariance, PTL

(***************************************************************************)
(* No task works on an app that was removed, whoever else is at work.      *)
(***************************************************************************)
THEOREM TasksCorrect == Spec => []TasksHaveRows
<1>1. IInv => TasksHaveRows
  BY DEF IInv
<1> QED BY <1>1, Invariance, PTL

(***************************************************************************)
(* The safety of Dns for any subdomains, texts and bounds: the TXT records *)
(* of the user stay in the zone whatever the box writes.                   *)
(*                                                                         *)
(* The box writes the TXT records it read turns before, in calls that may  *)
(* be lost or refused in between.  So the argument is about what each flow *)
(* carries: as long as a write of TXT records is to come, those of the     *)
(* user are in it or are left alone by it.                                 *)
(***************************************************************************)

DnsSteps == {"idle", "txt", "get", "del", "write", "put"}
AppStates == {"none", "pending_install", "pending_configure", "pending_uninstall", "installed", "error"}
RecordSet == Addresses \cup Texts \cup {Deleted}
Job == [key : Keys, values : Seq(RecordSet)]
FlowSet == [step : DnsSteps, ip : Ips, todo : Seq(Job), late : Seq(Seq(RecordSet)), apps : BOOLEAN,
            left : SUBSET Subdomains, ids : Seq(Nat), n : Nat]

\* The TXT records with ours in them: of a user with an SPF record, and of one without.
WithOurs(spf) == IF spf THEN <<BothSpf, TheirText>> ELSE <<TheirText, OurSpf>>

\* The TXT records as they are at any time: ours may be missing, or be there several times.
TextFits(txt, spf) ==
    /\ txt \in Seq(Texts)
    /\ IF spf
       THEN Len(txt) = 2 /\ txt[1] \in {TheirSpf, BothSpf} /\ txt[2] = TheirText
       ELSE Len(txt) >= 1 /\ txt[1] = TheirText /\ \A i \in 2..Len(txt) : txt[i] = OurSpf

Kind(k) == {Deleted} \cup (IF k = Txt THEN Texts ELSE Addresses)

KindFits(k, records) ==
    /\ records \in Seq(RecordSet) /\ Len(records) <= MaxRecords
    /\ \A i \in 1..Len(records) : records[i] \in Kind(k)

ZoneFits(spf) ==
    /\ zone \in [Keys -> Seq(RecordSet)]
    /\ \A k \in Keys : KindFits(k, zone[k])
    /\ TextFits(zone[Txt], spf)

\* What is to be written: all TXT records, or one address.
JobFits(job, spf, b) ==
    IF job.key = Txt
    THEN b # "none" => job.values = WithOurs(spf)
    ELSE Len(job.values) = 1 /\ job.values[1] \in Ips

\* Records are written one by one over those that were listed, from the first to the last;
\* of `there', the number there is, none of the TXT records goes.
PutFits(r, spf, b, there) ==
    /\ b = "records" /\ r.todo # <<>>
    /\ r.n \in 1..Len(Head(r.todo).values)
    /\ Head(r.todo).key = Txt =>
         /\ Len(r.ids) \in (IF spf THEN 2 ELSE 1)..there
         /\ \A i \in 1..Len(r.ids) : r.ids[i] = i

FlowFits(f, r, spf, b, there) ==
    /\ r.step \in {"get", "del"} => f \in Apps
    /\ r.step = "txt" => f \in System
    /\ r.apps => f = "refresh" /\ r.step \in {"write", "put"}
    /\ \A i \in 1..Len(r.todo) : JobFits(r.todo[i], spf, b)
    /\ b # "none" => \A i \in 1..Len(r.late) : r.late[i] = WithOurs(spf)
    /\ r.step = "put" => PutFits(r, spf, b, there)

FlowsFit(spf) ==
    /\ flow \in [Flows -> FlowSet]
    /\ \A f \in Flows : FlowFits(f, flow[f], spf, backend, Len(zone[Txt]))

\* An app has a location exactly while it exists, and a task only while it does.
RowsFit ==
    /\ app \in [Apps -> [state : AppStates, at : Subdomains \cup {NoLocation},
                         old : Subdomains \cup {NoLocation}]]
    /\ \A a \in Apps : app[a].at = NoLocation <=> app[a].state = "none"

DnsTasksFit ==
    \A a \in Apps :
        /\ flow[a].step # "idle" => app[a].state # "none"
        /\ flow[a].step = "del" => Leaves(a) # NoLocation

DnsFits(spf) ==
    /\ backend \in Replacing \cup {"records", "none"}
    /\ ip \in Ips
    /\ ZoneFits(spf)
    /\ RowsFit
    /\ FlowsFit(spf)
    /\ DnsTasksFit

DnsInv == \E spf \in BOOLEAN : DnsFits(spf)

-----------------------------------------------------------------------------
(* What the constants are. *)
LEMMA DnsNames ==
    /\ Txt \in Keys /\ Admin \in Keys /\ Subdomains \subseteq Keys
    /\ Admin # Txt /\ Admin \notin Subdomains /\ Txt \notin Subdomains /\ NoLocation \notin Subdomains
    /\ Ips \subseteq RecordSet /\ Texts \subseteq RecordSet /\ Ips \subseteq Addresses
    /\ System \subseteq Flows /\ "request" \in Flows /\ Apps \subseteq Flows
    /\ System \cap Apps = {} /\ "request" \notin Apps /\ "request" \notin System
    /\ MaxRecords \in Nat /\ MaxRecords > 1
    /\ "webadmin" \in System /\ "refresh" \in System
BY DnsAssumption DEF DnsAssumption, Keys, RecordSet, Addresses, System, Flows

(* The lists of TXT records that are written. *)
LEMMA OursTyped ==
    ASSUME NEW spf \in BOOLEAN
    PROVE  /\ WithOurs(spf) \in Seq(RecordSet)
           /\ Len(WithOurs(spf)) = 2
           /\ TextFits(WithOurs(spf), spf)
<1>1. {TheirText, OurSpf, BothSpf} \subseteq RecordSet \cap Texts
  BY DEF RecordSet, Texts
<1>2. CASE spf
  <2> DEFINE ours == <<BothSpf, TheirText>>
  <2>1. WithOurs(spf) = ours
    BY <1>2 DEF WithOurs
  <2>2. ours \in Seq(RecordSet) /\ ours \in Seq(Texts)
    BY <1>1
  <2>3. Len(ours) = 2 /\ ours[1] = BothSpf /\ ours[2] = TheirText
    OBVIOUS
  <2> HIDE DEF ours
  <2> QED BY <1>2, <2>1, <2>2, <2>3 DEF TextFits
<1>3. CASE ~spf
  <2>1. WithOurs(spf) = <<TheirText, OurSpf>>
    BY <1>3 DEF WithOurs
  <2> QED BY <1>1, <1>3, <2>1 DEF TextFits
<1> QED BY <1>2, <1>3

(* No TXT record is ever deleted, so that listing them gives all. *)
LEMMA AllThere ==
    ASSUME NEW spf \in BOOLEAN, ZoneFits(spf)
    PROVE  /\ There(Txt) = 1..Len(zone[Txt])
           /\ Cardinality(There(Txt)) = Len(zone[Txt])
           /\ Listed(Txt) = [n \in 1..Len(zone[Txt]) |-> n]
<1> DEFINE L == Len(zone[Txt])
<1>1. zone[Txt] \in Seq(Texts) /\ L \in Nat /\ DOMAIN zone[Txt] = 1..L
  BY DEF ZoneFits, TextFits
<1>2. \A i \in 1..L : zone[Txt][i] # Deleted
  <2>1. Deleted \notin Texts
    BY DEF Deleted, Texts, TheirText, TheirSpf, OurSpf, BothSpf
  <2> QED BY <1>1, <2>1
<1>3. There(Txt) = 1..L
  BY <1>1, <1>2 DEF There
<1>4. \A i \in 1..L : Before(Txt, i) = 1..(i - 1)
  BY <1>1, <1>2 DEF Before
<1>5. ASSUME NEW i \in 1..L
      PROVE  Cardinality(Before(Txt, i)) = i - 1
  <2>1. i \in Nat /\ i - 1 \in Int /\ i - 1 >= 0
    BY <1>1
  <2>2. Cardinality(1..(i - 1)) = (i - 1) - 1 + 1
    <3>1. CASE i - 1 >= 1
      BY <2>1, <3>1, FS_Interval
    <3>2. CASE i - 1 = 0
      BY <2>1, <3>2, FS_Interval
    <3> QED BY <2>1, <3>1, <3>2
  <2>3. Before(Txt, i) = 1..(i - 1)
    BY <1>4
  <2> QED BY <2>1, <2>2, <2>3
<1>6. Cardinality(There(Txt)) = L
  BY <1>1, <1>3, FS_Interval
<1>7. ASSUME NEW n \in 1..L
      PROVE  (CHOOSE i \in There(Txt) : Cardinality(Before(Txt, i)) = n - 1) = n
  <2>1. \A i \in There(Txt) : Cardinality(Before(Txt, i)) = n - 1 <=> i = n
    BY <1>1, <1>3, <1>5
  <2>2. n \in There(Txt)
    BY <1>3
  <2> QED BY <2>1, <2>2
<1> QED BY <1>3, <1>6, <1>7 DEF Listed

LEMMA GetsAll ==
    ASSUME NEW spf \in BOOLEAN, ZoneFits(spf), backend # "none"
    PROVE  get(Txt) = zone[Txt]
<1>1. zone[Txt] \in Seq(Texts)
  BY DEF ZoneFits, TextFits
<1>2. CASE backend = "records"
  BY <1>1, <1>2, AllThere DEF get
<1> QED BY <1>2 DEF get

(* The first SPF record is where it is. *)
LEMMA FirstIs ==
    ASSUME NEW txt \in Seq(Texts), NEW n \in 1..Len(txt), IsSpf(txt[n]),
           \A j \in 1..(n - 1) : ~IsSpf(txt[j])
    PROVE  HasSpf(txt) /\ FirstSpf(txt) = n
<1>1. DOMAIN txt = 1..Len(txt) /\ Len(txt) \in Nat
  OBVIOUS
<1> DEFINE P(i) == IsSpf(txt[i]) /\ \A j \in 1..(i - 1) : ~IsSpf(txt[j])
<1>2. P(n)
  OBVIOUS
<1>3. ASSUME NEW i \in 1..Len(txt), P(i)
      PROVE  i = n
  <2>1. ~(i < n)
    BY <1>1, <1>3
  <2>2. ~(n < i)
    BY <1>1, <1>3
  <2> QED BY <1>1, <2>1, <2>2
<1>4. (CHOOSE i \in DOMAIN txt : P(i)) = n
  <2> HIDE DEF P
  <2> QED BY <1>1, <1>2, <1>3
<1> QED BY <1>1, <1>4 DEF HasSpf, FirstSpf

(* What addDnsRecords makes of the TXT records is nothing, or the list with ours. *)
LEMMA AddsOursTo ==
    ASSUME NEW spf \in BOOLEAN, NEW txt, TextFits(txt, spf)
    PROVE  txtRecordsWithSpf(txt) \in {<<>>, <<WithOurs(spf)>>}
<1>0. txt \in Seq(Texts) /\ DOMAIN txt = 1..Len(txt) /\ Len(txt) \in Nat
  BY DEF TextFits
<1>1. IsSpf(TheirSpf) /\ IsSpf(BothSpf) /\ IsSpf(OurSpf) /\ ~IsSpf(TheirText) /\ OurSpf # TheirSpf
  BY DEF IsSpf, TheirText, TheirSpf, OurSpf, BothSpf
<1>2. CASE spf
  <2>1. Len(txt) = 2 /\ txt[1] \in {TheirSpf, BothSpf} /\ txt[2] = TheirText
    BY <1>2 DEF TextFits
  <2>2. HasSpf(txt) /\ FirstSpf(txt) = 1
    BY <1>0, <1>1, <2>1, FirstIs
  <2>3. CASE txt[1] = TheirSpf
    <3>1. [txt EXCEPT ![1] = BothSpf] = <<BothSpf, TheirText>>
      BY <1>0, <2>1
    <3> QED BY <1>2, <2>2, <2>3, <3>1 DEF txtRecordsWithSpf, WithOurs
  <2>4. CASE txt[1] # TheirSpf
    BY <2>2, <2>4 DEF txtRecordsWithSpf
  <2> QED BY <2>3, <2>4
<1>3. CASE ~spf
  <2>1. Len(txt) >= 1 /\ txt[1] = TheirText /\ \A i \in 2..Len(txt) : txt[i] = OurSpf
    BY <1>3 DEF TextFits
  <2>2. CASE Len(txt) = 1
    <3>1. ~HasSpf(txt)
      BY <1>0, <1>1, <2>1, <2>2 DEF HasSpf
    <3>2. Append(txt, OurSpf) = <<TheirText, OurSpf>>
      <4> DEFINE new == Append(txt, OurSpf)  both == <<TheirText, OurSpf>>
      <4>1. OurSpf \in Texts /\ TheirText \in Texts
        BY DEF Texts
      <4>a. /\ new \in Seq(Texts) /\ Len(new) = Len(txt) + 1
            /\ \A i \in 1..Len(txt) : new[i] = txt[i]
            /\ new[Len(txt) + 1] = OurSpf
        BY <1>0, <4>1, AppendProperties
      <4>2. new \in Seq(Texts) /\ Len(new) = 2 /\ new[1] = txt[1] /\ new[2] = OurSpf
        BY <2>2, <4>a
      <4>3. both \in Seq(Texts) /\ Len(both) = 2 /\ both[1] = TheirText /\ both[2] = OurSpf
        BY <4>1
      <4> HIDE DEF new, both
      <4>4. \A i \in 1..Len(new) : new[i] = both[i]
        BY <2>1, <4>2, <4>3
      <4>5. new = both
        BY <4>2, <4>3, <4>4, SeqEqual
      <4> QED BY <4>5 DEF new, both
    <3> QED BY <1>3, <3>1, <3>2 DEF txtRecordsWithSpf, WithOurs
  <2>3. CASE Len(txt) > 1
    <3>1. txt[2] = OurSpf /\ 2 \in 1..Len(txt)
      BY <1>0, <2>1, <2>3
    <3>2. \A j \in 1..(2 - 1) : ~IsSpf(txt[j])
      BY <1>1, <2>1
    <3>3. HasSpf(txt) /\ FirstSpf(txt) = 2
      BY <1>0, <1>1, <3>1, <3>2, FirstIs
    <3> QED BY <1>1, <3>1, <3>3 DEF txtRecordsWithSpf
  <2> QED BY <1>0, <2>1, <2>2, <2>3
<1> QED BY <1>2, <1>3

-----------------------------------------------------------------------------
(* Writing a name's records. *)
LEMMA ZoneUpdated ==
    ASSUME NEW spf \in BOOLEAN, ZoneFits(spf), NEW k \in Keys, NEW records,
           KindFits(k, records), k = Txt => TextFits(records, spf),
           zone' = [zone EXCEPT ![k] = records]
    PROVE  ZoneFits(spf)'
<1>1. zone' \in [Keys -> Seq(RecordSet)]
  BY DEF ZoneFits, KindFits
<1>2. \A j \in Keys : zone'[j] = IF j = k THEN records ELSE zone[j]
  BY DEF ZoneFits
<1>3. \A j \in Keys : KindFits(j, zone'[j])
  BY <1>2, Zenon DEF ZoneFits
<1>4. TextFits(zone'[Txt], spf)
  BY <1>2, DnsNames, Zenon DEF ZoneFits
<1> QED BY <1>1, <1>3, <1>4 DEF ZoneFits

(* What a flow has to write next. *)
LEMMA NextJob ==
    ASSUME NEW spf \in BOOLEAN, DnsFits(spf), NEW f \in Flows, flow[f].todo # <<>>
    PROVE  /\ flow[f] \in FlowSet
           /\ Key(f) \in Keys /\ Values(f) \in Seq(RecordSet)
           /\ JobFits(Head(flow[f].todo), spf, backend)
           /\ Key(f) = Txt /\ backend # "none" => Values(f) = WithOurs(spf)
           /\ Key(f) # Txt => Len(Values(f)) = 1 /\ Values(f)[1] \in Ips
<1>1. flow[f] \in FlowSet /\ FlowFits(f, flow[f], spf, backend, Len(zone[Txt]))
  BY DEF DnsFits, FlowsFit
<1>2. flow[f].todo \in Seq(Job)
  BY <1>1 DEF FlowSet
<1>3. 1 \in 1..Len(flow[f].todo) /\ Head(flow[f].todo) = flow[f].todo[1] /\ Head(flow[f].todo) \in Job
  BY <1>2
<1>4. JobFits(Head(flow[f].todo), spf, backend)
  BY <1>1, <1>3 DEF FlowFits
<1> QED BY <1>1, <1>3, <1>4 DEF JobFits, Key, Values, Job

LEMMA AddressFits ==
    ASSUME NEW k \in Keys, k # Txt, NEW records \in Seq(RecordSet), Len(records) = 1, records[1] \in Ips
    PROVE  KindFits(k, records)
BY DnsNames DEF KindFits, Kind, Addresses

LEMMA OursFit ==
    ASSUME NEW spf \in BOOLEAN
    PROVE  KindFits(Txt, WithOurs(spf))
<1>1. \A i \in 1..Len(WithOurs(spf)) : WithOurs(spf)[i] \in Texts
  BY OursTyped DEF TextFits
<1> QED BY <1>1, OursTyped, DnsNames DEF KindFits, Kind

LEMMA ReplaceWrites ==
    ASSUME NEW spf \in BOOLEAN, DnsFits(spf), NEW f \in Flows, flow[f].todo # <<>>, ReplaceRecords(f)
    PROVE  ZoneFits(spf)'
<1>1. ZoneFits(spf)
  BY DEF DnsFits
<1>2. CASE backend = "none"
  BY <1>1, <1>2 DEF ReplaceRecords, ZoneFits
<1>3. CASE backend # "none"
  <2>1. zone' = [zone EXCEPT ![Key(f)] = Values(f)]
    BY <1>3 DEF ReplaceRecords
  <2>2. KindFits(Key(f), Values(f)) /\ (Key(f) = Txt => TextFits(Values(f), spf))
    BY <1>3, NextJob, AddressFits, OursFit, OursTyped
  <2> QED BY <1>1, <2>1, <2>2, NextJob, ZoneUpdated
<1> QED BY <1>2, <1>3

(* A record after the last. *)
LEMMA OneMore ==
    ASSUME NEW k \in Keys, NEW records, KindFits(k, records), NEW v \in Kind(k) \cap RecordSet,
           Len(records) < MaxRecords
    PROVE  /\ KindFits(k, Append(records, v))
           /\ Len(Append(records, v)) = Len(records) + 1
           /\ \A j \in 1..Len(records) : Append(records, v)[j] = records[j]
           /\ Append(records, v)[Len(records) + 1] = v
<1> DEFINE new == Append(records, v)
<1>1. records \in Seq(RecordSet) /\ Len(records) \in Nat
  BY DEF KindFits
<1>2. /\ new \in Seq(RecordSet) /\ Len(new) = Len(records) + 1
      /\ \A j \in 1..Len(records) : new[j] = records[j]
      /\ new[Len(records) + 1] = v
  BY <1>1, AppendProperties
<1> HIDE DEF new
<1>3. \A j \in 1..Len(new) : new[j] \in Kind(k)
  BY <1>1, <1>2 DEF KindFits
<1>4. KindFits(k, new)
  BY <1>1, <1>2, <1>3, DnsNames DEF KindFits
<1> QED BY <1>2, <1>4 DEF new

(* One of a flow's records is written, by one request. *)
LEMMA OneWrites ==
    ASSUME NEW spf \in BOOLEAN, DnsFits(spf), NEW f \in Flows, At(f, "put"), Accepts(f), PutOrPost(f)
    PROVE  ZoneFits(spf)' /\ Len(zone[Txt]) <= Len(zone'[Txt])
<1> DEFINE k == Key(f)  n == flow[f].n  ids == flow[f].ids  v == Values(f)[n]  old == zone[k]
<1>0. ZoneFits(spf) /\ KindFits(k, old) /\ k \in Keys /\ Len(old) \in Nat
  BY NextJob DEF DnsFits, ZoneFits, KindFits, FlowsFit, FlowFits, PutFits, At
<1>1. PutFits(flow[f], spf, backend, Len(zone[Txt])) /\ flow[f] \in FlowSet /\ flow[f].todo # <<>>
  BY DEF DnsFits, FlowsFit, FlowFits, At, PutFits
<1>2. backend # "none" /\ n \in 1..Len(Values(f)) /\ n \in Nat /\ ids \in Seq(Nat)
  BY <1>1 DEF PutFits, Values, FlowSet
<1>3. v \in Kind(k) \cap RecordSet
  <2>1. CASE k = Txt
    <3>1. Values(f) = WithOurs(spf)
      BY <1>1, <1>2, <2>1, NextJob
    <3>2. WithOurs(spf)[n] \in Texts
      BY <1>2, <3>1, OursTyped DEF TextFits
    <3> QED BY <2>1, <3>1, <3>2, DnsNames DEF Kind
  <2>2. CASE k # Txt
    <3>0. Len(Values(f)) = 1 /\ Values(f)[1] \in Ips
      BY <1>1, <2>2, NextJob
    <3>1. n = 1
      BY <1>2, <3>0
    <3>2. v \in Ips
      BY <3>0, <3>1
    <3> HIDE DEF v, k
    <3> QED BY <2>2, <3>2, DnsNames DEF Kind
  <2> QED BY <2>1, <2>2
<1>4. CASE n <= Len(ids)
  <2> DEFINE new == [old EXCEPT ![ids[n]] = v]
  <2>1. zone' = [zone EXCEPT ![k] = new]
    BY <1>4 DEF PutOrPost
  <2>2. /\ KindFits(k, new) /\ Len(new) = Len(old)
        /\ \A j \in 1..Len(old) : new[j] = IF j = ids[n] THEN v ELSE old[j]
    <3> DEFINE i == ids[n]
    <3>1. old \in Seq(RecordSet) /\ i \in Nat /\ v \in RecordSet /\ v \in Kind(k)
      BY <1>0, <1>2, <1>3, <1>4 DEF KindFits
    <3> HIDE DEF k, v, old, i
    <3>2. CASE i \in 1..Len(old)
      <4>1. /\ [old EXCEPT ![i] = v] \in Seq(RecordSet) /\ Len([old EXCEPT ![i] = v]) = Len(old)
            /\ \A j \in 1..Len(old) : [old EXCEPT ![i] = v][j] = IF j = i THEN v ELSE old[j]
        BY <3>1, <3>2, ExceptSeq
      <4> QED BY <1>0, <3>1, <4>1 DEF KindFits, i
    <3>3. CASE i \notin 1..Len(old)
      <4>1. [old EXCEPT ![i] = v] = old
        BY <3>1, <3>3
      <4> QED BY <1>0, <3>1, <3>3, <4>1 DEF i
    <3> QED BY <3>2, <3>3
  <2> HIDE DEF new
  <2>3. k = Txt => TextFits(new, spf)
    <3> SUFFICES ASSUME k = Txt PROVE TextFits(new, spf)
      OBVIOUS
    <3>1. TextFits(old, spf)
      BY <1>0 DEF ZoneFits
    <3>2. ids[n] = n
      BY <1>1, <1>2, <1>4 DEF PutFits, Key
    <3>3. v = WithOurs(spf)[n] /\ n \in 1..2
      BY <1>1, <1>2, NextJob, OursTyped
    <3>4. new \in Seq(Texts)
      <4>1. v \in Texts
        BY <3>3, OursTyped DEF TextFits
      <4>2. \A j \in 1..Len(old) : new[j] \in Texts
        BY <2>2, <3>1, <4>1 DEF TextFits
      <4>3. new \in Seq(RecordSet) /\ DOMAIN new = 1..Len(new) /\ new = [j \in 1..Len(new) |-> new[j]]
        BY <2>2 DEF KindFits
      <4> QED BY <1>0, <2>2, <4>2, <4>3
    <3>5. CASE spf
      <4>1. WithOurs(spf)[1] = BothSpf /\ WithOurs(spf)[2] = TheirText
        BY <3>5 DEF WithOurs
      <4>2. Len(old) = 2 /\ old[1] \in {TheirSpf, BothSpf} /\ old[2] = TheirText
        BY <3>1, <3>5 DEF TextFits
      <4>3. \A j \in 1..2 : new[j] = IF j = n THEN WithOurs(spf)[n] ELSE old[j]
        BY <2>2, <3>2, <3>3, <4>2
      <4> HIDE DEF n, old
      <4>4. new[1] \in {TheirSpf, BothSpf} /\ new[2] = TheirText
        BY <3>3, <4>1, <4>2, <4>3
      <4>5. Len(new) = 2
        BY <2>2, <4>2
      <4> QED BY <3>4, <3>5, <4>4, <4>5 DEF TextFits
    <3>6. CASE ~spf
      <4>1. WithOurs(spf)[1] = TheirText /\ WithOurs(spf)[2] = OurSpf
        BY <3>6 DEF WithOurs
      <4> QED BY <2>2, <3>1, <3>2, <3>3, <3>4, <3>6, <4>1 DEF TextFits
    <3> QED BY <3>5, <3>6
  <2>4. ZoneFits(spf)'
    BY <1>0, <2>1, <2>2, <2>3, ZoneUpdated
  <2>5. zone'[Txt] = IF k = Txt THEN new ELSE zone[Txt]
    BY <1>0, <2>1, DnsNames DEF ZoneFits
  <2> QED BY <1>0, <2>2, <2>4, <2>5, DnsNames DEF ZoneFits, KindFits
<1>5. CASE ~(n <= Len(ids))
  <2> DEFINE new == Append(old, v)
  <2>0. Len(ids) \in Nat
    BY <1>2
  <2>1. zone' = [zone EXCEPT ![k] = new] /\ Len(old) < MaxRecords
    BY <1>5 DEF PutOrPost, Accepts
  <2>2. /\ KindFits(k, new) /\ Len(new) = Len(old) + 1
        /\ \A j \in 1..Len(old) : new[j] = old[j]
        /\ new[Len(old) + 1] = v
    BY <1>0, <1>3, <2>1, OneMore
  <2> HIDE DEF new
  <2>3. k = Txt => TextFits(new, spf)
    <3> SUFFICES ASSUME k = Txt PROVE TextFits(new, spf)
      OBVIOUS
    <3>1. TextFits(old, spf)
      BY <1>0 DEF ZoneFits
    <3>2. v = WithOurs(spf)[n] /\ n \in 1..2
      BY <1>1, <1>2, NextJob, OursTyped
    <3>3. ~spf /\ n = 2
      <4>1. Len(ids) >= IF spf THEN 2 ELSE 1
        BY <1>1 DEF PutFits, Key
      <4> QED BY <1>5, <2>0, <3>2, <4>1
    <3>4. v = OurSpf
      BY <3>2, <3>3 DEF WithOurs
    <3>5. new \in Seq(Texts)
      BY <3>1, <3>4 DEF new, TextFits, Texts
    <3> QED BY <1>0, <2>2, <3>1, <3>3, <3>4, <3>5 DEF TextFits
  <2>4. ZoneFits(spf)'
    BY <1>0, <2>1, <2>2, <2>3, ZoneUpdated
  <2>5. zone'[Txt] = IF k = Txt THEN new ELSE zone[Txt]
    BY <1>0, <2>1, DnsNames DEF ZoneFits
  <2> QED BY <1>0, <2>2, <2>4, <2>5, DnsNames DEF ZoneFits, KindFits
<1> QED BY <1>4, <1>5

(* A record of an app is removed. *)
LEMMA RemoveWrites ==
    ASSUME NEW spf \in BOOLEAN, ZoneFits(spf), NEW l \in Subdomains, NEW i,
           zone' = [zone EXCEPT ![l] = Removed(l, i)]
    PROVE  ZoneFits(spf)' /\ zone'[Txt] = zone[Txt]
<1> DEFINE old == zone[l]
           First == {j \in 1..Len(old) : old[j] = i /\ \A h \in 1..(j - 1) : old[h] # i}
           without == [j \in 1..Len(old) |-> IF j \in First THEN Deleted ELSE old[j]]
<1>1. KindFits(l, old) /\ l \in Keys /\ l # Txt /\ Len(old) \in Nat
  BY DnsNames DEF ZoneFits, KindFits
<1>2. KindFits(l, <<>>)
  BY DnsNames DEF KindFits
<1>3. KindFits(l, without)
  <2>1. ASSUME NEW j \in 1..Len(old)
        PROVE  without[j] \in Kind(l) \cap RecordSet
    <3>1. old[j] \in Kind(l) /\ old[j] \in RecordSet
      BY <1>1 DEF KindFits
    <3>2. Deleted \in Kind(l) /\ Deleted \in RecordSet
      BY DEF Kind, RecordSet
    <3> HIDE DEF First, old
    <3> QED BY <3>1, <3>2
  <2>2. without \in Seq(RecordSet) /\ Len(without) = Len(old)
    <3> DEFINE L == Len(old)  e(j) == IF j \in First THEN Deleted ELSE old[j]
    <3>1. L \in Nat /\ \A j \in 1..L : e(j) \in RecordSet
      BY <1>1, <2>1
    <3> HIDE DEF e, L
    <3>2. [j \in 1..L |-> e(j)] \in Seq(RecordSet) /\ Len([j \in 1..L |-> e(j)]) = L
      BY <3>1
    <3> QED BY <3>2 DEF e, L
  <2> HIDE DEF without
  <2> QED BY <1>1, <2>1, <2>2 DEF KindFits
<1>4. Removed(l, i) \in {<<>>, old, without}
  <2> HIDE DEF First
  <2>1. Removed(l, i) = CASE backend \in Replacing -> IF get(l) = <<i>> THEN <<>> ELSE old
                          [] backend = "records" -> without
                          [] OTHER -> old
    BY DEF Removed, First
  <2> HIDE DEF without, old
  <2> QED BY <2>1 DEF Replacing
<1>5. KindFits(l, Removed(l, i))
  BY <1>1, <1>2, <1>3, <1>4, Zenon
<1> HIDE DEF without, First, old
<1> QED BY <1>1, <1>5, ZoneUpdated, DnsNames DEF ZoneFits

-----------------------------------------------------------------------------
(* What a flow carries. *)

(* It fits whatever the others write: no TXT record goes. *)
LEMMA FlowsCarry ==
    ASSUME NEW spf \in BOOLEAN, DnsFits(spf), UNCHANGED backend, ZoneFits(spf)',
           flow' \in [Flows -> FlowSet],
           backend = "records" => Len(zone[Txt]) <= Len(zone'[Txt]),
           \A f \in Flows : flow'[f] = flow[f] \/ FlowFits(f, flow'[f], spf, backend, Len(zone'[Txt]))
    PROVE  FlowsFit(spf)'
<1> SUFFICES ASSUME NEW f \in Flows
             PROVE  FlowFits(f, flow'[f], spf, backend, Len(zone'[Txt]))
  BY DEF FlowsFit
<1>1. CASE flow'[f] = flow[f]
  <2>1. FlowFits(f, flow[f], spf, backend, Len(zone[Txt])) /\ flow[f] \in FlowSet
    BY DEF DnsFits, FlowsFit
  <2>2. Len(zone[Txt]) \in Nat /\ Len(zone'[Txt]) \in Nat
    BY DnsNames DEF DnsFits, ZoneFits, TextFits
  <2>3. ASSUME PutFits(flow[f], spf, backend, Len(zone[Txt]))
        PROVE  PutFits(flow[f], spf, backend, Len(zone'[Txt]))
    <3> DEFINE L == Len(zone[Txt])  M == Len(zone'[Txt])  n == Len(flow[f].ids)
    <3>1. L <= M /\ n \in Nat
      BY <2>1, <2>3 DEF PutFits, FlowSet
    <3>2. \A low \in 1..2 : n \in low..L => n \in low..M
      <4> HIDE DEF L, M, n
      <4> QED BY <2>2, <3>1 DEF L, M
    <3> QED BY <2>3, <3>2 DEF PutFits
  <2> QED BY <1>1, <2>1, <2>3 DEF FlowFits
<1>2. CASE flow'[f] # flow[f]
  BY <1>2
<1> QED BY <1>1, <1>2

(* One flow takes a step, and the row of its app with it if it is a task. *)
LEMMA PutKeeps ==
    ASSUME NEW spf \in BOOLEAN, DnsFits(spf), NEW f \in Flows, NEW r \in FlowSet, Put(f, r),
           UNCHANGED <<backend, ip>>, ZoneFits(spf)', RowsFit',
           backend = "records" => Len(zone[Txt]) <= Len(zone'[Txt]),
           FlowFits(f, r, spf, backend, Len(zone'[Txt])),
           \A a \in Apps : a # f => app'[a] = app[a],
           f \in Apps /\ r.step # "idle" => app'[f].state # "none",
           f \in Apps /\ r.step = "del" => Leaves(f)' # NoLocation
    PROVE  DnsFits(spf)'
<1>1. flow \in [Flows -> FlowSet]
  BY DEF DnsFits, FlowsFit
<1>2. flow' \in [Flows -> FlowSet] /\ \A g \in Flows : flow'[g] = IF g = f THEN r ELSE flow[g]
  BY <1>1 DEF Put
<1>3. FlowsFit(spf)'
  BY <1>2, FlowsCarry
<1>4. DnsTasksFit'
  <2> SUFFICES ASSUME NEW a \in Apps
               PROVE  /\ flow'[a].step # "idle" => app'[a].state # "none"
                      /\ flow'[a].step = "del" => Leaves(a)' # NoLocation
    BY DEF DnsTasksFit
  <2>1. CASE a = f
    <3>1. flow'[a] = r /\ (r.step # "idle" => app'[a].state # "none")
      BY <1>2, <2>1
    <3>2. r.step = "del" => Leaves(a)' # NoLocation
      BY <2>1 DEF Leaves
    <3> QED BY <3>1, <3>2
  <2>2. CASE a # f
    <3>1. app'[a] = app[a] /\ flow'[a] = flow[a]
      BY <1>2, <2>2, DnsNames
    <3>2. Leaves(a)' = Leaves(a)
      BY <3>1 DEF Leaves
    <3> QED BY <3>1, <3>2 DEF DnsFits, DnsTasksFit
  <2> QED BY <2>1, <2>2
<1> QED BY <1>3, <1>4 DEF DnsFits

(* The same, when nothing is written and no row changes. *)
LEMMA StepKeeps ==
    ASSUME NEW spf \in BOOLEAN, DnsFits(spf), NEW f \in Flows, NEW r \in FlowSet, Put(f, r),
           UNCHANGED <<backend, zone, ip, app>>,
           FlowFits(f, r, spf, backend, Len(zone[Txt])),
           f \in Apps /\ r.step # "idle" => app[f].state # "none",
           f \in Apps /\ r.step = "del" => Leaves(f) # NoLocation
    PROVE  DnsFits(spf)'
<1>1. ZoneFits(spf)' /\ RowsFit'
  BY DEF DnsFits, ZoneFits, RowsFit
<1>2. Len(zone[Txt]) \in Nat
  BY DEF DnsFits, ZoneFits, TextFits
<1>3. Leaves(f)' = Leaves(f)
  BY DEF Leaves
<1> QED BY <1>1, <1>2, <1>3, PutKeeps

(* A flow that begins, or ends. *)
LEMMA Rests ==
    ASSUME NEW f \in Flows, NEW i \in Ips, NEW spf, NEW b, NEW there,
           NEW step \in DnsSteps \ {"put"}, step \in {"get", "del"} => f \in Apps,
           step = "txt" => f \in System
    PROVE  /\ [Resting(i) EXCEPT !.step = step] \in FlowSet
           /\ [Resting(i) EXCEPT !.step = step].step = step
           /\ FlowFits(f, [Resting(i) EXCEPT !.step = step], spf, b, there)
<1>1. <<>> \in Seq(Job) /\ <<>> \in Seq(Seq(RecordSet)) /\ <<>> \in Seq(Nat)
  OBVIOUS
<1> DEFINE r == [Resting(i) EXCEPT !.step = step]
<1>2. r.step = step /\ r.todo = <<>> /\ r.late = <<>> /\ r.apps = FALSE
  BY DEF Resting
<1>3. r \in FlowSet
  BY <1>1 DEF FlowSet, Resting, DnsSteps
<1> HIDE DEF r
<1>4. Len(<<>>) = 0 /\ \A j \in 1..Len(<<>>) : FALSE
  OBVIOUS
<1>5. FlowFits(f, r, spf, b, there)
  BY <1>2, <1>4 DEF FlowFits
<1> QED BY <1>2, <1>3, <1>5 DEF r

LEMMA AtRest ==
    ASSUME NEW f \in Flows, NEW i \in Ips, NEW spf, NEW b, NEW there
    PROVE  Resting(i) \in FlowSet /\ Resting(i).step = "idle" /\ FlowFits(f, Resting(i), spf, b, there)
<1>1. <<>> \in Seq(Job) /\ <<>> \in Seq(Seq(RecordSet)) /\ <<>> \in Seq(Nat)
  OBVIOUS
<1> DEFINE r == Resting(i)
<1>2. r.step = "idle" /\ r.todo = <<>> /\ r.late = <<>> /\ r.apps = FALSE
  BY DEF Resting
<1>3. r \in FlowSet
  BY <1>1 DEF FlowSet, Resting, DnsSteps
<1> HIDE DEF r
<1>4. \A j \in 1..Len(<<>>) : FALSE
  OBVIOUS
<1>5. FlowFits(f, r, spf, b, there)
  BY <1>2, <1>4 DEF FlowFits
<1> QED BY <1>2, <1>3, <1>5 DEF r

(* One address to write. *)
LEMMA AddressJob ==
    ASSUME NEW k \in Keys, k # Txt, NEW i \in Ips, NEW spf, NEW b
    PROVE  LET job == [key |-> k, values |-> <<i>>]
           IN  job \in Job /\ JobFits(job, spf, b) /\ <<job>> \in Seq(Job)
                 /\ Len(<<job>>) = 1 /\ <<job>>[1] = job
<1>1. i \in RecordSet
  BY DnsNames
<1>2. <<i>> \in Seq(RecordSet) /\ Len(<<i>>) = 1 /\ <<i>>[1] = i
  BY <1>1
<1> DEFINE job == [key |-> k, values |-> <<i>>]
<1>3. job \in Job /\ job.key = k /\ job.values = <<i>>
  BY <1>2 DEF Job
<1>4. JobFits(job, spf, b)
  BY <1>2, <1>3 DEF JobFits
<1> HIDE DEF job
<1>5. <<job>> \in Seq(Job) /\ Len(<<job>>) = 1 /\ <<job>>[1] = job
  BY <1>3
<1> QED BY <1>3, <1>4, <1>5 DEF job

LEMMA AddressFlow ==
    ASSUME NEW f \in Flows, NEW r \in FlowSet, NEW k \in Keys, k # Txt, NEW i \in Ips,
           NEW spf, NEW b, NEW there, r.step = "write", r.todo = <<[key |-> k, values |-> <<i>>]>>,
           r.apps => f = "refresh",
           b # "none" => \A j \in 1..Len(r.late) : r.late[j] = WithOurs(spf)
    PROVE  FlowFits(f, r, spf, b, there)
<1> DEFINE job == [key |-> k, values |-> <<i>>]
<1>1. JobFits(job, spf, b) /\ Len(<<job>>) = 1 /\ <<job>>[1] = job
  BY AddressJob
<1>2. r.todo = <<job>>
  OBVIOUS
<1> HIDE DEF job
<1>3. \A j \in 1..Len(r.todo) : JobFits(r.todo[j], spf, b)
  BY <1>1, <1>2
<1> QED BY <1>3 DEF FlowFits

(* What it has to write goes on with the next. *)
LEMMA GoesOn ==
    ASSUME NEW spf \in BOOLEAN, DnsFits(spf), NEW f \in Flows, flow[f].todo # <<>>, NEW there
    PROVE  LET r == [flow[f] EXCEPT !.step = "write", !.todo = Tail(@), !.ids = <<>>, !.n = 1]
           IN  r \in FlowSet /\ r.step = "write" /\ FlowFits(f, r, spf, backend, there)
<1> DEFINE todo == flow[f].todo  rest == Tail(todo)
           r == [flow[f] EXCEPT !.step = "write", !.todo = rest, !.ids = <<>>, !.n = 1]
<1>1. flow[f] \in FlowSet /\ FlowFits(f, flow[f], spf, backend, Len(zone[Txt]))
  BY DEF DnsFits, FlowsFit
<1>2. todo \in Seq(Job) /\ <<>> \in Seq(Nat) /\ "write" \in DnsSteps
  BY <1>1 DEF FlowSet, DnsSteps
<1>3. rest \in Seq(Job) /\ Len(rest) = Len(todo) - 1 /\ \A i \in 1..Len(rest) : rest[i] = todo[i + 1]
  BY <1>2, HeadTailProperties
<1>4. /\ r.step = "write" /\ r.todo = rest /\ r.late = flow[f].late /\ r.apps = flow[f].apps
      /\ r \in FlowSet
  <2> HIDE DEF rest
  <2> QED BY <1>1, <1>2, <1>3 DEF FlowSet
<1>5. \A i \in 1..Len(rest) : JobFits(rest[i], spf, backend)
  <2> SUFFICES ASSUME NEW i \in 1..Len(rest) PROVE JobFits(rest[i], spf, backend)
    OBVIOUS
  <2>1. i + 1 \in 1..Len(todo) /\ rest[i] = todo[i + 1]
    BY <1>2, <1>3
  <2> QED BY <1>1, <2>1 DEF FlowFits
<1> HIDE DEF rest, r
<1>6. FlowFits(f, r, spf, backend, there)
  BY <1>1, <1>4, <1>5 DEF FlowFits
<1> QED BY <1>4, <1>6 DEF r, rest

LEMMA GoOnKeeps ==
    ASSUME NEW spf \in BOOLEAN, DnsFits(spf), NEW f \in Flows, flow[f].todo # <<>>, flow[f].step # "idle",
           GoOn(f), UNCHANGED <<backend, ip, app>>, ZoneFits(spf)',
           backend = "records" => Len(zone[Txt]) <= Len(zone'[Txt])
    PROVE  DnsFits(spf)'
<1> DEFINE r == [flow[f] EXCEPT !.step = "write", !.todo = Tail(@), !.ids = <<>>, !.n = 1]
<1>1. r \in FlowSet /\ r.step = "write" /\ FlowFits(f, r, spf, backend, Len(zone'[Txt]))
  BY GoesOn
<1>2. Put(f, r)
  BY DEF GoOn
<1>3. f \in Apps => app'[f].state # "none"
  BY DEF DnsFits, DnsTasksFit
<1>4. RowsFit'
  BY DEF DnsFits, RowsFit
<1> HIDE DEF r
<1> QED BY <1>1, <1>2, <1>3, <1>4, PutKeeps

(* An app that exists gets another state in which it exists. *)
LEMMA StateChanges ==
    ASSUME RowsFit, NEW a \in Apps, app[a].state # "none", NEW s \in AppStates \ {"none"},
           app' = [app EXCEPT ![a].state = s]
    PROVE  RowsFit' /\ app'[a].state # "none" /\ \A b \in Apps : b # a => app'[b] = app[b]
<1>1. app \in [Apps -> [state : AppStates, at : Subdomains \cup {NoLocation},
                       old : Subdomains \cup {NoLocation}]]
  BY DEF RowsFit
<1>2. /\ app' \in [Apps -> [state : AppStates, at : Subdomains \cup {NoLocation},
                           old : Subdomains \cup {NoLocation}]]
      /\ \A b \in Apps : b # a => app'[b] = app[b]
      /\ app'[a].state = s /\ app'[a].at = app[a].at
  BY <1>1
<1> QED BY <1>2 DEF RowsFit

(* A flow ends, and the row of its app may say so. *)
LEMMA EndKeeps ==
    ASSUME NEW spf \in BOOLEAN, DnsFits(spf), NEW f \in Flows, Put(f, Resting(flow[f].ip)),
           UNCHANGED <<backend, ip>>, ZoneFits(spf)', RowsFit',
           backend = "records" => Len(zone[Txt]) <= Len(zone'[Txt]),
           \A a \in Apps : a # f => app'[a] = app[a]
    PROVE  DnsFits(spf)'
<1> DEFINE r == Resting(flow[f].ip)
<1>1. flow[f].ip \in Ips
  BY DEF DnsFits, FlowsFit, FlowSet
<1>2. r \in FlowSet /\ r.step = "idle" /\ FlowFits(f, r, spf, backend, Len(zone'[Txt]))
  BY <1>1, AtRest
<1> HIDE DEF r
<1>3. Put(f, r)
  BY DEF r
<1> QED BY <1>2, <1>3, PutKeeps

LEMMA AfterErrorKeeps ==
    ASSUME NEW spf \in BOOLEAN, DnsFits(spf), NEW f \in Flows, flow[f].step # "idle",
           flow[f].apps => flow[f].todo # <<>>, AfterError(f),
           UNCHANGED <<backend, ip>>, ZoneFits(spf)',
           backend = "records" => Len(zone[Txt]) <= Len(zone'[Txt])
    PROVE  DnsFits(spf)'
<1>1. flow[f] \in FlowSet /\ FlowFits(f, flow[f], spf, backend, Len(zone[Txt]))
  BY DEF DnsFits, FlowsFit
<1>2. RowsFit /\ (f \in Apps => app[f].state # "none") /\ (f \in Apps /\ flow[f].step = "del" => Leaves(f) # NoLocation)
  BY DEF DnsFits, DnsTasksFit
<1>3. UNCHANGED app => RowsFit' /\ Leaves(f)' = Leaves(f)
  BY <1>2 DEF RowsFit, Leaves
<1>4. CASE Put(f, Resting(flow[f].ip)) /\ UNCHANGED app
  BY <1>3, <1>4, EndKeeps
<1>5. ASSUME NEW step \in {"txt", "get", "del"}, step = "txt" => f \in System, step # "txt" => f \in Apps,
             step = "del" => flow[f].step = "del", ~flow[f].apps,
             Put(f, [flow[f] EXCEPT !.step = step, !.todo = <<>>, !.ids = <<>>, !.n = 1]), UNCHANGED app
      PROVE  DnsFits(spf)'
  <2> DEFINE r == [flow[f] EXCEPT !.step = step, !.todo = <<>>, !.ids = <<>>, !.n = 1]
  <2>1. <<>> \in Seq(Job) /\ <<>> \in Seq(Nat) /\ step \in DnsSteps /\ \A j \in 1..Len(<<>>) : FALSE
    BY DEF DnsSteps
  <2>2. /\ r \in FlowSet
        /\ r.step = step /\ r.todo = <<>> /\ r.late = flow[f].late /\ r.apps = flow[f].apps
    BY <1>1, <2>1 DEF FlowSet
  <2> HIDE DEF r
  <2>3. FlowFits(f, r, spf, backend, Len(zone'[Txt]))
    BY <1>1, <1>5, <2>1, <2>2 DEF FlowFits
  <2>4. Put(f, r)
    BY <1>5 DEF r
  <2>5. f \in Apps => app'[f].state # "none"
    BY <1>2, <1>5
  <2>6. f \in Apps /\ r.step = "del" => Leaves(f)' # NoLocation
    BY <1>2, <1>3, <1>5, <2>2
  <2> QED BY <1>3, <1>5, <2>2, <2>3, <2>4, <2>5, <2>6, PutKeeps
<1>6. CASE f \in System /\ ~flow[f].apps /\ UNCHANGED app
           /\ Put(f, [flow[f] EXCEPT !.step = "txt", !.todo = <<>>, !.ids = <<>>, !.n = 1])
  BY <1>5, <1>6
<1>7. CASE f = "refresh" /\ flow[f].apps /\ GoOn(f) /\ UNCHANGED app
  BY <1>7, GoOnKeeps
<1>8. CASE f \in Apps /\ UNCHANGED app
           /\ Put(f, [flow[f] EXCEPT !.step = IF @ = "del" THEN @ ELSE "get",
                                     !.todo = <<>>, !.ids = <<>>, !.n = 1])
  <2>1. ~flow[f].apps
    BY <1>1, <1>8, DnsNames DEF FlowFits
  <2>2. CASE flow[f].step = "del"
    BY <1>5, <1>8, <2>1, <2>2
  <2>3. CASE flow[f].step # "del"
    BY <1>5, <1>8, <2>1, <2>3
  <2> QED BY <2>2, <2>3
<1>9. CASE f \in Apps /\ Put(f, Resting(flow[f].ip)) /\ app' = [app EXCEPT ![f].state = "error"]
  <2>1. RowsFit' /\ \A a \in Apps : a # f => app'[a] = app[a]
    BY <1>2, <1>9, StateChanges DEF AppStates
  <2> QED BY <1>9, <2>1, EndKeeps
<1> QED BY <1>4, <1>6, <1>7, <1>8, <1>9 DEF AfterError

-----------------------------------------------------------------------------
(* What a backend lists are positions of records, one for each: those before *)
(* a position are as many as there are positions listed before it.           *)
LEMMA EachIsListed ==
    ASSUME NEW k \in Keys, zone[k] \in Seq(RecordSet)
    PROVE  /\ Listed(k) \in Seq(Nat)
           /\ \A n \in 1..Len(Listed(k)) : Listed(k)[n] \in There(k)
<1> DEFINE L == Len(zone[k])  S == There(k)  c == Cardinality(S)
           g == [i \in S |-> Cardinality(Before(k, i))]
<1>1. L \in Nat /\ S \subseteq 1..L /\ IsFiniteSet(1..L)
  BY FS_Interval DEF There
<1>2. IsFiniteSet(S) /\ c \in Nat
  BY <1>1, FS_Subset, FS_CardinalityType
<1>b. \A i \in S : Before(k, i) = {j \in S : j < i}
  BY DEF Before, There
<1>3. ASSUME NEW i \in S
      PROVE  /\ i \notin Before(k, i) /\ Before(k, i) \subseteq S /\ IsFiniteSet(Before(k, i))
             /\ Cardinality(Before(k, i)) \in Nat
             /\ Cardinality(Before(k, i) \cup {i}) = Cardinality(Before(k, i)) + 1
  <2>1. i \in Nat /\ i \notin Before(k, i) /\ Before(k, i) \in SUBSET S
    BY <1>1, <1>b, <1>3
  <2>2. IsFiniteSet(Before(k, i))
    BY <1>2, <2>1, FS_Subset
  <2> QED BY <2>1, <2>2, FS_AddElement, FS_CardinalityType
<1> DEFINE b(i) == Cardinality(Before(k, i))
<1>a. DOMAIN g = S /\ \A i \in S : g[i] = b(i) /\ b(i) \in Nat
  BY <1>3
<1>4. ASSUME NEW i \in S, NEW j \in S, i < j
      PROVE  g[i] < g[j]
  <2>1. Before(k, i) \cup {i} \in SUBSET Before(k, j)
    BY <1>1, <1>b, <1>4
  <2>2. Cardinality(Before(k, i) \cup {i}) <= Cardinality(Before(k, j))
    BY <1>3, <2>1, FS_Subset
  <2>3. b(i) \in Nat /\ b(j) \in Nat /\ b(i) + 1 <= b(j)
    BY <1>3, <2>2
  <2> HIDE DEF b, g
  <2> QED BY <1>a, <2>3
<1>5. ASSUME NEW i \in S
      PROVE  g[i] \in 0..(c - 1)
  <2>1. Before(k, i) \cup {i} \in SUBSET S
    BY <1>3
  <2>2. Cardinality(Before(k, i) \cup {i}) <= c
    BY <1>2, <2>1, FS_Subset
  <2>3. b(i) \in Nat /\ b(i) + 1 <= c
    BY <1>3, <2>2
  <2> HIDE DEF b, g, c
  <2> QED BY <1>2, <1>a, <2>3
<1>6. g \in Injection(S, 0..(c - 1))
  <2>1. ASSUME NEW i \in S, NEW j \in S, g[i] = g[j]
        PROVE  i = j
    <3>1. i \in Nat /\ j \in Nat /\ g[i] \in Nat
      BY <1>1, <1>a
    <3>2. ~(i < j) /\ ~(j < i)
      BY <1>4, <2>1, <3>1
    <3> QED BY <3>1, <3>2
  <2>2. g \in [S -> 0..(c - 1)]
    BY <1>5
  <2> QED BY <2>1, <2>2 DEF Injection, IsInjective
<1>7. IsFiniteSet(0..(c - 1)) /\ Cardinality(0..(c - 1)) = c
  <2>1. 0 \in Int /\ c - 1 \in Int /\ (0 > c - 1 <=> c = 0) /\ c - 1 - 0 + 1 = c
    BY <1>2
  <2> QED BY <2>1, FS_Interval
<1>8. g \in Surjection(S, 0..(c - 1))
  BY <1>6, <1>7, FS_Injection
<1>9. ASSUME NEW n \in 1..c
      PROVE  (CHOOSE i \in S : Cardinality(Before(k, i)) = n - 1) \in S
  <2>1. n - 1 \in 0..(c - 1)
    BY <1>2
  <2>2. \E i \in S : Cardinality(Before(k, i)) = n - 1
    BY <1>8, <1>a, <2>1 DEF Surjection
  <2> QED BY <2>2
<1> DEFINE e(n) == CHOOSE i \in S : Cardinality(Before(k, i)) = n - 1
<1>10. \A n \in 1..c : e(n) \in S /\ e(n) \in Nat
  <2>1. \A n \in 1..c : e(n) \in S
    BY <1>9
  <2> HIDE DEF e, S, c
  <2>2. S \subseteq Nat
    BY <1>1
  <2> QED BY <2>1, <2>2
<1>11. Listed(k) = [n \in 1..c |-> e(n)]
  BY DEF Listed
<1> HIDE DEF e, c, S
<1> QED BY <1>2, <1>10, <1>11 DEF S

-----------------------------------------------------------------------------
(* Each action keeps the invariant, for the same kind of user. *)

LEMMA NothingWritten ==
    ASSUME NEW spf \in BOOLEAN, DnsFits(spf), UNCHANGED zone
    PROVE  ZoneFits(spf)' /\ Len(zone[Txt]) <= Len(zone'[Txt])
<1>1. Len(zone[Txt]) \in Nat
  BY DEF DnsFits, ZoneFits, TextFits
<1> QED BY <1>1 DEF DnsFits, ZoneFits

(* What every flow and every row is. *)
LEMMA FlowTyped ==
    ASSUME NEW spf \in BOOLEAN, DnsFits(spf), NEW f \in Flows
    PROVE  /\ flow[f] \in FlowSet /\ flow[f].ip \in Ips /\ ip \in Ips
           /\ FlowFits(f, flow[f], spf, backend, Len(zone[Txt]))
           /\ f \in Apps => /\ flow[f].step # "idle" => app[f].state # "none"
                            /\ flow[f].step = "del" => Leaves(f) # NoLocation
BY DEF DnsFits, FlowsFit, DnsTasksFit, FlowSet

LEMMA RowTyped ==
    ASSUME RowsFit, NEW a \in Apps
    PROVE  /\ app[a].at = NoLocation <=> app[a].state = "none"
           /\ app[a].state # "none" => app[a].at \in Subdomains
           /\ Leaves(a) # NoLocation => Leaves(a) \in Subdomains
BY DEF RowsFit, Leaves

LEMMA ReplaceKeeps ==
    ASSUME NEW spf \in BOOLEAN, DnsFits(spf), NEW f \in Flows, Replace(f)
    PROVE  DnsFits(spf)'
<1>1. ZoneFits(spf)' /\ backend # "records"
  BY ReplaceWrites DEF Replace
<1> QED BY <1>1, GoOnKeeps DEF Replace, At

LEMMA ListKeeps ==
    ASSUME NEW spf \in BOOLEAN, DnsFits(spf), NEW f \in Flows, List(f)
    PROVE  DnsFits(spf)'
<1> DEFINE k == Key(f)  ids == Listed(k)
           r == [flow[f] EXCEPT !.step = "put", !.ids = ids, !.n = 1]
<1>1. /\ flow[f].step = "write" /\ flow[f].todo # <<>> /\ backend = "records"
      /\ Put(f, r) /\ UNCHANGED <<backend, zone, ip, app>>
  BY DEF List, At
<1>2. /\ flow[f] \in FlowSet /\ FlowFits(f, flow[f], spf, backend, Len(zone[Txt]))
      /\ f \in Apps => app[f].state # "none"
  BY <1>1, FlowTyped
<1>3. k \in Keys /\ zone[k] \in Seq(RecordSet) /\ ZoneFits(spf)
  BY <1>1, NextJob DEF DnsFits, ZoneFits
<1>4. ids \in Seq(Nat)
  BY <1>3, EachIsListed
<1>5. /\ r.step = "put" /\ r.ids = ids /\ r.n = 1 /\ r.todo = flow[f].todo
      /\ r.late = flow[f].late /\ r.apps = flow[f].apps /\ r \in FlowSet
  <2> HIDE DEF ids
  <2> QED BY <1>2, <1>4 DEF FlowSet, DnsSteps
<1>6. 1 \in 1..Len(Values(f))
  <2>1. Len(Values(f)) = 1 \/ Len(Values(f)) = 2
    BY <1>1, NextJob, OursTyped
  <2> QED BY <2>1
<1>7. ASSUME k = Txt
      PROVE  Len(ids) \in (IF spf THEN 2 ELSE 1)..Len(zone[Txt]) /\ \A i \in 1..Len(ids) : ids[i] = i
  <2> DEFINE L == Len(zone[Txt])
  <2>1. L \in Nat /\ L >= (IF spf THEN 2 ELSE 1)
    BY <1>3 DEF ZoneFits, TextFits
  <2>2. ids = [n \in 1..L |-> n]
    BY <1>3, <1>7, AllThere
  <2> HIDE DEF L, ids
  <2>3. Len(ids) = L /\ \A i \in 1..L : ids[i] = i
    BY <2>1, <2>2
  <2> QED BY <2>1, <2>3 DEF L
<1> HIDE DEF r, ids
<1>8. PutFits(r, spf, backend, Len(zone[Txt]))
  BY <1>1, <1>5, <1>6, <1>7 DEF PutFits, Key, Values
<1>9. FlowFits(f, r, spf, backend, Len(zone[Txt]))
  BY <1>1, <1>2, <1>5, <1>8 DEF FlowFits
<1> QED BY <1>1, <1>2, <1>5, <1>9, StepKeeps

LEMMA WriteOneKeeps ==
    ASSUME NEW spf \in BOOLEAN, DnsFits(spf), NEW f \in Flows, WriteOne(f)
    PROVE  DnsFits(spf)'
<1>1. At(f, "put") /\ Accepts(f) /\ PutOrPost(f) /\ UNCHANGED <<backend, ip, app>>
  BY DEF WriteOne
<1>2. ZoneFits(spf)' /\ Len(zone[Txt]) <= Len(zone'[Txt])
  BY <1>1, OneWrites
<1>3. /\ flow[f] \in FlowSet /\ flow[f].step = "put"
      /\ FlowFits(f, flow[f], spf, backend, Len(zone[Txt])) /\ PutFits(flow[f], spf, backend, Len(zone[Txt]))
      /\ f \in Apps => app[f].state # "none"
  BY <1>1, FlowTyped DEF At, FlowFits
<1>4. flow[f].todo # <<>> /\ flow[f].n \in 1..Len(Values(f)) /\ Values(f) \in Seq(RecordSet)
  BY <1>3, NextJob DEF PutFits, Values
<1>5. CASE flow[f].n = Len(Values(f))
  BY <1>1, <1>2, <1>3, <1>4, <1>5, GoOnKeeps DEF WriteOne
<1>6. CASE flow[f].n # Len(Values(f))
  <2> DEFINE r == [flow[f] EXCEPT !.n = @ + 1]
  <2>1. Put(f, r)
    BY <1>6 DEF WriteOne
  <2>2. /\ r \in FlowSet /\ r.step = "put" /\ r.n = flow[f].n + 1 /\ r.todo = flow[f].todo
        /\ r.late = flow[f].late /\ r.apps = flow[f].apps /\ r.ids = flow[f].ids
    <3> DEFINE q == flow[f]  m == q.n + 1
    <3>1. q \in FlowSet /\ m \in Nat /\ q.step = "put"
      BY <1>3 DEF FlowSet
    <3>2. r = [q EXCEPT !.n = m]
      OBVIOUS
    <3> HIDE DEF q, m, r
    <3>3. /\ r \in FlowSet /\ r.step = q.step /\ r.n = m /\ r.todo = q.todo
          /\ r.late = q.late /\ r.apps = q.apps /\ r.ids = q.ids
      BY <3>1, <3>2 DEF FlowSet
    <3> QED BY <3>1, <3>3 DEF q, m
  <2> HIDE DEF r
  <2>3. r.n \in 1..Len(Values(f))
    <3>1. Len(Values(f)) \in Nat
      BY <1>4
    <3> DEFINE m == flow[f].n  l == Len(Values(f))
    <3>2. m \in 1..l /\ m # l /\ r.n = m + 1 /\ l \in Nat
      BY <1>4, <1>6, <2>2, <3>1
    <3> HIDE DEF m, l
    <3>3. r.n \in 1..l
      BY <3>2
    <3> QED BY <3>3 DEF l
  <2>4. Len(zone[Txt]) \in Nat /\ Len(zone'[Txt]) \in Nat /\ Len(flow[f].ids) \in Nat
    BY <1>2, <1>3 DEF DnsFits, ZoneFits, TextFits, FlowSet
  <2>5. ASSUME Key(f) = Txt
        PROVE  Len(flow[f].ids) \in (IF spf THEN 2 ELSE 1)..Len(zone'[Txt])
    <3>1. Len(flow[f].ids) \in (IF spf THEN 2 ELSE 1)..Len(zone[Txt])
      BY <1>3, <2>5 DEF PutFits, Key
    <3> QED BY <1>2, <2>4, <3>1
  <2>6. PutFits(r, spf, backend, Len(zone'[Txt]))
    BY <1>3, <2>2, <2>3, <2>5 DEF PutFits, Key, Values
  <2>7. FlowFits(f, r, spf, backend, Len(zone'[Txt]))
    BY <1>3, <2>2, <2>6 DEF FlowFits
  <2>8. RowsFit'
    BY <1>1 DEF DnsFits, RowsFit
  <2> QED BY <1>1, <1>2, <1>3, <2>1, <2>2, <2>7, <2>8, PutKeeps
<1> QED BY <1>5, <1>6

LEMMA UpsertKeeps ==
    ASSUME NEW spf \in BOOLEAN, DnsFits(spf), NEW f \in Flows, upsert(f)
    PROVE  DnsFits(spf)'
BY ReplaceKeeps, ListKeeps, WriteOneKeeps DEF upsert

(* A flow of the system begins. *)
LEMMA StartKeeps ==
    ASSUME NEW spf \in BOOLEAN, DnsFits(spf), NEW f \in System, Start(f), UNCHANGED <<backend, zone, ip, app>>
    PROVE  DnsFits(spf)'
<1> DEFINE r == [Resting(ip) EXCEPT !.step = "txt"]
<1>1. f \in Flows /\ f \notin Apps /\ "txt" \in DnsSteps \ {"put"}
  BY DnsNames DEF DnsSteps
<1>2. r \in FlowSet /\ FlowFits(f, r, spf, backend, Len(zone[Txt]))
  BY <1>1, FlowTyped, Rests
<1>3. Put(f, r)
  BY DEF Start
<1> HIDE DEF r
<1> QED BY <1>1, <1>2, <1>3, StepKeeps

LEMMA ConfigureWebadminKeeps ==
    ASSUME NEW spf \in BOOLEAN, DnsFits(spf), ConfigureWebadmin
    PROVE  DnsFits(spf)'
BY StartKeeps, DnsNames DEF ConfigureWebadmin

LEMMA RefreshDNSKeeps ==
    ASSUME NEW spf \in BOOLEAN, DnsFits(spf), RefreshDNS
    PROVE  DnsFits(spf)'
BY StartKeeps, DnsNames DEF RefreshDNS

LEMMA ReadTxtKeeps ==
    ASSUME NEW spf \in BOOLEAN, DnsFits(spf), NEW f \in Flows, ReadTxt(f)
    PROVE  DnsFits(spf)'
<1> DEFINE late == flow[f].late \o txtRecordsWithSpf(get(Txt))
           job(i) == [key |-> Txt, values |-> late[i]]
           jobs == [i \in 1..Len(late) |-> job(i)]
           first == [key |-> Admin, values |-> <<flow[f].ip>>]
           todo == <<first>> \o jobs
           r == [flow[f] EXCEPT !.step = "write", !.late = late, !.todo = todo]
<1>1. f \in System /\ flow[f].step = "txt" /\ Put(f, r) /\ UNCHANGED <<backend, zone, ip, app>>
  BY DEF ReadTxt, At
<1>2. /\ flow[f] \in FlowSet /\ flow[f].ip \in Ips
      /\ FlowFits(f, flow[f], spf, backend, Len(zone[Txt])) /\ ZoneFits(spf)
      /\ flow[f].late \in Seq(Seq(RecordSet)) /\ f \notin Apps
  BY <1>1, FlowTyped, DnsNames DEF DnsFits, FlowSet
<1>3. ASSUME backend # "none"
      PROVE  txtRecordsWithSpf(get(Txt)) \in {<<>>, <<WithOurs(spf)>>}
  <2>1. get(Txt) = zone[Txt] /\ TextFits(zone[Txt], spf)
    BY <1>2, <1>3, GetsAll DEF ZoneFits
  <2> QED BY <2>1, AddsOursTo
<1>4. ASSUME backend = "none"
      PROVE  txtRecordsWithSpf(get(Txt)) = << <<OurSpf>> >> /\ <<OurSpf>> \in Seq(RecordSet)
  <2>1. get(Txt) = <<>>
    BY <1>4 DEF get
  <2>2. ~HasSpf(<<>>) /\ Append(<<>>, OurSpf) = <<OurSpf>>
    BY DEF HasSpf
  <2>3. OurSpf \in RecordSet
    BY DEF RecordSet, Texts
  <2> QED BY <2>1, <2>2, <2>3 DEF txtRecordsWithSpf
<1> DEFINE more == txtRecordsWithSpf(get(Txt))
<1>5. /\ more \in Seq(Seq(RecordSet))
      /\ backend # "none" => \A i \in 1..Len(more) : more[i] = WithOurs(spf)
  <2> DEFINE ours == WithOurs(spf)
  <2>1. ours \in Seq(RecordSet)
    BY OursTyped
  <2> HIDE DEF more, ours
  <2>2. CASE backend = "none"
    <3> DEFINE x == <<OurSpf>>
    <3>1. more = <<x>> /\ x \in Seq(RecordSet)
      BY <1>4, <2>2 DEF more
    <3> HIDE DEF x
    <3> QED BY <2>2, <3>1
  <2>3. CASE backend # "none"
    <3>1. more \in {<<>>, <<ours>>}
      BY <1>3, <2>3 DEF more, ours
    <3>2. <<ours>> \in Seq(Seq(RecordSet)) /\ \A i \in 1..Len(<<ours>>) : <<ours>>[i] = ours
      BY <2>1
    <3>3. <<>> \in Seq(Seq(RecordSet)) /\ \A i \in 1..Len(<<>>) : FALSE
      OBVIOUS
    <3>4. \A i \in 1..Len(more) : more[i] = ours
      BY <3>1, <3>2, <3>3
    <3> QED BY <3>1, <3>2, <3>3, <3>4 DEF ours
  <2> QED BY <2>2, <2>3
<1>6. /\ late \in Seq(Seq(RecordSet))
      /\ backend # "none" => \A i \in 1..Len(late) : late[i] = WithOurs(spf)
  <2> DEFINE old == flow[f].late
  <2>1. /\ old \in Seq(Seq(RecordSet)) /\ Len(old) \in Nat /\ Len(more) \in Nat
        /\ backend # "none" => \A i \in 1..Len(old) : old[i] = WithOurs(spf)
    BY <1>2, <1>5 DEF FlowFits
  <2> HIDE DEF more, old
  <2>2. /\ old \o more \in Seq(Seq(RecordSet)) /\ Len(old \o more) = Len(old) + Len(more)
        /\ \A i \in 1..(Len(old) + Len(more)) :
             (old \o more)[i] = IF i <= Len(old) THEN old[i] ELSE more[i - Len(old)]
    BY <1>5, <2>1, ConcatProperties
  <2>3. ASSUME backend # "none", NEW i \in 1..(Len(old) + Len(more))
        PROVE  (old \o more)[i] = WithOurs(spf)
    BY <1>5, <2>1, <2>2, <2>3
  <2> QED BY <2>2, <2>3 DEF old, more
<1> HIDE DEF more, late
<1>7. /\ jobs \in Seq(Job) /\ Len(jobs) = Len(late) /\ Len(late) \in Nat
      /\ \A i \in 1..Len(late) : jobs[i] = job(i)
  <2>1. Len(late) \in Nat /\ \A i \in 1..Len(late) : job(i) \in Job
    BY <1>6, DnsNames DEF Job
  <2> HIDE DEF job
  <2> QED BY <2>1
<1>8. \A i \in 1..Len(jobs) : JobFits(jobs[i], spf, backend)
  BY <1>6, <1>7 DEF JobFits
<1>9. /\ first \in Job /\ JobFits(first, spf, backend) /\ <<first>> \in Seq(Job)
      /\ Len(<<first>>) = 1 /\ <<first>>[1] = first
  BY <1>2, AddressJob, DnsNames
<1> HIDE DEF jobs, first
<1>10. todo \in Seq(Job) /\ \A i \in 1..Len(todo) : JobFits(todo[i], spf, backend)
  <2>1. /\ todo \in Seq(Job) /\ Len(todo) = 1 + Len(jobs)
        /\ \A i \in 1..(1 + Len(jobs)) : todo[i] = IF i <= 1 THEN <<first>>[i] ELSE jobs[i - 1]
    BY <1>7, <1>9, ConcatProperties
  <2> HIDE DEF todo
  <2>2. ASSUME NEW i \in 1..Len(todo)
        PROVE  JobFits(todo[i], spf, backend)
    <3>1. CASE i = 1
      BY <1>9, <2>1, <3>1
    <3>2. CASE i # 1
      <4>1. i - 1 \in 1..Len(jobs) /\ todo[i] = jobs[i - 1]
        BY <1>7, <2>1, <3>2
      <4> QED BY <1>8, <4>1
    <3> QED BY <3>1, <3>2
  <2> QED BY <2>1, <2>2
<1> HIDE DEF todo
<1>11. r \in FlowSet /\ r.step = "write" /\ r.todo = todo /\ r.late = late /\ r.apps = flow[f].apps
  BY <1>2, <1>6, <1>10 DEF FlowSet, DnsSteps
<1> HIDE DEF r
<1>12. FlowFits(f, r, spf, backend, Len(zone[Txt]))
  BY <1>1, <1>2, <1>6, <1>10, <1>11 DEF FlowFits
<1> QED BY <1>1, <1>2, <1>11, <1>12, StepKeeps

LEMMA WebadminWrittenKeeps ==
    ASSUME NEW spf \in BOOLEAN, DnsFits(spf), WebadminWritten
    PROVE  DnsFits(spf)'
<1>1. "webadmin" \in Flows /\ RowsFit'
  BY DnsNames DEF WebadminWritten, DnsFits, RowsFit
<1>2. ZoneFits(spf)' /\ Len(zone[Txt]) <= Len(zone'[Txt])
  BY NothingWritten DEF WebadminWritten
<1> QED BY <1>1, <1>2, EndKeeps DEF WebadminWritten

LEMMA RefreshEndsKeeps ==
    ASSUME NEW spf \in BOOLEAN, DnsFits(spf), RefreshEnds
    PROVE  DnsFits(spf)'
<1>1. "refresh" \in Flows /\ RowsFit'
  BY DnsNames DEF RefreshEnds, DnsFits, RowsFit
<1>2. ZoneFits(spf)' /\ Len(zone[Txt]) <= Len(zone'[Txt])
  BY NothingWritten DEF RefreshEnds
<1> QED BY <1>1, <1>2, EndKeeps DEF RefreshEnds

LEMMA RefreshAppsKeeps ==
    ASSUME NEW spf \in BOOLEAN, DnsFits(spf), RefreshApps
    PROVE  DnsFits(spf)'
<1> DEFINE f == "refresh"  q == flow[f]
           left == {app[a].at : a \in {b \in Apps : app[b].state = "installed"}}
           r == [q EXCEPT !.apps = TRUE, !.late = <<>>, !.left = left]
<1>1. q.step = "write" /\ q.todo = <<>> /\ Put(f, r) /\ UNCHANGED <<backend, zone, ip, app>>
  BY DEF RefreshApps, Written, At
<1>2. f \in Flows /\ f \notin Apps /\ q \in FlowSet
  BY DnsNames, FlowTyped
<1>3. left \in SUBSET Subdomains
  BY RowTyped DEF DnsFits
<1>4. <<>> \in Seq(Seq(RecordSet)) /\ \A i \in 1..Len(<<>>) : FALSE
  OBVIOUS
<1> HIDE DEF q, left
<1>5. r \in FlowSet /\ r.step = q.step /\ r.todo = q.todo /\ r.late = <<>>
  BY <1>2, <1>3, <1>4 DEF FlowSet
<1> HIDE DEF r
<1>6. FlowFits(f, r, spf, backend, Len(zone[Txt]))
  BY <1>1, <1>4, <1>5 DEF FlowFits
<1> HIDE DEF f
<1> QED BY <1>1, <1>2, <1>5, <1>6, StepKeeps

LEMMA RefreshAppKeeps ==
    ASSUME NEW spf \in BOOLEAN, DnsFits(spf), NEW l \in Subdomains, RefreshApp(l)
    PROVE  DnsFits(spf)'
<1> DEFINE f == "refresh"  q == flow[f]  todo == <<[key |-> l, values |-> <<q.ip>>]>>
           r == [q EXCEPT !.left = @ \ {l}, !.todo = todo]
<1>1. q.step = "write" /\ Put(f, r) /\ UNCHANGED <<backend, zone, ip, app>>
  BY DEF RefreshApp, Written, At
<1>2. /\ f \in Flows /\ f \notin Apps /\ q \in FlowSet /\ q.ip \in Ips /\ l \in Keys /\ l # Txt
      /\ FlowFits(f, q, spf, backend, Len(zone[Txt]))
  BY DnsNames, FlowTyped
<1>3. todo \in Seq(Job)
  BY <1>2, AddressJob
<1> HIDE DEF todo, q
<1>4. r \in FlowSet /\ r.step = "write" /\ r.todo = todo /\ r.late = q.late
  BY <1>1, <1>2, <1>3 DEF FlowSet
<1>5. backend # "none" => \A j \in 1..Len(r.late) : r.late[j] = WithOurs(spf)
  BY <1>2, <1>4 DEF FlowFits
<1> HIDE DEF r
<1>6. FlowFits(f, r, spf, backend, Len(zone[Txt]))
  BY <1>2, <1>4, <1>5, AddressFlow DEF todo
<1> HIDE DEF f
<1> QED BY <1>1, <1>2, <1>4, <1>6, StepKeeps

LEMMA SetDnsConfigKeeps ==
    ASSUME NEW spf \in BOOLEAN, DnsFits(spf), SetDnsConfig
    PROVE  DnsFits(spf)'
<1> DEFINE f == "request"  q == Resting(ip)  todo == <<[key |-> Admin, values |-> <<ip>>]>>
           r == [q EXCEPT !.step = "write", !.todo = Probe]
<1>1. Put(f, r) /\ UNCHANGED <<backend, zone, ip, app>>
  BY DEF SetDnsConfig
<1>2. f \in Flows /\ f \notin Apps /\ ip \in Ips /\ Admin \in Keys /\ Admin # Txt
  BY DnsNames DEF DnsFits
<1>3. todo \in Seq(Job) /\ q \in FlowSet /\ q.late = <<>> /\ q.apps = FALSE
  BY <1>2, AddressJob, AtRest DEF Resting
<1>4. Probe = <<>> \/ Probe = todo
  BY DEF Probe
<1>5. <<>> \in Seq(Job) /\ \A j \in 1..Len(<<>>) : FALSE
  OBVIOUS
<1> HIDE DEF todo, q
<1>6. r \in FlowSet /\ r.step = "write" /\ r.todo = Probe /\ r.late = <<>> /\ r.apps = FALSE
  BY <1>3, <1>4, <1>5 DEF FlowSet, DnsSteps
<1> HIDE DEF r
<1>7. FlowFits(f, r, spf, backend, Len(zone[Txt]))
  <2>1. CASE Probe = <<>>
    BY <1>5, <1>6, <2>1 DEF FlowFits
  <2>2. CASE Probe = todo
    BY <1>2, <1>5, <1>6, <2>2, AddressFlow DEF todo
  <2> QED
    BY <1>4, <2>1, <2>2
<1> HIDE DEF f
<1> QED BY <1>1, <1>2, <1>6, <1>7, StepKeeps

(* Here two flows change, neither of an app. *)
LEMMA DnsConfigSetKeeps ==
    ASSUME NEW spf \in BOOLEAN, DnsFits(spf), DnsConfigSet
    PROVE  DnsFits(spf)'
<1> DEFINE p == Resting(flow["request"].ip)  q == [Resting(ip) EXCEPT !.step = "txt"]  w == flow["webadmin"]
           n == IF w.step = "idle" THEN q ELSE w
<1>1. /\ "request" \in Flows /\ "webadmin" \in Flows /\ "webadmin" \in System
      /\ "request" \notin Apps /\ "webadmin" \notin Apps /\ "txt" \in DnsSteps \ {"put"}
  BY DnsNames DEF DnsSteps
<1>2. /\ p \in FlowSet /\ FlowFits("request", p, spf, backend, Len(zone[Txt]))
      /\ q \in FlowSet /\ FlowFits("webadmin", q, spf, backend, Len(zone[Txt]))
      /\ w \in FlowSet
  BY <1>1, FlowTyped, AtRest, Rests
<1>3. flow' = [flow EXCEPT !["request"] = p, !["webadmin"] = n]
  BY DEF DnsConfigSet
<1>4. UNCHANGED <<backend, zone, ip, app>>
  BY DEF DnsConfigSet
<1>5. flow \in [Flows -> FlowSet]
  BY DEF DnsFits, FlowsFit
<1>6. n \in FlowSet /\ (n = w \/ n = q)
  BY <1>2
<1>7. w = flow["webadmin"]
  OBVIOUS
<1> HIDE DEF p, n, q, w
<1>8. /\ flow' \in [Flows -> FlowSet]
      /\ \A f \in Flows : flow'[f] = IF f = "webadmin" THEN n ELSE IF f = "request" THEN p ELSE flow[f]
  BY <1>1, <1>2, <1>3, <1>5, <1>6
<1>9. \A f \in Flows : flow'[f] = flow[f] \/ FlowFits(f, flow'[f], spf, backend, Len(zone'[Txt]))
  BY <1>2, <1>4, <1>6, <1>7, <1>8
<1>10. FlowsFit(spf)'
  BY <1>4, <1>8, <1>9, NothingWritten, FlowsCarry
<1>11. DnsTasksFit'
  <2>1. \A a \in Apps : flow'[a] = flow[a] /\ app'[a] = app[a]
    BY <1>1, <1>4, <1>8, DnsNames
  <2> QED BY <2>1 DEF DnsFits, DnsTasksFit, Leaves
<1>12. RowsFit' /\ ZoneFits(spf)'
  BY <1>4, NothingWritten DEF DnsFits, RowsFit
<1> QED BY <1>4, <1>10, <1>11, <1>12 DEF DnsFits

(* Tasks of apps, and commands. *)

LEMMA InstallAppKeeps ==
    ASSUME NEW spf \in BOOLEAN, DnsFits(spf), NEW a \in Apps, NEW l \in Subdomains, InstallApp(a, l)
    PROVE  DnsFits(spf)'
<1> DEFINE entry == [state |-> "pending_install", at |-> l, old |-> NoLocation]
<1>1. /\ app[a].state = "none" /\ app' = [app EXCEPT ![a] = entry]
      /\ UNCHANGED <<backend, zone, ip, flow>>
  BY DEF InstallApp
<1>2. a \in Flows /\ flow[a] \in FlowSet /\ flow[a].step = "idle" /\ FlowFits(a, flow[a], spf, backend, Len(zone[Txt]))
  BY <1>1, DnsNames, FlowTyped
<1>3. RowsFit
  BY DEF DnsFits
<1>4. /\ entry.state = "pending_install" /\ entry.at = l
      /\ entry \in [state : AppStates, at : Subdomains \cup {NoLocation}, old : Subdomains \cup {NoLocation}]
  BY DEF AppStates
<1> HIDE DEF entry
<1>5. RowsFit' /\ \A b \in Apps : b # a => app'[b] = app[b]
  BY <1>1, <1>3, <1>4, DnsNames DEF RowsFit
<1>6. Put(a, flow[a])
  BY <1>1 DEF Put, DnsFits, FlowsFit
<1>7. ZoneFits(spf)' /\ Len(zone[Txt]) <= Len(zone'[Txt]) /\ zone'[Txt] = zone[Txt]
  BY <1>1, NothingWritten
<1> QED BY <1>1, <1>2, <1>5, <1>6, <1>7, PutKeeps

LEMMA ConfigureAppKeeps ==
    ASSUME NEW spf \in BOOLEAN, DnsFits(spf), NEW a \in Apps, NEW l \in Subdomains, ConfigureApp(a, l)
    PROVE  DnsFits(spf)'
<1> DEFINE entry == [state |-> "pending_configure", at |-> l, old |-> app[a].at]
<1>1. /\ app' = [app EXCEPT ![a] = entry]
      /\ Put(a, Resting(flow[a].ip)) /\ UNCHANGED <<backend, zone, ip>>
  BY DEF ConfigureApp
<1>2. RowsFit /\ app[a].at \in Subdomains \cup {NoLocation} /\ a \in Flows
  BY DnsNames DEF DnsFits, RowsFit
<1>3. /\ entry.state = "pending_configure" /\ entry.at = l
      /\ entry \in [state : AppStates, at : Subdomains \cup {NoLocation}, old : Subdomains \cup {NoLocation}]
  BY <1>2 DEF AppStates
<1> HIDE DEF entry
<1>4. RowsFit' /\ \A b \in Apps : b # a => app'[b] = app[b]
  BY <1>1, <1>2, <1>3, DnsNames DEF RowsFit
<1> QED BY <1>1, <1>2, <1>4, NothingWritten, EndKeeps

LEMMA UninstallKeeps ==
    ASSUME NEW spf \in BOOLEAN, DnsFits(spf), NEW a \in Apps, Uninstall(a)
    PROVE  DnsFits(spf)'
<1>1. RowsFit /\ a \in Flows
  BY DnsNames DEF DnsFits
<1>2. RowsFit' /\ \A b \in Apps : b # a => app'[b] = app[b]
  BY <1>1, StateChanges DEF Uninstall, AppStates
<1> QED BY <1>1, <1>2, NothingWritten, EndKeeps DEF Uninstall

LEMMA BeginTaskKeeps ==
    ASSUME NEW spf \in BOOLEAN, DnsFits(spf), NEW a \in Apps, BeginTask(a)
    PROVE  DnsFits(spf)'
<1> DEFINE step == IF Leaves(a) = NoLocation THEN "get" ELSE "del"  r == [Resting(ip) EXCEPT !.step = step]
<1>1. Put(a, r) /\ UNCHANGED <<backend, zone, ip, app>> /\ app[a].state # "none"
  BY DEF BeginTask, Pending
<1>2. a \in Flows /\ ip \in Ips /\ step \in DnsSteps \ {"put"} /\ step # "txt"
  BY DnsNames DEF DnsFits, DnsSteps
<1>3. r \in FlowSet /\ r.step = step /\ FlowFits(a, r, spf, backend, Len(zone[Txt]))
  BY <1>2, Rests
<1> HIDE DEF r
<1> QED BY <1>1, <1>2, <1>3, StepKeeps

LEMMA RegisterKeeps ==
    ASSUME NEW spf \in BOOLEAN, DnsFits(spf), NEW a \in Apps, registerSubdomain(a)
    PROVE  DnsFits(spf)'
<1> DEFINE l == app[a].at  q == flow[a]  todo == <<[key |-> l, values |-> <<q.ip>>]>>
           r == [q EXCEPT !.step = "write", !.todo = todo]
<1>1. q.step = "get" /\ UNCHANGED <<backend, zone, ip>>
  BY DEF registerSubdomain, At
<1>2. /\ a \in Flows /\ q \in FlowSet /\ q.ip \in Ips /\ app[a].state # "none" /\ RowsFit
      /\ FlowFits(a, q, spf, backend, Len(zone[Txt]))
  BY <1>1, DnsNames, FlowTyped DEF DnsFits
<1>3. l \in Keys /\ l # Txt
  BY <1>2, RowTyped, DnsNames
<1>4. CASE Put(a, Resting(flow[a].ip)) /\ app' = [app EXCEPT ![a].state = "error"]
  <2>1. RowsFit' /\ \A b \in Apps : b # a => app'[b] = app[b]
    BY <1>2, <1>4, StateChanges DEF AppStates
  <2> QED BY <1>1, <1>2, <1>4, <2>1, NothingWritten, EndKeeps
<1>5. CASE Put(a, r) /\ UNCHANGED app
  <2>1. todo \in Seq(Job)
    BY <1>2, <1>3, AddressJob
  <2> HIDE DEF todo, q
  <2>2. r \in FlowSet /\ r.step = "write" /\ r.todo = todo /\ r.late = q.late /\ r.apps = q.apps
    BY <1>2, <2>1 DEF FlowSet, DnsSteps
  <2> HIDE DEF r
  <2>3. /\ backend # "none" => \A j \in 1..Len(r.late) : r.late[j] = WithOurs(spf)
        /\ r.apps => a = "refresh"
    BY <1>2, <2>2 DEF FlowFits
  <2>4. FlowFits(a, r, spf, backend, Len(zone[Txt]))
    BY <1>2, <1>3, <2>2, <2>3, AddressFlow DEF todo
  <2> QED BY <1>1, <1>2, <1>5, <2>2, <2>4, StepKeeps
<1> QED BY <1>4, <1>5 DEF registerSubdomain

LEMMA WaitForDnsKeeps ==
    ASSUME NEW spf \in BOOLEAN, DnsFits(spf), NEW a \in Apps, waitForDns(a)
    PROVE  DnsFits(spf)'
<1>1. a \in Flows /\ RowsFit /\ app[a].state # "none"
  BY DnsNames, FlowTyped DEF DnsFits, waitForDns, Written, At
<1>2. PICK state \in {"installed", "error"} : app' = [app EXCEPT ![a].state = state]
  BY DEF waitForDns
<1>3. RowsFit' /\ \A b \in Apps : b # a => app'[b] = app[b]
  BY <1>1, <1>2, StateChanges DEF AppStates
<1> QED BY <1>1, <1>3, NothingWritten, EndKeeps DEF waitForDns

LEMMA UnregisterKeeps ==
    ASSUME NEW spf \in BOOLEAN, DnsFits(spf), NEW a \in Apps, unregisterSubdomain(a)
    PROVE  DnsFits(spf)' /\ zone'[Txt] = zone[Txt]
<1> DEFINE l == Leaves(a)
<1>1. /\ flow[a].step = "del" /\ UNCHANGED <<backend, ip>>
      /\ zone' = [zone EXCEPT ![l] = Removed(l, flow[a].ip)]
  BY DEF unregisterSubdomain, At
<1>2. /\ a \in Flows /\ flow[a] \in FlowSet /\ flow[a].ip \in Ips /\ ip \in Ips
      /\ FlowFits(a, flow[a], spf, backend, Len(zone[Txt]))
      /\ app[a].state # "none" /\ l # NoLocation /\ RowsFit /\ ZoneFits(spf)
  BY <1>1, DnsNames, FlowTyped DEF DnsFits
<1>3. l \in Subdomains
  BY <1>2, RowTyped
<1>4. ZoneFits(spf)' /\ zone'[Txt] = zone[Txt] /\ Len(zone[Txt]) \in Nat
  <2>1. ZoneFits(spf)' /\ zone'[Txt] = zone[Txt]
    BY <1>1, <1>2, <1>3, RemoveWrites
  <2>2. Len(zone[Txt]) \in Nat
    BY <1>2 DEF ZoneFits, TextFits
  <2> QED BY <2>1, <2>2
<1>5. CASE UNCHANGED <<app, flow>>
  <2>1. Put(a, flow[a]) /\ RowsFit' /\ Leaves(a)' = Leaves(a)
    BY <1>2, <1>5 DEF Put, DnsFits, FlowsFit, RowsFit, Leaves
  <2> QED BY <1>1, <1>2, <1>4, <1>5, <2>1, PutKeeps
<1>6. CASE app[a].state = "pending_uninstall" /\ app' = [app EXCEPT ![a] = WithoutRecord(a)]
           /\ Put(a, Resting(flow[a].ip))
  <2> DEFINE entry == [state |-> "none", at |-> NoLocation, old |-> NoLocation]
  <2>1. WithoutRecord(a) = entry
    BY <1>6 DEF WithoutRecord
  <2>2. /\ entry.state = "none" /\ entry.at = NoLocation
        /\ entry \in [state : AppStates, at : Subdomains \cup {NoLocation}, old : Subdomains \cup {NoLocation}]
    BY DEF AppStates
  <2> HIDE DEF entry
  <2>3. RowsFit' /\ \A b \in Apps : b # a => app'[b] = app[b]
    BY <1>2, <1>6, <2>1, <2>2 DEF RowsFit
  <2> QED BY <1>1, <1>2, <1>4, <1>6, <2>3, EndKeeps
<1>7. CASE app[a].state # "pending_uninstall" /\ app' = [app EXCEPT ![a] = WithoutRecord(a)]
           /\ Put(a, [Resting(ip) EXCEPT !.step = "get"])
  <2> DEFINE r == [Resting(ip) EXCEPT !.step = "get"]
  <2>1. app' = app
    BY <1>2, <1>7 DEF WithoutRecord, RowsFit
  <2>2. "get" \in DnsSteps \ {"put"}
    BY DEF DnsSteps
  <2>3. r \in FlowSet /\ r.step = "get" /\ FlowFits(a, r, spf, backend, Len(zone'[Txt]))
    BY <1>2, <2>2, Rests
  <2> HIDE DEF r
  <2>4. Put(a, r) /\ RowsFit'
    BY <1>2, <1>7, <2>1 DEF r, RowsFit
  <2> QED BY <1>1, <1>2, <1>4, <2>1, <2>3, <2>4, PutKeeps
<1> QED BY <1>4, <1>5, <1>6, <1>7 DEF unregisterSubdomain

(* Failures, lost answers, and a new address. *)

(* An error meets a flow that is at work; one that refreshes an app is writing. *)
LEMMA AtWork ==
    ASSUME NEW spf \in BOOLEAN, DnsFits(spf), NEW f \in Flows, Asks(f)
    PROVE  flow[f].step # "idle" /\ (flow[f].apps => flow[f].todo # <<>>)
<1>1. FlowFits(f, flow[f], spf, backend, Len(zone[Txt]))
  BY FlowTyped
<1> QED BY <1>1 DEF FlowFits, PutFits, Asks, At

LEMMA FailsKeeps ==
    ASSUME NEW spf \in BOOLEAN, DnsFits(spf), NEW f \in Flows, Fails(f)
    PROVE  DnsFits(spf)'
<1>1. Asks(f) /\ AfterError(f) /\ UNCHANGED <<backend, zone, ip>>
  BY DEF Fails
<1> QED BY <1>1, AtWork, NothingWritten, AfterErrorKeeps

LEMMA AnswerLostKeeps ==
    ASSUME NEW spf \in BOOLEAN, DnsFits(spf), NEW f \in Flows, AnswerLost(f)
    PROVE  DnsFits(spf)'
<1>1. Asks(f) /\ AfterError(f) /\ UNCHANGED <<backend, ip>>
  BY DEF AnswerLost, Asks, At
<1>2. ZoneFits(spf)' /\ (backend = "records" => Len(zone[Txt]) <= Len(zone'[Txt]))
  <2>1. CASE flow[f].todo # <<>> /\ backend \in Replacing /\ ReplaceRecords(f)
    BY <2>1, ReplaceWrites DEF Replacing
  <2>2. CASE At(f, "put") /\ Accepts(f) /\ PutOrPost(f)
    BY <2>2, OneWrites
  <2> QED BY <2>1, <2>2 DEF AnswerLost
<1> QED BY <1>1, <1>2, AtWork, AfterErrorKeeps

LEMMA RefusedKeeps ==
    ASSUME NEW spf \in BOOLEAN, DnsFits(spf), NEW f \in Flows, Refused(f)
    PROVE  DnsFits(spf)'
<1>1. Asks(f) /\ AfterError(f) /\ UNCHANGED <<backend, zone, ip>>
  BY DEF Refused, Asks, At
<1> QED BY <1>1, AtWork, NothingWritten, AfterErrorKeeps

LEMMA NewAddressKeeps ==
    ASSUME NEW spf \in BOOLEAN, DnsFits(spf), NewAddress
    PROVE  DnsFits(spf)'
<1>1. ip' \in Ips /\ UNCHANGED <<backend, zone, app, flow>>
  BY DEF NewAddress
<1> QED BY <1>1 DEF DnsFits, ZoneFits, RowsFit, FlowsFit, DnsTasksFit, Leaves

LEMMA DnsUnchanged ==
    ASSUME NEW spf \in BOOLEAN, DnsFits(spf), UNCHANGED dnsVars
    PROVE  DnsFits(spf)'
BY DEF dnsVars, DnsFits, ZoneFits, RowsFit, FlowsFit, DnsTasksFit, Leaves

LEMMA DnsInitFits == DnsInit => DnsInv
<1> SUFFICES ASSUME DnsInit PROVE DnsInv
  OBVIOUS
<1>1. /\ ip \in Ips /\ app = [a \in Apps |-> [state |-> "none", at |-> NoLocation, old |-> NoLocation]]
      /\ flow = [f \in Flows |-> Resting(ip)] /\ backend \in Replacing \cup {"records", "none"}
  BY DnsAssumption DEF DnsInit, DnsAssumption
<1>2. RowsFit
  BY <1>1 DEF RowsFit, AppStates
<1>3. \A spf \in BOOLEAN : FlowsFit(spf)
  BY <1>1, AtRest DEF FlowsFit
<1>4. DnsTasksFit
  <2>1. \A a \in Apps : flow[a].step = "idle"
    BY <1>1, DnsNames DEF Resting
  <2> QED BY <2>1 DEF DnsTasksFit
<1>5. PICK txt \in {<<TheirText>>, <<TheirSpf, TheirText>>} :
        zone = [k \in Keys |-> CASE k = Txt -> txt [] k \in UserHas -> <<Theirs>> [] OTHER -> <<>>]
  BY DEF DnsInit
<1>6. PICK spf \in BOOLEAN : TextFits(txt, spf) /\ Len(txt) <= 2
  <2> DEFINE one == <<TheirText>>  two == <<TheirSpf, TheirText>>
  <2>1. one \in Seq(Texts) /\ Len(one) = 1 /\ one[1] = TheirText
    BY DEF Texts
  <2>2. two \in Seq(Texts) /\ Len(two) = 2 /\ two[1] = TheirSpf /\ two[2] = TheirText
    BY DEF Texts
  <2> HIDE DEF one, two
  <2>3. CASE txt = one
    <3>1. TextFits(txt, FALSE) /\ Len(txt) <= 2
      BY <2>1, <2>3 DEF TextFits
    <3>2. FALSE \in BOOLEAN
      OBVIOUS
    <3> QED BY <3>1, <3>2, Zenon
  <2>4. CASE txt = two
    <3>1. TextFits(txt, TRUE) /\ Len(txt) <= 2
      <4>1. txt \in Seq(Texts) /\ Len(txt) = 2 /\ txt[1] = TheirSpf /\ txt[2] = TheirText
        BY <2>2, <2>4
      <4> QED BY <4>1 DEF TextFits
    <3>2. TRUE \in BOOLEAN
      OBVIOUS
    <3> QED BY <3>1, <3>2, Zenon
  <2>5. txt = one \/ txt = two
    BY DEF one, two
  <2> QED BY <2>3, <2>4, <2>5
<1>7. ZoneFits(spf)
  <2> DEFINE theirs == <<Theirs>>  nothing == <<>>
  <2>1. Theirs \in RecordSet /\ Theirs \in Addresses /\ MaxRecords \in Nat /\ MaxRecords > 1
    BY DnsNames DEF RecordSet, Addresses
  <2>2. theirs \in Seq(RecordSet) /\ Len(theirs) = 1 /\ theirs[1] = Theirs
    BY <2>1
  <2>3. nothing \in Seq(RecordSet) /\ Len(nothing) = 0 /\ \A i \in 1..Len(nothing) : FALSE
    OBVIOUS
  <2>4. txt \in Seq(RecordSet) /\ Len(txt) \in Nat /\ \A i \in 1..Len(txt) : txt[i] \in Texts
    BY <1>6, DnsNames DEF TextFits
  <2>5. zone = [k \in Keys |-> CASE k = Txt -> txt [] k \in UserHas -> theirs [] OTHER -> nothing]
    BY <1>5
  <2> HIDE DEF theirs, nothing
  <2>6. \A k \in Keys : \/ k = Txt /\ zone[k] = txt
                        \/ k # Txt /\ (zone[k] = theirs \/ zone[k] = nothing)
    <3>1. ASSUME NEW k \in Keys
          PROVE  zone[k] = CASE k = Txt -> txt [] k \in UserHas -> theirs [] OTHER -> nothing
      BY <2>5, Zenon
    <3>2. ASSUME NEW k \in Keys
          PROVE  \/ k = Txt /\ zone[k] = txt
                 \/ k # Txt /\ (zone[k] = theirs \/ zone[k] = nothing)
      <4>1. CASE k = Txt
        <5>1. Txt \notin UserHas
          BY DnsAssumption DEF DnsAssumption
        <5> QED BY <3>1, <4>1, <5>1
      <4>2. CASE k # Txt
        BY <3>1, <4>2
      <4> QED BY <4>1, <4>2
    <3> QED BY <3>2
  <2>7. KindFits(Txt, txt)
    BY <1>6, <2>1, <2>4 DEF KindFits, Kind
  <2>8. \A k \in Keys : k # Txt => KindFits(k, theirs) /\ KindFits(k, nothing)
    BY <2>1, <2>2, <2>3 DEF KindFits, Kind
  <2>9. \A k \in Keys : KindFits(k, zone[k])
    BY <2>6, <2>7, <2>8
  <2>10. zone \in [Keys -> Seq(RecordSet)]
    BY <2>2, <2>3, <2>4, <2>5
  <2> QED BY <1>6, <2>6, <2>9, <2>10, DnsNames DEF ZoneFits
<1> QED BY <1>1, <1>2, <1>3, <1>4, <1>7 DEF DnsInv, DnsFits

LEMMA DnsNextKeeps ==
    ASSUME NEW spf \in BOOLEAN, DnsFits(spf), [DnsNext]_dnsVars
    PROVE  DnsFits(spf)'
<1>1. CASE SystemStep
  BY <1>1, ConfigureWebadminKeeps, WebadminWrittenKeeps, DnsConfigSetKeeps, RefreshDNSKeeps,
     RefreshAppsKeeps, RefreshAppKeeps, RefreshEndsKeeps DEF SystemStep
<1>2. CASE Command
  BY <1>2, SetDnsConfigKeeps, NewAddressKeeps, UninstallKeeps, InstallAppKeeps, ConfigureAppKeeps DEF Command
<1>3. CASE \E a \in Apps : TaskStep(a)
  BY <1>3, BeginTaskKeeps, RegisterKeeps, WaitForDnsKeeps, UnregisterKeeps DEF TaskStep
<1>4. CASE \E f \in Flows : FlowStep(f) \/ Fails(f) \/ AnswerLost(f)
  BY <1>4, UpsertKeeps, ReadTxtKeeps, RefusedKeeps, FailsKeeps, AnswerLostKeeps DEF FlowStep
<1>5. CASE UNCHANGED dnsVars
  BY <1>5, DnsUnchanged
<1> QED BY <1>1, <1>2, <1>3, <1>4, <1>5 DEF DnsNext

(* The invariant: the zone, what the flows are to write to it, and the rows fit. *)
THEOREM DnsInvariance == DnsSpec => []DnsInv
<1>1. DnsInv /\ [DnsNext]_dnsVars => DnsInv'
  BY DnsNextKeeps DEF DnsInv
<1> QED BY <1>1, DnsInitFits, PTL DEF DnsSpec

(***************************************************************************)
(* Every record is of its kind, no name has more than the backend accepts, *)
(* and an app has a location exactly while it exists (the backends of      *)
(* src/src/dns, and the rows of appdb.js).                                 *)
(***************************************************************************)
THEOREM DnsTypeCorrect == DnsSpec => []DnsTypeOK
<1>1. DnsInv => DnsTypeOK
  <2> SUFFICES ASSUME NEW spf \in BOOLEAN, DnsFits(spf)
               PROVE  DnsTypeOK
    BY DEF DnsInv
  <2>1. ASSUME NEW k \in Keys
        PROVE  /\ Len(zone[k]) <= MaxRecords
               /\ \A i \in DOMAIN zone[k] :
                    zone[k][i] \in {Deleted} \cup (IF k = Txt THEN Texts ELSE Addresses)
    <3>1. KindFits(k, zone[k])
      BY DEF DnsFits, ZoneFits
    <3>2. DOMAIN zone[k] = 1..Len(zone[k])
      BY <3>1 DEF KindFits
    <3> QED BY <3>1, <3>2 DEF KindFits, Kind
  <2>2. ASSUME NEW a \in Apps
        PROVE  /\ app[a].state \in {"none", "pending_install", "pending_configure", "pending_uninstall",
                                    "installed", "error"}
               /\ app[a].at = NoLocation <=> app[a].state = "none"
    BY DEF DnsFits, RowsFit, AppStates
  <2> QED BY <2>1, <2>2 DEF DnsTypeOK
<1> QED BY <1>1, DnsInvariance, PTL

(* The records of the user are there at any time. *)
LEMMA TextsThere ==
    ASSUME NEW spf \in BOOLEAN, NEW txt, TextFits(txt, spf)
    PROVE  /\ Has(txt, TheirText)
           /\ Has(txt, TheirSpf) \/ Has(txt, BothSpf) <=> spf
<1>1. txt \in Seq(Texts) /\ DOMAIN txt = 1..Len(txt) /\ Len(txt) \in Nat
  BY DEF TextFits
<1>2. CASE spf
  BY <1>1, <1>2 DEF TextFits, Has
<1>3. CASE ~spf
  <2>1. 1 \in 1..Len(txt) /\ txt[1] = TheirText /\ \A i \in 1..Len(txt) : txt[i] \in {TheirText, OurSpf}
    BY <1>1, <1>3 DEF TextFits
  <2>2. {TheirText, OurSpf} \cap {TheirSpf, BothSpf} = {}
    BY DEF TheirText, TheirSpf, OurSpf, BothSpf
  <2> QED BY <1>1, <1>3, <2>1, <2>2 DEF Has
<1> QED BY <1>2, <1>3

(***************************************************************************)
(* No step loses a TXT record of the user, nor his SPF record, whatever    *)
(* writers, failures and lost answers come together (addDnsRecords of      *)
(* cloudron.js, with any of the backends of src/src/dns).                  *)
(***************************************************************************)
THEOREM TextsCorrect == DnsSpec => UserTextsKept
<1>1. DnsInv /\ [DnsNext]_dnsVars =>
        [/\ Has(zone[Txt], TheirText) => Has(zone'[Txt], TheirText)
         /\ Has(zone[Txt], TheirSpf) \/ Has(zone[Txt], BothSpf)
              => Has(zone'[Txt], TheirSpf) \/ Has(zone'[Txt], BothSpf)]_zone
  <2> SUFFICES ASSUME NEW spf \in BOOLEAN, DnsFits(spf), [DnsNext]_dnsVars
               PROVE  /\ Has(zone'[Txt], TheirText)
                      /\ Has(zone[Txt], TheirSpf) \/ Has(zone[Txt], BothSpf)
                           => Has(zone'[Txt], TheirSpf) \/ Has(zone'[Txt], BothSpf)
    BY DEF DnsInv
  <2>1. TextFits(zone[Txt], spf) /\ TextFits(zone'[Txt], spf)
    BY DnsNextKeeps DEF DnsFits, ZoneFits
  <2> QED BY <2>1, TextsThere
<1> QED BY <1>1, DnsInvariance, PTL DEF DnsSpec, UserTextsKept
=============================================================================
