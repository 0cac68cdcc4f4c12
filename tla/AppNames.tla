------------------------------ MODULE AppNames ------------------------------
(***************************************************************************)
(* What an app owns by name: its location, its host ports, its mailbox and *)
(* the DNS record of its location.  The first three are rows of the        *)
(* database, taken and given back by the commands of src/src/apps.js       *)
(* through src/src/appdb.js and src/src/mailboxdb.js; the record is made   *)
(* and removed by the app's task (src/src/apptask.js).                     *)
(*                                                                         *)
(* A request reads the app, renames its mailbox and sets its command in    *)
(* three steps with the event loop in between; other requests and the      *)
(* tasks run between them.  Of the task manager only this is kept: an app  *)
(* has at most one task, the callback of an accepted command kills and     *)
(* starts it again, and so does a restart of the box (TaskManager).        *)
(***************************************************************************)
EXTENDS Box, Naturals, Sequences

CONSTANTS
    Locations,     \* subdomains
    Bare,          \* the location of the naked domain, ''
    Title,         \* Title[a]: the mailbox name, from its title, of an app at Bare
    Ports,         \* host ports
    Requests,      \* HTTP requests at work at once
    CustomDomain,  \* config.isCustomDomain()
    Foreign,       \* the locations with a DNS record the box did not make
    Commands,      \* the commands users give in this instance
    MaxCommands,   \* bound: requests
    MaxRestarts,   \* bound: restarts of the box
    None           \* nobody, nowhere, nothing said

PENDING_INSTALL      == "pending_install"   \* and pending_clone, its twin
PENDING_CONFIGURE    == "pending_configure"
PENDING_UPDATE       == "pending_update"
PENDING_FORCE_UPDATE == "pending_force_update"
PENDING_RESTORE      == "pending_restore"
PENDING_UNINSTALL    == "pending_uninstall"

PendingStates == {PENDING_INSTALL, PENDING_CONFIGURE, PENDING_UPDATE, PENDING_FORCE_UPDATE,
                  PENDING_RESTORE, PENDING_UNINSTALL}

ASSUME AppNamesAssumption ==
    /\ Bare \in Locations
    /\ Title \in [Apps -> Locations \ {Bare}]
    /\ CustomDomain \in BOOLEAN
    /\ Foreign \subseteq Locations
    /\ Commands \subseteq PendingStates
    /\ MaxCommands \in Nat
    /\ MaxRestarts \in Nat
    /\ None \notin Apps \cup Locations

VARIABLES
    row,       \* row[a]: the app's row in the database
    ports,     \* ports[p]: the app that has host port p
    mailbox,   \* mailbox[n]: the app that owns the mailbox n.app
    dns,       \* dns[l]: who made the A record of location l
    request,   \* request[r]: how far a request is
    task,      \* task[a]: the app's task
    commands,  \* requests so far
    restarts   \* restarts so far

dbVars == <<row, ports, mailbox>>
vars == <<dbVars, dns, request, task, commands, restarts>>

NoRow == [istate |-> "none", location |-> None, oldLocation |-> None]
Gone == [NoRow EXCEPT !.istate = "gone"]
HasRow(a) == row[a].istate \notin {"none", "gone"}

Idle == [step |-> "idle", cmd |-> "none", app |-> None, location |-> None,
         ports |-> None, read |-> None]

Steps == {"idle", "rename", "set", "mark", "accepted", "bad state", "conflict", "not found"}

NoTask == [state |-> "none", cmd |-> "none", location |-> None, oldLocation |-> None,
           todo |-> <<>>]
Due == [NoTask EXCEPT !.state = "due"]

\* The name of the mailbox of an app, without the ".app" all of them end in.
MailName(a, l) == IF l = Bare THEN Title[a] ELSE l

LocationFree(a, l) == \A b \in Apps \ {a} : row[b].location # l
PortsFree(a, P) == \A p \in P : ports[p] \in {a, None}

\* The ports after those of app a were replaced by P.
PortsAfter(a, P) ==
    [p \in Ports |-> IF p \in P THEN a ELSE IF ports[p] = a THEN None ELSE ports[p]]

Init ==
    /\ row = [a \in Apps |-> NoRow]
    /\ ports = [p \in Ports |-> None]
    /\ mailbox = [n \in Locations |-> None]
    /\ dns = [l \in Locations |-> IF l \in Foreign THEN "foreign" ELSE "none"]
    /\ request = [r \in Requests |-> Idle]
    /\ task = [a \in Apps |-> NoTask]
    /\ commands = 0
    /\ restarts = 0

-----------------------------------------------------------------------------
\* appdb.add is one transaction: the row, the ports and the mailbox, or nothing.
Install(r, a, l, P) ==
    /\ request[r] = Idle
    /\ commands < MaxCommands
    /\ row[a] = NoRow
    /\ LocationFree(a, l) /\ PortsFree(a, P) /\ mailbox[MailName(a, l)] = None
    /\ row' = [row EXCEPT ![a] = [istate |-> PENDING_INSTALL, location |-> l, oldLocation |-> None]]
    /\ ports' = PortsAfter(a, P)
    /\ mailbox' = [mailbox EXCEPT ![MailName(a, l)] = a]
    /\ request' = [request EXCEPT ![r] = [Idle EXCEPT !.step = "accepted", !.app = a,
                                                      !.cmd = PENDING_INSTALL]]
    /\ commands' = commands + 1
    /\ UNCHANGED <<dns, task, restarts>>

\* configure, update and restore begin with appdb.get.  What a request does not
\* mention, location l or ports P, is None.
ReadApp(r, a, c, l, P) ==
    /\ request[r] = Idle
    /\ commands < MaxCommands
    /\ HasRow(a)
    /\ c # PENDING_CONFIGURE => l = None
    /\ c = PENDING_RESTORE => P = None
    /\ request' = [request EXCEPT ![r] =
                     [step |-> IF c = PENDING_CONFIGURE THEN "rename" ELSE "set",
                      cmd |-> c, app |-> a, location |-> l, ports |-> P,
                      read |-> row[a].location]]
    /\ commands' = commands + 1
    /\ UNCHANGED <<dbVars, dns, task, restarts>>

Answer(r, step) == request' = [request EXCEPT ![r].step = step]

\* mailboxdb.updateName, by name and whoever owns it.
RenameMailbox(r) ==
    LET q == request[r]
        old == MailName(q.app, q.read)
        new == IF q.location = None THEN old ELSE MailName(q.app, q.location)
    IN  /\ q.step = "rename"
        /\ \/ old = new /\ Answer(r, "set") /\ UNCHANGED mailbox
           \/ /\ old # new /\ mailbox[old] = None
              /\ Answer(r, "bad state") /\ UNCHANGED mailbox
           \/ /\ old # new /\ mailbox[old] # None /\ mailbox[new] # None
              /\ Answer(r, "conflict") /\ UNCHANGED mailbox
           \/ /\ old # new /\ mailbox[old] # None /\ mailbox[new] = None
              /\ mailbox' = [mailbox EXCEPT ![new] = mailbox[old], ![old] = None]
              /\ Answer(r, "set")
        /\ UNCHANGED <<row, ports, dns, task, commands, restarts>>

Allowed(a, c) ==
    CASE c = PENDING_FORCE_UPDATE -> HasRow(a)
      [] c = PENDING_RESTORE      -> row[a].istate \in {"installed", "error"}
      [] c = PENDING_UPDATE       -> row[a].istate = "installed"
      [] c = PENDING_CONFIGURE    -> row[a].istate \in {"installed", PENDING_CONFIGURE, "error"}

\* setInstallationCommand: one transaction, which replaces the ports first.  A
\* port or a location that is taken rolls it back; an UPDATE that finds no row in
\* the right state does not.
SetCommand(r) ==
    LET q == request[r]
        a == q.app
        allowed == Allowed(a, q.cmd)
        moves == q.location # None
    IN  /\ q.step = "set"
        /\ \/ /\ ~HasRow(a)
              /\ Answer(r, "not found") /\ UNCHANGED dbVars
           \/ /\ HasRow(a)
              /\ \/ q.ports # None /\ ~PortsFree(a, q.ports)
                 \/ allowed /\ moves /\ ~LocationFree(a, q.location)
              /\ Answer(r, "conflict") /\ UNCHANGED dbVars
           \/ /\ HasRow(a)
              /\ q.ports # None => PortsFree(a, q.ports)
              /\ allowed /\ moves => LocationFree(a, q.location)
              /\ ports' = IF q.ports = None THEN ports ELSE PortsAfter(a, q.ports)
              /\ IF allowed
                 THEN /\ row' = [row EXCEPT ![a] =
                                   [istate |-> q.cmd,
                                    location |-> IF moves THEN q.location ELSE @.location,
                                    oldLocation |-> q.read]]
                      /\ Answer(r, "accepted")
                 ELSE Answer(r, "bad state") /\ UNCHANGED row
              /\ UNCHANGED mailbox
        /\ UNCHANGED <<dns, task, commands, restarts>>

\* An uninstall stops the task before it marks the row, in any state.
StopForUninstall(r, a) ==
    /\ request[r] = Idle
    /\ commands < MaxCommands
    /\ HasRow(a)
    /\ task' = [task EXCEPT ![a] = NoTask]
    /\ request' = [request EXCEPT ![r] = [Idle EXCEPT !.step = "mark", !.app = a,
                                                      !.cmd = PENDING_UNINSTALL]]
    /\ commands' = commands + 1
    /\ UNCHANGED <<dbVars, dns, restarts>>

MarkUninstall(r) ==
    LET a == request[r].app
    IN  /\ request[r].step = "mark"
        /\ IF HasRow(a)
           THEN row' = [row EXCEPT ![a].istate = PENDING_UNINSTALL] /\ Answer(r, "accepted")
           ELSE Answer(r, "not found") /\ UNCHANGED row
        /\ UNCHANGED <<ports, mailbox, dns, task, commands, restarts>>

\* The answer, and restartAppTask for what was accepted; an uninstall only starts
\* a task where there is none.
Callback(r) ==
    LET a == request[r].app
    IN  /\ request[r].step \in {"accepted", "bad state", "conflict", "not found"}
        /\ request' = [request EXCEPT ![r] = Idle]
        /\ task' = IF /\ request[r].step = "accepted"
                      /\ request[r].cmd = PENDING_UNINSTALL => task[a] = NoTask
                   THEN [task EXCEPT ![a] = Due] ELSE task
        /\ UNCHANGED <<dbVars, dns, commands, restarts>>

-----------------------------------------------------------------------------
(***************************************************************************)
(* The task: what its program does to DNS and to the row.                  *)
(***************************************************************************)
Reconfigure(q) ==
    IF q.oldLocation \in {None, q.location} THEN <<"register", "done">>
    ELSE <<"unregister old", "register", "done">>

\* Mutant: the row is removed before the record.
ProgramRowFirst(q) ==
    CASE q.istate \in {PENDING_INSTALL, PENDING_RESTORE}     -> <<"register", "done">>
      [] q.istate = PENDING_CONFIGURE                        -> Reconfigure(q)
      [] q.istate \in {PENDING_UPDATE, PENDING_FORCE_UPDATE} -> <<"done">>
      [] q.istate = PENDING_UNINSTALL                        -> <<"remove", "unregister">>
      [] OTHER                                               -> <<>>

Program(q) ==
    CASE q.istate \in {PENDING_INSTALL, PENDING_RESTORE}     -> <<"register", "done">>
      [] q.istate = PENDING_CONFIGURE                        -> Reconfigure(q)
      [] q.istate \in {PENDING_UPDATE, PENDING_FORCE_UPDATE} -> <<"done">>
      [] q.istate = PENDING_UNINSTALL                        -> <<"unregister", "remove">>
      [] OTHER                                               -> <<>>

Load(a) ==
    /\ task[a] = Due
    /\ LET todo == Program(row[a])
       IN  task' = [task EXCEPT ![a] =
                      IF todo = <<>> THEN NoTask
                      ELSE [state |-> "working", cmd |-> row[a].istate, location |-> row[a].location,
                            oldLocation |-> row[a].oldLocation, todo |-> todo]]
    /\ UNCHANGED <<dbVars, dns, request, commands, restarts>>

\* What a task at work may have left to do.
Todos == {<<"unregister old", "register", "done">>, <<"register", "done">>, <<"done">>,
          <<"already exists">>, <<"unregister", "remove">>, <<"remove">>}

NextIs(a, step) == task[a].todo # <<>> /\ Head(task[a].todo) = step
Advance(a) ==
    IF Len(task[a].todo) = 1 THEN task' = [task EXCEPT ![a] = NoTask]
    ELSE task' = [task EXCEPT ![a].todo = Tail(@)]

\* "refuse to update any existing DNS record for custom domains that we did not
\* create": any record counts, unless the task may overwrite.
RegisterSubdomain(a) ==
    LET l == task[a].location
        overwrite == task[a].cmd # PENDING_INSTALL
    IN  /\ NextIs(a, "register")
        /\ IF CustomDomain /\ dns[l] # "none" /\ ~overwrite
           THEN task' = [task EXCEPT ![a].todo = <<"already exists">>] /\ UNCHANGED dns
           ELSE dns' = [dns EXCEPT ![l] = "ours"] /\ Advance(a)
        /\ UNCHANGED <<dbVars, request, commands, restarts>>

\* A record is removed when it has the box's address, whoever needs it now.
UnregisterSubdomain(a) ==
    /\ \E step \in {"unregister", "unregister old"} :
         /\ NextIs(a, step)
         /\ LET l == IF step = "unregister" THEN task[a].location ELSE task[a].oldLocation
            IN  dns' = [dns EXCEPT ![l] = IF @ = "ours" /\ (CustomDomain \/ l # Bare)
                                          THEN "none" ELSE @]
    /\ Advance(a)
    /\ UNCHANGED <<dbVars, request, commands, restarts>>

Done(a) ==
    /\ NextIs(a, "done")
    /\ row' = [row EXCEPT ![a].istate = "installed"]
    /\ Advance(a)
    /\ UNCHANGED <<ports, mailbox, dns, request, commands, restarts>>

\* Mutant: the row is only marked.
RemoveMarksRow(a) ==
    /\ NextIs(a, "remove")
    /\ row' = [row EXCEPT ![a].istate = "gone"]
    /\ ports' = PortsAfter(a, {})
    /\ mailbox' = [n \in Locations |-> IF mailbox[n] = a THEN None ELSE mailbox[n]]
    /\ Advance(a)
    /\ UNCHANGED <<dns, request, commands, restarts>>

\* Mutant: the mailboxes stay.
RemoveRowOnly(a) ==
    /\ NextIs(a, "remove")
    /\ row' = [row EXCEPT ![a] = Gone]
    /\ ports' = PortsAfter(a, {})
    /\ Advance(a)
    /\ UNCHANGED <<mailbox, dns, request, commands, restarts>>

\* appdb.del: the mailboxes, the ports and the row, in one transaction.
RemoveRow(a) ==
    /\ NextIs(a, "remove")
    /\ row' = [row EXCEPT ![a] = Gone]
    /\ ports' = PortsAfter(a, {})
    /\ mailbox' = [n \in Locations |-> IF mailbox[n] = a THEN None ELSE mailbox[n]]
    /\ Advance(a)
    /\ UNCHANGED <<dns, request, commands, restarts>>

\* Any step may fail, and the task ends in error; so does one that crashes.
Fail(a) ==
    /\ task[a].todo # <<>>
    /\ row' = [row EXCEPT ![a].istate = "error"]
    /\ task' = [task EXCEPT ![a] = NoTask]
    /\ UNCHANGED <<ports, mailbox, dns, request, commands, restarts>>

\* A restart of the box: requests and tasks are gone, and the apps that are not
\* settled are resumed.  After an infrastructure update every app is configured,
\* and after a restore of the box restored, with its old configuration forgotten.
Restart(infra) ==
    /\ restarts < MaxRestarts
    /\ restarts' = restarts + 1
    /\ request' = [r \in Requests |-> Idle]
    /\ row' = [a \in Apps |-> IF infra \in Commands /\ HasRow(a) /\ Allowed(a, infra)
                              THEN [row[a] EXCEPT !.istate = infra, !.oldLocation = None] ELSE row[a]]
    /\ task' = [a \in Apps |-> IF row'[a].istate \in PendingStates THEN Due ELSE NoTask]
    /\ UNCHANGED <<ports, mailbox, dns, commands>>

Next ==
    \/ \E r \in Requests :
         \/ \E a \in Apps, P \in SUBSET Ports, l \in Locations : Install(r, a, l, P)
         \/ \E a \in Apps, c \in Commands \ {PENDING_INSTALL, PENDING_UNINSTALL} :
              \E l \in Locations \cup {None}, P \in {None} \cup SUBSET Ports : ReadApp(r, a, c, l, P)
         \/ RenameMailbox(r)
         \/ SetCommand(r)
         \/ PENDING_UNINSTALL \in Commands /\ \E a \in Apps : StopForUninstall(r, a)
         \/ MarkUninstall(r)
         \/ Callback(r)
    \/ \E a \in Apps :
         \/ Load(a)
         \/ RegisterSubdomain(a)
         \/ UnregisterSubdomain(a)
         \/ Done(a)
         \/ RemoveRow(a)
         \/ Fail(a)
    \/ \E infra \in {"no", PENDING_CONFIGURE, PENDING_RESTORE} : Restart(infra)

Spec == Init /\ [][Next]_vars

-----------------------------------------------------------------------------
\* Every variable holds a value the code can give it.
TypeOK ==
    /\ row \in [Apps -> [istate : PendingStates \cup {"none", "gone", "installed", "error"},
                         location : Locations \cup {None}, oldLocation : Locations \cup {None}]]
    /\ \A a \in Apps : HasRow(a) <=> row[a].location # None
    /\ ports \in [Ports -> Apps \cup {None}]
    /\ mailbox \in [Locations -> Apps \cup {None}]
    /\ dns \in [Locations -> {"none", "ours", "foreign"}]
    /\ request \in [Requests -> [step : Steps, cmd : PendingStates \cup {"none"},
                                 app : Apps \cup {None}, location : Locations \cup {None},
                                 ports : {None} \cup SUBSET Ports, read : Locations \cup {None}]]
    /\ \A a \in Apps : task[a] = NoTask \/ task[a] = Due \/ task[a].todo \in Todos
    /\ commands \in 0 .. MaxCommands
    /\ restarts \in 0 .. MaxRestarts

(***************************************************************************)
(* Every app owns exactly one mailbox for its mail, and mailboxes and      *)
(* ports belong to apps that exist: renames by name, refused commands,     *)
(* concurrent requests and removals never lose one, hand one to a second   *)
(* app or leave one behind.                                                *)
(***************************************************************************)
EveryAppHasItsMailbox ==
    /\ \A a \in Apps : HasRow(a) => \E n \in Locations : mailbox[n] = a
    /\ \A n, m \in Locations : mailbox[n] = mailbox[m] /\ mailbox[n] # None => n = m
    /\ \A n \in Locations : mailbox[n] # None => HasRow(mailbox[n])
    /\ \A p \in Ports : ports[p] # None => HasRow(ports[p])

(***************************************************************************)
(* A task is at work only on an app that has a row, so that none writes a  *)
(* state to, or makes a record for, an app that was removed: the row goes  *)
(* last, and nobody else removes it.                                       *)
(***************************************************************************)
TasksHaveRows == \A a \in Apps : task[a].todo # <<>> => HasRow(a)

-----------------------------------------------------------------------------
(***************************************************************************)
(* What the code says of itself and does not do; each of these fails.      *)
(***************************************************************************)

\* "configure is allowed in installed state or currently configuring or in error
\* state": in these it is not refused as a bad state.
ConfigureAllowed ==
    [][\A r \in Requests :
          /\ request[r].cmd = PENDING_CONFIGURE
          /\ request[r].step # "bad state" /\ request'[r].step = "bad state"
          => ~Allowed(request[r].app, PENDING_CONFIGURE)]_vars

\* "update and backup are allowed only in installed state": the ports of an app
\* change only with a command that is accepted, and leaves its state there.
PortsChangeByCommand ==
    [][\A p \in Ports, a \in Apps :
          (ports[p] = a) # (ports'[p] = a) => row'[a].istate \in PendingStates \cup {"gone"}]_vars

\* The box refuses only records "that we did not create".
RefusesOnlyForeign ==
    \A a \in Apps : task[a].todo = <<"already exists">> => dns[task[a].location] # "ours"

\* "register subdomain. at this point, the user can visit the site": the record of
\* an app that is installed at a location is not removed.
RecordsInUseStay ==
    [][\A a \in Apps, l \in Locations :
          row[a].istate = "installed" /\ row[a].location = l /\ dns[l] # "none" => dns'[l] # "none"]_vars
=============================================================================
