------------------------------ MODULE Platform ------------------------------
(***************************************************************************)
(* The start of the box and the containers it stands on: the addons and    *)
(* the mail server (src/src/platform.js), the apps that have to be made    *)
(* again when those are replaced, the settings that the mail server and    *)
(* the jobs of cron follow (src/src/settings.js, src/src/cron.js), and the *)
(* order in which cloudron.js, server.js and box.js start and stop them.   *)
(*                                                                         *)
(* A file says which containers were made last.  When it differs from what *)
(* the box brings along, they are removed, made again, the apps are marked *)
(* and the file is written; the box may stop before each of these steps    *)
(* and comes back with what it finds.                                      *)
(***************************************************************************)
EXTENDS Box, Naturals, FiniteSets

CONSTANTS
    Slots,         \* names of the restarts of the mail server by an event: a bound of them
    MaxRestarts,   \* bound: crashes and stops of the box
    MaxUpdates,    \* bound: updates of the box that bring other containers
    MaxFailures,   \* bound: requests and tasks that fail
    MaxCommands,   \* bound: commands for an app
    MaxChanges     \* bound: changes of a setting

ASSUME PlatformAssumption ==
    /\ IsFiniteSet(Apps) /\ IsFiniteSet(Slots) /\ "start" \notin Slots
    /\ {MaxRestarts, MaxUpdates, MaxFailures, MaxCommands, MaxChanges} \subseteq Nat

VARIABLES
    domain,    \* the box has its domain
    infra,     \* what the file of containers says: [differs, changed]
    running,   \* addon containers that exist, the mail server apart
    mail,      \* the mail server: what it was started with, or NoMail
    relayFile, \* the relay in its configuration file
    stored,    \* the settings
    row,       \* row[a]: the installation state of an app
    container, \* container[a]: an app has its container
    forgotten, \* apps that lost their container and could not be marked: a backup was due
    at,        \* where the start of the box is
    up,        \* requests are taken
    todo,      \* addons it has yet to start
    marking,   \* apps it has yet to mark
    stopping,  \* the box was told to stop
    timer,     \* the platform is up and has time to settle
    ready,     \* app tasks are started
    task,      \* task[a]: where the task of an app is
    mailStart, \* mailStart[s]: how far a start of the mail server is
    calls,     \* settings that were stored and not announced yet
    jobs,      \* the jobs of cron
    count      \* how often each of the bounded things happened

process == <<at, up, todo, marking, stopping, timer, ready, task, mailStart, calls, jobs>>
disk == <<domain, infra, running, mail, relayFile, stored, row, container, forgotten>>
vars == <<disk, process, count>>

Databases == {"graphite", "mysql", "postgresql", "mongodb"}
Addons == Databases \cup {"mail"}
NoMail == [enabled |-> 2, relay |-> 2]

\* How the file differs from the containers the box brings along.
Differences == {"none", "corrupt", "major", "minor", "images", "same"}
Same == [differs |-> "same", changed |-> {}]

\* Settings have two values; a 1 stands for enabled where they are flags.
Keys == {"mail", "relay", "catch_all", "time_zone", "pattern", "dynamic_dns"}
Values == {0, 1}

Restores == {"none", "corrupt", "major"}
Renews == Restores \cup {"minor"}

NoFlow == [step |-> "idle", runs |-> FALSE, enabled |-> 0, relay |-> 0]
NoJobs == [on |-> FALSE, zone |-> 0, pattern |-> 0, autozone |-> 0, refreshing |-> 0, handle |-> FALSE]

Zero == [restarts |-> 0, updates |-> 0, failures |-> 0, commands |-> 0, changes |-> 0]
Bound == [restarts |-> MaxRestarts, updates |-> MaxUpdates, failures |-> MaxFailures,
          commands |-> MaxCommands, changes |-> MaxChanges]
Count(what) == count[what] < Bound[what] /\ count' = [count EXCEPT ![what] = @ + 1]

\* A new server, with or without a domain; one whose data was restored from a backup,
\* whose apps have no containers; one in use.
Init ==
    /\ \/ /\ domain \in BOOLEAN /\ infra = [differs |-> "none", changed |-> {}]
          /\ running = {} /\ mail = NoMail
          /\ row \in [Apps -> IF domain THEN {"none", "installed"} ELSE {"none"}]
          /\ container = [a \in Apps |-> FALSE]
       \/ /\ domain = TRUE /\ infra = Same
          /\ running = Databases /\ mail = [enabled |-> 0, relay |-> 0]
          /\ row = [a \in Apps |-> "installed"]
          /\ container = [a \in Apps |-> TRUE]
    /\ relayFile = 0
    /\ stored = [k \in Keys |-> 0]
    /\ forgotten = {}
    /\ at = "off" /\ up = FALSE /\ todo = {} /\ marking = {} /\ stopping = FALSE
    /\ timer = FALSE /\ ready = FALSE
    /\ task = [a \in Apps |-> "none"]
    /\ mailStart = [s \in Slots \cup {"start"} |-> NoFlow]
    /\ calls = {}
    /\ jobs = NoJobs
    /\ count = Zero

-----------------------------------------------------------------------------
\* The box ends, and all its processes with it; systemd starts it again.

ProcessGone ==
    /\ at' = "off" /\ up' = FALSE /\ todo' = {} /\ marking' = {} /\ stopping' = FALSE
    /\ timer' = FALSE /\ ready' = FALSE
    /\ task' = [a \in Apps |-> "none"]
    /\ mailStart' = [s \in DOMAIN mailStart |-> NoFlow]
    /\ calls' = {}
    /\ jobs' = NoJobs

Crash ==
    /\ at # "off" /\ ~stopping
    /\ Count("restarts")
    /\ ProcessGone
    /\ UNCHANGED disk

\* Told to stop, it ends its jobs, does not wait for the platform to settle, and stops
\* the tasks; what it is at goes on until it exits, three seconds later.
Stop ==
    /\ at # "off" /\ ~stopping
    /\ Count("restarts")
    /\ stopping' = TRUE
    /\ jobs' = NoJobs
    /\ timer' = FALSE /\ ready' = FALSE
    /\ task' = [a \in Apps |-> "none"]
    /\ UNCHANGED <<disk, at, up, todo, marking, mailStart, calls>>

Exit ==
    /\ stopping
    /\ ProcessGone
    /\ UNCHANGED <<disk, count>>

\* While the box is down the installer puts another in its place: what the file says
\* differs from what that one brings in the versions, or in some of the images.
Newer ==
    CASE infra.differs \in Restores -> {infra}
      [] infra.differs = "minor" -> {[infra EXCEPT !.differs = d] : d \in {"minor", "major"}}
      [] OTHER -> {[differs |-> d, changed |-> {}] : d \in {"minor", "major"}}
                  \cup {[differs |-> "images", changed |-> infra.changed \cup c] :
                          c \in {{"mail"}, {"mysql"}, {"mail", "mysql"}}}

UpdateBox ==
    /\ at = "off"
    /\ Count("updates")
    /\ infra' \in Newer
    /\ UNCHANGED <<domain, running, mail, relayFile, stored, row, container, forgotten, process>>

-----------------------------------------------------------------------------
\* initialize, dnsSetup and onDomainConfigured of cloudron.js, start of platform.js.

\* Without a domain the box only listens.
Boot ==
    /\ at = "off"
    /\ at' = IF domain THEN "domain" ELSE "setup"
    /\ up' = ~domain
    /\ UNCHANGED <<disk, todo, marking, stopping, timer, ready, task, mailStart, calls, jobs, count>>

dnsSetup ==
    /\ at = "setup" /\ ~stopping
    /\ domain' = TRUE
    /\ at' = "domain"
    /\ UNCHANGED <<infra, running, mail, relayFile, stored, row, container, forgotten, up, todo,
                   marking, stopping, timer, ready, task, mailStart, calls, jobs, count>>

\* The file says what is there already: nothing to do.
PlatformUpToDate ==
    /\ at = "domain" /\ infra = Same
    /\ at' = "cron"
    /\ timer' = ~stopping
    /\ UNCHANGED <<disk, up, todo, marking, stopping, ready, task, mailStart, calls, jobs, count>>

changedAddons == IF infra.differs \in Renews THEN Addons ELSE infra.changed
Place == [graphite |-> 1, mysql |-> 2, postgresql |-> 3, mongodb |-> 4, mail |-> 5]
IsNext(addon) == addon \in todo /\ \A other \in todo : Place[addon] <= Place[other]

\* All containers, or those of the images that changed.
stopContainers ==
    /\ at = "domain" /\ infra # Same
    /\ at' = "addons"
    /\ todo' = changedAddons
    /\ running' = running \ changedAddons
    /\ mail' = IF "mail" \in changedAddons THEN NoMail ELSE mail
    /\ container' = IF infra.differs \in Renews THEN [a \in Apps |-> FALSE] ELSE container
    /\ UNCHANGED <<domain, infra, relayFile, stored, row, forgotten, up, marking, stopping, timer,
                   ready, task, mailStart, calls, jobs, count>>

\* A container of the name must not exist: docker refuses, and execSync throws.
startAddon(addon) ==
    /\ at = "addons" /\ IsNext(addon) /\ addon \notin running \cup {"mail"}
    /\ running' = running \cup {addon}
    /\ todo' = todo \ {addon}
    /\ UNCHANGED <<domain, infra, mail, relayFile, stored, row, container, forgotten, at, up, marking,
                   stopping, timer, ready, task, mailStart, calls, jobs, count>>

startMailAddon ==
    /\ at = "addons" /\ IsNext("mail")
    /\ at' = "mail"
    /\ todo' = todo \ {"mail"}
    /\ mailStart' = [mailStart EXCEPT !["start"] = [NoFlow EXCEPT !.step = "certificate", !.runs = TRUE]]
    /\ UNCHANGED <<disk, up, marking, stopping, timer, ready, task, calls, jobs, count>>

\* Apps are marked when all containers were removed.
startApps ==
    /\ at = "addons" /\ todo = {}
    /\ at' = "apps"
    /\ marking' = IF infra.differs \in Renews THEN {a \in Apps : row[a] # "none"} ELSE {}
    /\ UNCHANGED <<disk, up, todo, stopping, timer, ready, task, mailStart, calls, jobs, count>>

\* Which states each of the two commands is accepted in.
Restorable == {"installed", "error"}
Configurable == {"installed", "error", "pending_configure"}

Marked(a) ==
    IF infra.differs \in Restores
    THEN IF row[a] \in Restorable THEN "pending_restore" ELSE row[a]
    ELSE IF row[a] \in Configurable THEN "pending_configure" ELSE row[a]

\* An app that is not marked is only noted in the log.
setInstallationCommand(a) ==
    /\ at = "apps" /\ a \in marking
    /\ marking' = marking \ {a}
    /\ row' = [row EXCEPT ![a] = Marked(a)]
    /\ forgotten' = IF row[a] = "pending_backup" THEN forgotten \cup {a} ELSE forgotten
    /\ UNCHANGED <<domain, infra, running, mail, relayFile, stored, container, at, up, todo, stopping,
                   timer, ready, task, mailStart, calls, jobs, count>>

\* A mutant: the marks are not waited for.
WriteAtOnce ==
    /\ at = "apps"
    /\ at' = "written"
    /\ infra' = [differs |-> "corrupt", changed |-> {}]
    /\ UNCHANGED <<domain, running, mail, relayFile, stored, row, container, forgotten, up, todo,
                   marking, stopping, timer, ready, task, mailStart, calls, jobs, count>>

\* The file is emptied, then filled.
writeInfra ==
    /\ at = "apps" /\ marking = {}
    /\ at' = "written"
    /\ infra' = [differs |-> "corrupt", changed |-> {}]
    /\ UNCHANGED <<domain, running, mail, relayFile, stored, row, container, forgotten, up, todo,
                   marking, stopping, timer, ready, task, mailStart, calls, jobs, count>>

infraWritten ==
    /\ at = "written"
    /\ at' = "cron"
    /\ infra' = Same
    /\ timer' = ~stopping
    /\ UNCHANGED <<domain, running, mail, relayFile, stored, row, container, forgotten, up, todo,
                   marking, stopping, ready, task, mailStart, calls, jobs, count>>

\* The jobs are made after that; then requests are taken.
cronInitialize ==
    /\ at = "cron"
    /\ at' = "jobs"
    /\ UNCHANGED <<disk, up, todo, marking, stopping, timer, ready, task, mailStart, calls, jobs, count>>

recreateJobs(zone) == [jobs EXCEPT !.on = TRUE, !.zone = zone]

\* The hack of the code: the time zone of another job.
autoupdatePatternChanged(j, pattern) == [j EXCEPT !.pattern = pattern, !.autozone = j.zone]

\* A mutant: the handle of a job that was stopped is kept.
HandleKept(j, enabled) ==
    IF enabled = 1 THEN [j EXCEPT !.refreshing = @ + 1, !.handle = TRUE]
    ELSE [j EXCEPT !.refreshing = IF j.handle THEN @ - 1 ELSE @]

\* The job is known by the last handle only.
dynamicDNSChanged(j, enabled) ==
    IF enabled = 1 THEN [j EXCEPT !.refreshing = @ + 1, !.handle = TRUE]
    ELSE [j EXCEPT !.refreshing = IF j.handle THEN @ - 1 ELSE @, !.handle = FALSE]

jobsCreated ==
    /\ at = "jobs"
    /\ at' = "on" /\ up' = TRUE
    /\ jobs' = IF stopping THEN jobs
               ELSE dynamicDNSChanged(autoupdatePatternChanged(recreateJobs(stored["time_zone"]),
                                                               stored["pattern"]),
                                      stored["dynamic_dns"])
    /\ UNCHANGED <<disk, todo, marking, stopping, timer, ready, task, mailStart, calls, count>>

\* Who listens to the settings by then goes on to, the mail server or the jobs as well.
FailedAt ==
    CASE at = "domain" -> {"deaf", "failed"}
      [] at = "jobs" -> {"jobless"}
      [] OTHER -> {"failed"}

\* A start that fails ends the box, which is started again; after dnsSetup it is
\* only noted in the log.
StartFailed ==
    \/ /\ ~up
       /\ ProcessGone
    \/ /\ up
       /\ at' \in FailedAt
       /\ mailStart' = [mailStart EXCEPT !["start"] = NoFlow]
       /\ UNCHANGED <<up, todo, marking, stopping, timer, ready, task, calls, jobs>>

StartFails ==
    /\ at \in {"domain", "apps", "cron", "jobs"}
    /\ Count("failures")
    /\ StartFailed
    /\ UNCHANGED disk

-----------------------------------------------------------------------------
\* startMail and createMailConfig.

MailAt(s, step) == mailStart[s].step = step
MailGoes(s, r) == mailStart' = [mailStart EXCEPT ![s] = r]
mailFrame == <<domain, infra, running, stored, row, container, forgotten>>

\* Whether mail is enabled is read, and the mail server removed.
removeMail(s) ==
    /\ MailAt(s, "certificate")
    /\ MailGoes(s, [mailStart[s] EXCEPT !.step = "settings", !.enabled = stored["mail"]])
    /\ mail' = NoMail
    /\ UNCHANGED <<mailFrame, relayFile, at, up, todo, marking, stopping, timer, ready, task, calls,
                   jobs, count>>

\* All settings are read, for the configuration files.
createMailConfig(s) ==
    /\ MailAt(s, "settings")
    /\ MailGoes(s, [mailStart[s] EXCEPT !.step = "write", !.relay = stored["relay"]])
    /\ UNCHANGED <<disk, at, up, todo, marking, stopping, timer, ready, task, calls, jobs, count>>

MailDone(s) == IF s = "start" THEN at' = "addons" ELSE at' = at

writeMailConfig(s) ==
    /\ MailAt(s, "write") /\ ~mailStart[s].runs
    /\ relayFile' = mailStart[s].relay
    /\ MailGoes(s, NoFlow)
    /\ UNCHANGED <<mailFrame, mail, at, up, todo, marking, stopping, timer, ready, task, calls, jobs,
                   count>>

\* The mail server is started, unless another start came in between: then docker
\* refuses the name, and the box ends.
runMail(s) ==
    /\ MailAt(s, "write") /\ mailStart[s].runs /\ mail = NoMail
    /\ relayFile' = mailStart[s].relay
    /\ mail' = [enabled |-> mailStart[s].enabled, relay |-> mailStart[s].relay]
    /\ IF mailStart[s].enabled = 1
       THEN MailGoes(s, [mailStart[s] EXCEPT !.step = "records"]) /\ at' = at
       ELSE MailGoes(s, NoFlow) /\ MailDone(s)
    /\ UNCHANGED <<mailFrame, up, todo, marking, stopping, timer, ready, task, calls, jobs, count>>

runMailRefused(s) ==
    /\ MailAt(s, "write") /\ mailStart[s].runs /\ mail # NoMail
    /\ relayFile' = mailStart[s].relay
    /\ ProcessGone
    /\ UNCHANGED <<mailFrame, mail, count>>

mailRecords(s) ==
    /\ MailAt(s, "records")
    /\ MailGoes(s, NoFlow)
    /\ MailDone(s)
    /\ UNCHANGED <<disk, up, todo, marking, stopping, timer, ready, task, calls, jobs, count>>

\* The certificate, the settings or the records of the domain cannot be had.
MailFails(s) ==
    /\ mailStart[s].step \in {"certificate", "settings", "records"}
    /\ Count("failures")
    /\ IF s = "start" THEN StartFailed
       ELSE /\ MailGoes(s, NoFlow)
            /\ UNCHANGED <<at, up, todo, marking, stopping, timer, ready, task, calls, jobs>>
    /\ UNCHANGED disk

startMail(s) ==
    \/ removeMail(s) \/ createMailConfig(s) \/ writeMailConfig(s) \/ runMail(s)
    \/ runMailRefused(s) \/ mailRecords(s)

-----------------------------------------------------------------------------
\* The setters of settings.js: the value is stored, then announced.

Listening == at \notin {"off", "setup", "domain", "deaf"}
JobsListen == at \in {"jobs", "on", "jobless"}

set(k, v) ==
    /\ up /\ ~stopping
    /\ Count("changes")
    /\ stored' = [stored EXCEPT ![k] = v]
    /\ calls' = calls \cup {<<k, v>>}
    /\ UNCHANGED <<domain, infra, running, mail, relayFile, row, container, forgotten, at, up, todo,
                   marking, stopping, timer, ready, task, mailStart, jobs>>

setMailConfig(v) == set("mail", v)
setMailRelay(v) == set("relay", v)
setCatchAllAddress(v) == set("catch_all", v)
setTimeZone(v) == set("time_zone", v)
setAutoupdatePattern(v) == set("pattern", v)
setDynamicDnsConfig(v) == set("dynamic_dns", v)

SetSetting(v) ==
    \/ setMailConfig(v) \/ setMailRelay(v) \/ setCatchAllAddress(v)
    \/ setTimeZone(v) \/ setAutoupdatePattern(v) \/ setDynamicDnsConfig(v)

Answered(k, v) ==
    /\ <<k, v>> \in calls /\ ~stopping
    /\ calls' = calls \ {<<k, v>>}

Restarts(s, first, runs) ==
    /\ s \in Slots /\ MailAt(s, "idle")
    /\ MailGoes(s, [NoFlow EXCEPT !.step = first, !.runs = runs])

\* The mail server is started again for its own settings, and given the others.
emitMail(k, v) ==
    /\ k \in {"mail", "relay", "catch_all"}
    /\ Answered(k, v)
    /\ \E s \in Slots :
         CASE k = "catch_all" -> Restarts(s, "settings", FALSE)
           [] k # "catch_all" /\ Listening -> Restarts(s, "certificate", TRUE)
           [] OTHER -> UNCHANGED mailStart
    /\ UNCHANGED <<disk, at, up, todo, marking, stopping, timer, ready, task, jobs, count>>

\* Before the jobs are there cron does not expect to be told.
emitJobs(k, v) ==
    /\ k \in {"time_zone", "pattern", "dynamic_dns"}
    /\ Answered(k, v)
    /\ k = "time_zone" \/ jobs.on \/ ~JobsListen
    /\ jobs' = IF ~JobsListen THEN jobs
               ELSE CASE k = "time_zone" -> recreateJobs(v)
                      [] k = "pattern" -> autoupdatePatternChanged(jobs, v)
                      [] k = "dynamic_dns" -> dynamicDNSChanged(jobs, v)
    /\ UNCHANGED <<disk, at, up, todo, marking, stopping, timer, ready, task, mailStart, count>>

emitTooEarly(k, v) ==
    /\ k \in {"pattern", "dynamic_dns"} /\ <<k, v>> \in calls
    /\ JobsListen /\ ~jobs.on /\ ~stopping
    /\ ProcessGone
    /\ UNCHANGED <<disk, count>>

\* The webadmin, and so the mail server, has another certificate.
certChanged ==
    /\ Listening /\ up /\ ~stopping
    /\ Count("changes")
    /\ \E s \in Slots : Restarts(s, "certificate", TRUE)
    /\ UNCHANGED <<disk, at, up, todo, marking, stopping, timer, ready, task, calls, jobs>>

-----------------------------------------------------------------------------
\* Apps.

PendingStates == {"pending_install", "pending_configure", "pending_restore", "pending_update",
            "pending_backup", "pending_uninstall"}

\* Which states a command is accepted in.
Accepted(a, command) ==
    CASE command = "pending_install" -> row[a] = "none"
      [] command = "pending_configure" -> row[a] \in Configurable
      [] command = "pending_restore" -> row[a] \in Restorable
      [] command = "pending_uninstall" -> row[a] # "none"
      [] OTHER -> row[a] = "installed"

\* The command stops the task of the app.
Command(a, command) ==
    /\ up /\ ~stopping /\ domain
    /\ Accepted(a, command)
    /\ Count("commands")
    /\ row' = [row EXCEPT ![a] = command]
    /\ task' = [task EXCEPT ![a] = "none"]
    /\ UNCHANGED <<domain, infra, running, mail, relayFile, stored, container, forgotten, at, up, todo,
                   marking, stopping, timer, ready, mailStart, calls, jobs>>

\* After fifteen seconds the tasks of all apps with something to do are started.
resumeTasks ==
    /\ timer /\ ~stopping
    /\ timer' = FALSE /\ ready' = TRUE
    /\ UNCHANGED <<disk, at, up, todo, marking, stopping, task, mailStart, calls, jobs, count>>

taskFrame == <<domain, infra, running, mail, relayFile, stored, at, up, todo, marking, stopping, timer,
               ready, mailStart, calls, jobs>>

\* A mutant: an app that was to be configured is taken for installed.
StartOthers(a) ==
    /\ ready /\ task[a] = "none" /\ row[a] \in PendingStates \ {"pending_configure"}
    /\ task' = [task EXCEPT ![a] = "begun"]
    /\ UNCHANGED <<taskFrame, row, container, forgotten, count>>

StartTask(a) ==
    /\ ready /\ task[a] = "none" /\ row[a] \in PendingStates
    /\ task' = [task EXCEPT ![a] = "begun"]
    /\ UNCHANGED <<taskFrame, row, container, forgotten, count>>

\* All but a backup remove the container first.
deleteContainers(a) ==
    /\ task[a] = "begun" /\ row[a] # "pending_backup"
    /\ task' = [task EXCEPT ![a] = "removed"]
    /\ container' = [container EXCEPT ![a] = FALSE]
    /\ UNCHANGED <<taskFrame, row, forgotten, count>>

\* And make it again.
EndTask(a) ==
    /\ task[a] = IF row[a] = "pending_backup" THEN "begun" ELSE "removed"
    /\ task' = [task EXCEPT ![a] = "none"]
    /\ row' = [row EXCEPT ![a] = IF row[a] = "pending_uninstall" THEN "none" ELSE "installed"]
    /\ container' = [container EXCEPT ![a] = @ \/ row[a] \notin {"pending_backup", "pending_uninstall"}]
    /\ forgotten' = IF row[a] = "pending_backup" THEN forgotten ELSE forgotten \ {a}
    /\ UNCHANGED <<taskFrame, count>>

FailTask(a) ==
    /\ task[a] # "none"
    /\ Count("failures")
    /\ task' = [task EXCEPT ![a] = "none"]
    /\ row' = [row EXCEPT ![a] = IF row[a] = "pending_backup" THEN "installed" ELSE "error"]
    /\ UNCHANGED <<taskFrame, container, forgotten>>

-----------------------------------------------------------------------------
StartStep ==
    \/ Boot \/ PlatformUpToDate \/ stopContainers \/ (\E addon \in Databases : startAddon(addon))
    \/ startMailAddon \/ startApps \/ (\E a \in Apps : setInstallationCommand(a)) \/ writeInfra \/ infraWritten
    \/ cronInitialize \/ jobsCreated \/ resumeTasks \/ Exit

AppStep(a) == StartTask(a) \/ deleteContainers(a) \/ EndTask(a)

Next ==
    \/ StartStep \/ dnsSetup \/ Crash \/ Stop \/ UpdateBox \/ StartFails
    \/ \E s \in Slots \cup {"start"} : startMail(s) \/ MailFails(s)
    \/ \E v \in Values : SetSetting(v)
    \/ \E k \in Keys, v \in Values : emitMail(k, v) \/ emitJobs(k, v) \/ emitTooEarly(k, v)
    \/ certChanged
    \/ \E a \in Apps : AppStep(a) \/ FailTask(a) \/ (\E command \in PendingStates : Command(a, command))

\* What was begun goes on: node gets its callbacks, systemd starts the box again, a
\* task ends.  Nobody has to crash, fail or ask for anything.
Fairness ==
    /\ WF_vars(StartStep)
    /\ \A s \in Slots \cup {"start"} : WF_vars(startMail(s))
    /\ \A a \in Apps : WF_vars(AppStep(a))

Spec == Init /\ [][Next]_vars /\ Fairness

-----------------------------------------------------------------------------
Steps == {"off", "setup", "domain", "addons", "mail", "apps", "written", "cron", "jobs", "on",
          "deaf", "failed", "jobless"}
Infra == [differs : Differences, changed : SUBSET Addons]
Mail == [enabled : Values, relay : Values]
Flow == [step : {"idle", "certificate", "settings", "write", "records"}, runs : BOOLEAN,
         enabled : Values, relay : Values]
Jobs == [on : BOOLEAN, zone : Values, pattern : Values, autozone : Values, refreshing : Nat,
         handle : BOOLEAN]
Counts == [restarts : 0..MaxRestarts, updates : 0..MaxUpdates, failures : 0..MaxFailures,
           commands : 0..MaxCommands, changes : 0..MaxChanges]

\* The state of the box, of its containers and of its apps is one the code can make.
TypeOK ==
    /\ domain \in BOOLEAN /\ infra \in Infra
    /\ running \subseteq Databases /\ mail \in Mail \cup {NoMail}
    /\ relayFile \in Values /\ stored \in [Keys -> Values]
    /\ row \in [Apps -> PendingStates \cup {"none", "installed", "error"}]
    /\ container \in [Apps -> BOOLEAN] /\ forgotten \subseteq Apps
    /\ at \in Steps /\ up \in BOOLEAN /\ todo \subseteq Addons /\ marking \subseteq Apps
    /\ stopping \in BOOLEAN /\ timer \in BOOLEAN /\ ready \in BOOLEAN
    /\ task \in [Apps -> {"none", "begun", "removed"}]
    /\ mailStart \in [Slots \cup {"start"} -> Flow]
    /\ calls \subseteq Keys \X Values
    /\ jobs \in Jobs /\ (jobs.handle => jobs.refreshing > 0)
    /\ count \in Counts

\* When the tasks of apps are started the addons they use run, and every app that is
\* said to be installed has its container, even when the box was stopped between the
\* removal of the containers, the marking of the apps and the file that says it is done.
\* An app whose backup was due at that time is the exception: its row cannot be marked.
ReadyIsComplete ==
    ready => /\ infra = Same
             /\ running = Databases
             /\ \A a \in Apps : row[a] = "installed" => container[a] \/ a \in forgotten

\* An app that lost its container gets it again, or is shown with an error.
AppsComeBack ==
    \A a \in Apps :
        (row[a] = "installed" /\ ~container[a] /\ a \notin forgotten)
            ~> (container[a] \/ row[a] \in {"error", "none"} \/ a \in forgotten)

\* These do not hold.

\* Every app that is installed has its container when tasks are started: not the one whose
\* backup was due when the containers were removed.
NoneForgotten == ready => \A a \in Apps : row[a] = "installed" => container[a]

\* The mail server comes to run with the settings that are stored: not after two starts at
\* a time, nor after the box ended between the removal and the start.
MailFollowsSettings ==
    (mail # [enabled |-> stored["mail"], relay |-> stored["relay"]] /\ ready)
        ~> (mail = [enabled |-> stored["mail"], relay |-> stored["relay"]] \/ ~ready)

\* Dynamic DNS that is disabled is not done: it was enabled twice.
DisabledIsQuiet ==
    at = "on" /\ ~stopping /\ calls = {} => jobs.refreshing = stored["dynamic_dns"]
=============================================================================
