# The Cloudron box in TLA+

The box (`src/src`, started by `src/box.js`) is the server of a Cloudron: one
Node.js process that installs apps as containers, keeps users, groups and
mailboxes, makes backups and updates itself. It has one thread, but almost
every function in it waits for a database, for docker or for a child process,
and other requests run while it waits. Child processes (app tasks, backup
tasks) work beside it, systemd stops and restarts it, and it finds its way back
by what the database says. That is where it can go wrong and where a unit test
seldom looks, and it is what these modules are about.

Paths below are those of the repository as it lies under `src/`: the code of
the box is in `src/src`.

1. [Inventory](#1-inventory)
2. [How the modules are read](#2-how-the-modules-are-read)
3. [The modules](#3-the-modules)
4. [Runs, bounds and what they show](#4-runs-bounds-and-what-they-show)
5. [Fairness](#5-fairness)
6. [What is proved](#6-what-is-proved)
7. [Where the code disagrees with itself](#7-where-the-code-disagrees-with-itself)
8. [What is not modelled](#8-what-is-not-modelled)
9. [Plan](#9-plan)

## 1. Inventory

| Component | State | Operations | Status |
|---|---|---|---|
| Task manager (`taskmanager.js`) | `gActiveTasks`, `gPendingTasks`, `gPaused`, the platform-ready timer | resume, pause, start, restart and stop tasks; exits of processes | Locker, TaskManager |
| Lock (`locker.js`) | operation, depth | `lock`, `recursiveLock`, `unlock`, the `unlocked` event | Locker, OperationMutex |
| Apps (`apps.js`, `apptask.js`, `appdb.js`) | rows of `apps` and `appPortBindings`; the container of an app | install, configure, update, restore, backup, start, stop, uninstall; the program of a task | AppLifecycle (states), AppNames (names), Containers (what a task makes) |
| Mailboxes and DNS of apps (`mailboxdb.js`, `subdomains.js`) | rows of `mailboxes`, records at the provider | add, rename, remove; register, unregister | AppNames, Dns |
| Containers and addons (`docker.js`, `addons.js`) | containers, images, databases, environment of an app | create, start, stop, remove; set up, tear down, back up and restore addons | Containers |
| Health monitor and scheduler (`apphealthmonitor.js`, `scheduler.js`) | `gHealthInfo`, `gState`, `health` of apps | poll, mail; make, run and remove cron containers | Containers |
| Backups and storage (`backups.js`, `backupdb.js`, `backuptask.js`, `storage/`) | rows of `backups`, archives, `lastBackupId` of the apps | full backup, app backup, copy, restore, cleanup | Backups |
| Users and groups (`user.js`, `userdb.js`, `groups.js`, `groupdb.js`, their routes) | rows of `users`, `groups`, `groupMembers`, `mailboxes` | activation, create, update, remove, invite, reset, set password, groups, members, aliases | Users |
| Clients, tokens, LDAP (`clients.js`, `tokendb.js`, `authcodedb.js`, `auth.js`, `ldap.js`) | rows of clients, tokens and auth codes, addon config of an app | add, look up, exchange, expire, remove; bind | Access |
| Platform and settings (`platform.js`, `settings.js`, `cron.js`) | infra version file, addon containers, settings, jobs of cron | create the addons, mark apps for restore or configure, follow the settings | Platform |
| Updates and activation (`updatechecker.js`, `cloudron.js`, `cron.js`, `update.sh`, `installer.sh`) | update information, a state file, progress, the installer | check, auto update, box update, migrate, retire | Updates |
| Certificates and nginx (`certificates.js`, `cert/`, `nginx.js`) | keys, certificates, site configurations | obtain, renew, upload, configure, reload | Certificates |
| DNS backends (`subdomains.js`, `dns/`) | the zone | get, add, update, upsert, del; refresh | Dns |
| Database access (`database.js`) | default connection, pool | query, transaction, reconnect | not modelled, see 8 |
| Event log, mail, HTTP routes, shell, web administration, installation | appended rows, a mail queue, none | | not modelled, see 8 |

### How they interact

- A request (`routes/apps.js`) calls a function of `apps.js`, which asks the
  database to accept the command: one `UPDATE ... WHERE installationState ...`
  in `appdb.setInstallationCommand`. Its callback calls `taskmanager`, which
  kills the task the app has, if any, and starts a new one, or queues it.
- A task takes the lock (`recursiveLock`, so that tasks share it), is a process
  of its own (`child_process.fork`), reads its app once and works through a
  program that ends by a write of the new state. Its exit unlocks, and the
  `unlocked` event starts the next of the queue *inside* the unlock.
- A full backup, a box update and a migration take the same lock with `lock()`;
  they and the tasks exclude each other. The cleanup of backups, requests and
  restores that are asked for take no lock.
- `platform.start` runs `resumeTasks` after its timer: a query finds apps with
  unfinished business and starts a task for each. `platform.stop` pauses.
- A username, a group name, an alias and the mail address of an app are rows of
  one table `mailboxes`. AppNames and Users each have the part that is theirs;
  they never rename or remove rows of the other kind by owner.
- An app gets OAuth credentials, a certificate, DNS records, databases and a
  container from its task, one after the other; requests, the jobs of cron, the
  scheduler and the monitor read and write the same things while it works.
- The settings are announced by an event emitter: `platform.js` restarts the
  mail server and `cron.js` replaces jobs on it.
- An update of the box replaces its code from outside: `update.sh` starts the
  installer as a service of its own, which stops the box.

### What is hard, and what makes each part correct

- **Task manager and lock.** Exits, kills, the pause and the backups come in any
  order; an unlock starts one task, though more may wait; the callbacks of an
  exit run before or after the listener of the unlock. Correct: the lock is held
  by exactly those who work; no assertion fails; nobody who waits is forgotten;
  nothing starts during a pause; exclusive operations are alone.
- **App lifecycle.** A task is killed at any point for a newer command; the box
  dies at any point; a crash is written to the database late. Correct: what the
  database says of the container is true; every accepted command comes to an
  end; nothing of a removed app stays.
- **Names of apps.** A configure renames the mailbox, then asks whether it may
  be; DNS records are made and removed by tasks long after the row changed.
  Correct: one mailbox for each app and none for nobody; tasks work on apps that
  are there.
- **Backups.** The cleanup decides by rows it read, then deletes; tasks end by
  SIGTERM with an exit code of 0; the restore point is also the argument of a
  restore. Correct: what a box backup refers to stays as long as it does.
- **Users.** Password, invitation and update read a row and write it back
  later; several of the checks precede an await. Correct: a name is one owner's
  mailbox; no spent token comes back.
- **Access.** A code, a token or a session is looked up, then its user, then its
  client, in as many queries; users and clients are removed in between, and a
  task that is killed is done again from the start. Correct: a code is exchanged
  once; an app's credentials are those of its one client; a removed user is out.
- **Updates.** Checks read a file, wait for the app store and write it back;
  the installer outlives the box that started it. Correct: one mail for a
  release; no installer without the lock; progress shown and lock held agree.
- **Certificates.** nginx loads all sites or none; a key and its certificate are
  two files; a renewal goes on while tasks configure and remove sites, and may give
  up or never end. Correct: nginx can reload after every step; what is served has
  not expired as long as renewals come to their end.
- **DNS.** Records are read and written one by one, with failures and answers that
  are lost. Correct: the user's own records stay; the address is right in the end.
- **Platform.** The box may stop between removing the containers, marking the apps
  and writing the file that says it is done. Correct: tasks find all addons, and
  no app is said to be installed without its container.
- **Containers.** A task stops after any step and starts over, with passwords that
  are made anew; a command is in the row before the old task is stopped, whose
  last write may come over it. Correct: an app has the passwords its addons have
  and runs when its row says so; what its users wrote is in the database or in a
  backup until it is given up; no container is left behind unnoticed.

`PROJECT.json` lists every hazard at its line, with the property that covers it
or the reason why none does yet.

## 2. How the modules are read

- **An action is one turn of the event loop** of the box, or one step of a child
  process between two calls to docker or the database. Everything a handler
  does before it returns, listeners it triggers included, is the same action.
  Where several functions run in one turn, they are operators on a record of
  the module variables (`mem` in TaskManager) and the action composes them.
- **A transaction** of a database module, and a single SQL statement, is atomic:
  it happens as a whole or not at all. (That `database.js` may report a
  transaction that was rolled back as done is in section 8.)
- **A task may be killed, fail or crash** between any two of its steps. A step
  that is left out of a module shows only by failing, and `Fail` covers it at
  the next step that is there.
- **Each module has its own part of the world.** The task of an app is in six
  modules, each with the steps that concern it: its states and container in
  AppLifecycle, names in AppNames, credentials in Access, its site in
  Certificates, records in Dns, and addons, images and containers in Containers.
  Only TaskManager has the lock and the queue; the others keep of them that an
  app has one task at a time and that a kill or a crash may end it anywhere.
- **Data** is what the properties tell apart: an app is a model value, a
  configuration is "the last accepted one or not", a backup is a number, a token is
  the number of its making, a password one that is not in use.
- **Bounds** are constants called `Max...`, guards of the action that counts
  and nothing else.
- Definitions marked *Mutant* are plausible mistakes in the code, used to see
  that a property notices them: the mutated form replaces the definition beside
  it and TLC must find the property violated. They are in `PROJECT.json`.

## 3. The modules

    Locker ── TaskManager ────────── AppLifecycle ────── AppLifecycleProofs
                 │     │                  │
    OperationMutex  MCTaskManager   MCAppLifecycle

    Users        Access        Updates        Backups        Containers
    │  │         │  │          │  │           │  │            │  │
    │ MCUsers    │ MCAccess    │ MCUpdates    │ MCBackups     │ MCContainers
    UsersProofs  AccessProofs  UpdatesProofs  BackupsProofs   ContainersProofs

                        Box
       ┌────────────┬────┴────┬────────────┐
    AppNames       Dns     Platform   Certificates
     │   │        │   │     │   │       │     │
     │ MCAppNames │ MCDns   │ MCPlatform│ MCCertificates
     └──────┬─────┘         └─────┬─────┘
       NamesProofs          PlatformProofs

**Box** declares the apps, which the four modules below it have in common, so
that the proofs about two of them can be in one module: those about the names the
box gives away and the records of the zone they are in (NamesProofs), and those
about what runs beside the apps, addons and nginx (PlatformProofs). The two
modules of a pair share no variable; the definitions that would have the same
name begin with `Dns` and `Cert` in one of them (`DnsSpec`, `CertSpec`).

**Locker** (`locker.js`). A lock is a record of operation and depth; `lock`,
`recursiveLock` and `unlock` are operators on it, with the condition of their
early return or exception beside them.

**TaskManager** (`taskmanager.js`, the callers of the lock in `backups.js` and
`cloudron.js`, the timer of `platform.js`). `mem` has the variables of the two
JavaScript modules: the lock, `tasks[a]` (none, being forked, ready, or ended in
one of four ways and not yet reaped), `pending`, `paused`, `listeners` of
`unlocked`. `onExit` counts the `once('exit')` callbacks. Actions: `TaskReady`
(the process has its signal handler), `TaskEnds`, `TaskExit` (the exit event:
unlock, listener, callbacks), `RestartAppTask`, the three parts of an uninstall,
`BeginExclusive`/`EndExclusive`/`CommitExclusive` (an update that succeeded
never unlocks), `ResumeTasks` (the timer), `ResumeApps` and
`ResumeFails` (the query's answer), `PauseTasks` (`platform.stop`, at
SIGTERM) and `Restart`. `Init` has as many timers as `dns_setup` requests
overlapped (`Setups`).

`ResumeApps` has a guard `Wakeable` that TaskManager cannot justify by itself:
what was queued before the platform was ready is among what the query finds.
AppLifecycle, which has the database, checks exactly this as `QueueIsWoken`.

**OperationMutex** is what the lock is for, without a lock: tasks up to a limit,
or one exclusive operation. `TaskManager!MutualExclusion` says that TaskManager
implements it, with `running <- Active(mem)` and `exclusive <- job`; it is
checked and proved.

**AppLifecycle** composes TaskManager with the database rows and containers.
`SetCommand`/`Callback` are the two turns of a command, `RequestUninstall`,
`MarkUninstall`, `UninstallCallback` the three of an uninstall. `Load` reads the
row and chooses the program (`startTask`'s switch); `Step` runs its next call;
`Fail`, `Exit`, `Crash` end it, or `Hang`, when the certificate authority leaves
out a header and the flow calls nobody back; `Reap` is the exit event, `CrashWrite`
the write it does not wait for. The row may not be readable (`LoadFails`), and the
write of a failure or of a crash may fail as well (`FailureLost`,
`CrashWriteLost`): the row stays pending, with nobody to try again. `ReadApps`,
`Resume` are `resumeTasks`; `RestartBox` loses
everything but database and docker. Every action is an action of TaskManager
with its share of the app state, or leaves TaskManager alone.

**AppNames**: location, host ports, mailbox and DNS record of each app. A request
reads the app, renames the mailbox and sets the command in three steps; a task's
program is the sequence of DNS and row operations of `apptask.js`. Of the task
manager only one task per app is kept, killed and started by every callback.

**Backups**: rows, storage, restore points; workers are one full backup and one
task per app, kept apart as the lock keeps them (`Unlocked`). A full backup
backs up or copies each app and then the box; the cleanup reads rows twice,
removes archives and then rows, in steps of its own. What writing, copying and
removing an archive may come to (`backup`, `copyBackup`, `removeBackups`) is one
operator for each kind of storage: a file stays as far as it was written, an
object is there when its upload is complete, `s3` and `caas` count as removed
what they could not remove, and `caas` needs credentials first (`RemoveThrows`).

**Users**: requests go through `user.js` and `groups.js` one database call at a
time. Each request is a record of what it was asked for and what it has read;
an action is one call and its answer. Who may ask is decided when the request
is let in (`requireAdmin`).

**Access** (`clients.js`, `tokendb.js`, `authcodedb.js`, `auth.js`, `developer.js`,
`ldap.js`, the oauth addon of `addons.js`): a request is one of the API, an
authorization (code or token grant), the exchange of a code, a login of a
developer or with a password, or the LDAP bind of an app's user; `RequestStep` is
its next query. The task of an app removes and adds its client
(`FindConfiguredClient` and the steps after it), remembers it and passes it to the
container. Removal of users, expiry, the janitor's cleanups and a restart come
in between. `barred` marks a request whose user was removed, for
`RemovedUsersStayOut`.

**Updates** (`updatechecker.js`, `cron.js`, `cloudron.js`, `update.sh`,
`installer.sh`, `start.sh`): `CheckStep` are the two checks, of cron and of the
user, each with its reads, the answer of the app store and its writes of
`updatechecker.json`; `AppStep` the automatic update of apps; `UpdateStep` the
update, upgrade or migration: lock, backup, and then the download, `update.sh`,
the installer (`StopBox`, `SwitchCode`, `ConfigureHost`, `StartCloudron`) or the
answer of the server and `retire.sh`. A history (`kind`) says what each release
is to the one before it; TLC gets several. A write of the file that fails
is ignored (`saveState`): the file stays as it was, or is left empty; `unsaved`
remembers it.

**Certificates** (`certificates.js`, `cert/acme.js`, `nginx.js`): one flow for the
renewal, the webadmin, a request and each app's task. `AcmeStep` are the steps
that leave something behind: the key, the order, the certificate;
`EnsureStep` is `ensureCertificate`; `TaskStep` configures, moves and removes
the site. `reload` is what nginx checks when it is told to reload. A flow may never
be called back (`AcmeHangs`) and a renewal give up (`RenewalGivesUp`); either way the
next renewal, twelve hours later, starts over. A configure writes or unlinks the
files the user gave before the mailbox and the row decide whether it is accepted
(`SetUserPair`, `RemoveUserPair`). `Tick` lets time go on when every flow is idle or
hung, whether or not a renewal came to its end since; `late` remembers when none did.
`mishap` remembers the causes that the two invariants except.

**Dns** (`subdomains.js`, `dns/`, the writers in `cloudron.js` and `apptask.js`): one
flow for the webadmin (`addDnsRecords`), `refreshDNS`, a request and each task.
The backends differ in what one write does to a name: `caas` and `route53`
replace all values, `cloudflare` and `digitalocean` get the list and write
record after record, `manual` and `noop` do nothing. `Fails` is a request that
fails, `AnswerLost` one that was carried out.

**Platform** (`platform.js`, `settings.js`, `cron.js`, the start in `cloudron.js`,
`server.js`, `box.js`): `StartStep` goes through the start of the box: compare
the infra file, remove the containers, start the addons, mark the apps, write
the file, start the jobs. `startMail` are the steps of a start of the mail
server, at the start or on an event, with the settings read in between.
`SetSetting` stores and `emitMail`/`emitJobs` announce, in a turn of their own.

**Containers** (`docker.js`, `addons.js`, `scheduler.js`, `apphealthmonitor.js`, the
steps of `apptask.js`): a command is written to the row (`Order`), and the task of
the app is killed and started anew in a later turn (`Manage`); until then the old task
goes on with the row as it has read it. `Does` is what a task makes of a row: an
installed app is started or stopped. `Plan` is the order of the steps for each
command, of the forced update without its backup, and
`TaskStep` takes the next; within a step, `todo` is the set of addons or
containers it has yet to do. An addon is set up by making a
password, in its container, and writing it to the row
(`setAddonConfig`) after that; a restore then fills the database
(`restoreDatabase`). Passwords and container ids are numbers unlike those in use.
`latest` is what the users wrote last and nobody has given up: `stopApp` gives it up
for a command that makes away with it (`GivenUp`), as from there nobody can write
until the app is started again, and `cleanup` with the last backup that has it.
A task may fail, crash or be killed anywhere, and each last write may be lost or late
(`Fail`, `TaskCrashes`, `CrashWrite`). `Sync` is a look of the scheduler, `doTask` and
`createSubcontainer` a scheduled command; a kill that fails is logged and the apps
after it are skipped and forgotten (`KillFails`), their containers `lost`.
`checkAppHealth` compares what an app that is to run answers with what the row says.
Addons are three kinds: a value in the environment (`email`, `ldap`, `sendmail`,
`recvmail`), a database (`mysql`, `postgresql`, `mongodb`), and `redis`, which is
a container with the password it was started with.

The map in `PROJECT.json` names the lines of every definition.

## 4. Runs, bounds and what they show

| Run | Module, config | Distinct states | Asks |
|---|---|---|---|
| tasks | MCTaskManager, MCTaskManager.cfg | 86,208 | lock, queue and processes agree; OperationMutex is implemented; who is queued gets his task |
| lifecycle | MCAppLifecycle, MCAppLifecycle.cfg | 1,080,398 | what the database says of the container is true; an accepted command comes to an end |
| names | MCAppNames, MCAppNames.cfg | 594,336 | one mailbox for each app, none for nobody |
| backups | MCBackups, MCBackups.cfg | 17,178,339 | what a box backup depends on stays, and no two share it |
| users | MCUsers, MCUsers.cfg | 422,573 | names are mailboxes; spent tokens stay spent |
| access | MCAccess, MCAccess.cfg | 3,083,291 | a code is spent once; an app knows its client; removed users stay out |
| updates | MCUpdates, MCUpdates.cfg | 2,300,865 | one mail for a release; the installer finds the lock; an update comes to an end |
| certificates | MCCertificates, MCCertificates.cfg | 8,352,074 | nginx can reload; nothing expired is served while renewals end |
| dns | MCDns, MCDns.cfg | 1,398,739 | the user's records stay; the address is right in the end |
| platform | MCPlatform, MCPlatform.cfg | 1,502,979 | tasks find the addons; no app is left without its container |
| containers | MCContainers, MCContainers.cfg | 2,116,456 | passwords are current, what is to run runs; data is kept; nothing stays behind; health is shown |

One more run, configure_lost, ends in a violation; it is in section 7.

**tasks**: three apps, two tasks at once, so that two work and one waits, an
exit can find the queue with or without room, and an exclusive operation can
come between any two. `MaxPending = 1`: a request is made while no more than one
waits; `MaxRequests = 1` restart waiting on each task's exit. One start of
the platform per process (`Setups`). `LockMatchesWork` relates the depth of
the lock to the processes; `NoLostWakeup` says that a queue has somebody whose
end starts its head; `NeverAborts` is the assertion of `startNextTask` and the
exceptions of `unlock`; `QueuedTaskStarts` is what follows for each app. No
symmetry, as the last is a liveness property.

**lifecycle**: one app. Apps meet each other only through the lock and the queue,
which the run above covers; what an app's state goes through depends on its own
commands, tasks and crashes. Three commands (an install, then two that may overlap),
one restart of the box at any point, faults at any point of any task. Three commands
reach a command that is accepted during the task of another and an uninstall of it.
The exclusive operations of TaskManager take part, so that a task waits.
`RunningIsRunning` holds at every moment, not only when no task is at work: a stop
is in the row before the container stops. An uninstall that is overtaken by another
command is not carried out (section 7), so `CommandSettles` is stated for the other
commands (`Unsettled`). It also excepts what the code has no second try for: the
query of `resumeTasks` failed, the last task of the app could not read its row or
its failure or crash could not be written (`lost`), or a task hangs, with the lock
(`Hanging`).

**names**: two apps, three locations (one of them the naked domain, for which
the mailbox is named after the title), one host port, two requests at once,
three in all, one restart (with or without an infrastructure update, which
marks every app for a configure). Two apps are enough for one to take what the
other has; three locations let both move.

**backups**: one app, four backups ever made: two full backups with a backup of
the app each, so that the cleanup has an old one and a new one to choose from,
while a third may begin. One event, a restore or a restart of the box (with
SIGTERM or without). The storage is `filesystem` or `caas`: `s3` differs from
`caas` only by needing no credentials, so all its behaviour is in the run. A
second app would add backups of the same kind in the same box backup; they
interact with the rest only through the list of dependencies, which an empty,
whole or partly copied list of one shows.

**users**: two users, a group, two names, two requests at once and five in all:
activation, a second user, and three more that overlap or build on one another
(an alias and a rename and a removal, an invitation and a reset and a use of
the token). Users, names and requests are interchangeable.

**access**: one user, one app, two requests, both at once: two exchanges of one
code, a bind while the user is removed, a login while a client is deleted.
Two events, which may be two kills of a task (three clients, so that what a
killed task left can be told from what a later one makes), a command and a
removal, or an expiry. The app is open to everyone or restricted to a group.
Requests are interchangeable.

**updates**: one app, three releases of the box and two of the app, two checks, and
one change besides (a setting, a manual update, a crash, a write of the file that
fails, other work that takes the lock). Two checks are what it takes for one to
overlap the other, of which the file with its two halves is written by both; a third
would find a state the first two have made. Two histories have every kind of release
between them, and in the first the second release is the final one of the first
while a third can be under way, which is the case `ProgressMatchesLock` excepts: an
update that only turns a prerelease into its final release asks for no lock and
clears the progress of whatever update is shown (`cloudron.js:641`). With no
fairness about the checks, the end of an update is that of `UpdateSettles`.

**certificates**: one app, two domains (one of them external to the box), two
changes (an install, a move, an upload or its removal, a kill, a crash) and two
steps of time, three of them in all (`MaxBoth`). The box starts fresh, or with an
app whose certificates have less than a month left, so that a renewal is due: one
step more and they have less than a day, two and they have expired. Two changes put
a move or an upload into a renewal, and a kill after it. Flows hang and renewals
give up at any time, as often as they like.

**dns**: one app, two locations, one of which has a record the user made, two
addresses, two changes and one failure or lost answer, with each of the four
kinds of backend. Four records of a name hold the user's, ours, and those two
writers add at once.

**platform**: one app, the start's own start of the mail server and one by an
event, two restarts (the second may cut the recovery from the first short), one
update with other containers, one failure, one command and two changes of a
setting. One app is enough: the marking treats them one by one, and the file is
written after all of them.

**containers**: one app, two commands, one failure (of a task, of a kill, or of the
box) and one write of its users. Two versions that ask for
different addons; the app is new or installed at the start, so that two commands
are an update and what overtakes or follows it. `DataRecoverable` sees with one write
whether the last write is kept. The invariant of the proof was checked with three
commands (60,299,414 states), which is too long for a run. With one app the
scheduler never skips a second one; the proof has any number of them.

`CHECK_DEADLOCK FALSE` is said in Access, AppNames, Backups, Certificates,
Containers, Platform, Updates and Users: with the bounds used up and nothing at
work, nothing need happen there. TaskManager, AppLifecycle and Dns have always a
step, and TLC checks it.

## 5. Fairness

Fairness is weak, and only on what the system does by itself:

- TaskManager, AppLifecycle: the event loop handles what it was given
  (`TaskReady`, `TaskExit`, callbacks, query answers, the platform timer). A task
  and a backup end (`Step`, `Exit`, `EndExclusive`): the external calls they make
  have a timeout or a limit of retries, with one exception. A certificate that comes
  without the address of its chain ends in no callback (`cert/acme.js:353`, `:358`), and
  the task waits until it is killed, with its share of the lock. AppLifecycle has it
  (`Hang`) and `CommandSettles` excepts it; TaskManager, which does not know
  what a task does, assumes its end, and so does `QueuedTaskStarts`. That a task's own
  failure must happen is never assumed. A box that must be replaced is: `MustRestart`
  holds after an exception, after a committed update, and after
  `platform.stop`, whose process exits three seconds later; systemd restarts it
  (`Restart=always` in `setup/start/systemd/box.service`).
- Updates: a backup ends, the server answers, downloads and the wait for the
  installer have timeouts, and the installer, which runs outside of the box,
  comes to its end, with or without success. Nobody has to check for updates.
- Dns: each flow comes to its next step, and cron starts the refresh again
  (every ten minutes, with dynamic DNS enabled; without it nothing follows the
  address). Failures are bounded, so that one try in the
  end succeeds: that the provider answers some day is an assumption.
- Platform: the start goes on, systemd starts the box again, a begun start of the
  mail server and a task end.
- Containers: the scheduler looks at the rows every minute, the monitor every
  ten seconds, a scheduled command is due again, and a task ends.

No user has to ask for anything, and no fault has to happen. Certificates claims
no liveness; in its place `Tick` lets time go on only when every flow is idle or will
never go on (`hung`): a step of time is nearly a month, or a day, and no flow that is
still alive takes as long. Whether a renewal, which is started every twelve hours, came
to its end since then is not assumed: `late` remembers that none did, or that the
webadmin hung before nginx was told of its change, and `ServesNoExpired` excepts
what follows.

The one thing in the task manager that may fail for good without a retry is the
query of `resumeTasks` (`taskmanager.js:42` logs and returns). The variable
`resumeLost` remembers it, and the liveness properties except the time after it:
nobody wakes the queue until the next command, exit or restart. That is a limit
of the code, stated rather than hidden.

## 6. What is proved

With TLAPS, for every value of the constants that satisfies the module's
assumption. The constants' assumptions are as weak as the code has it: a finite
set of apps, at least one task at a time, and so on. Every proof has the same
form: the invariant a run checks is not inductive, so `IInv` (or a few named
invariants that are shown one after the other) adds what the code knows between
two turns; TLC checked it on the run's instance before it was proved; there is
one lemma per action and one step per conjunct the action can disturb.

| Module | Obligations | Theorems | States the property |
|---|---|---|---|
| AppLifecycleProofs, on TaskManager | 3239 in all | `TypeCorrect`, `LockCorrect`, `NobodyForgotten`, `NoAbort`, `PauseHolds`, `Implements` | `TypeOK`, `LockMatchesWork`, `NoLostWakeup`, `NeverAborts`, `MutualExclusion` |
| AppLifecycleProofs, on AppLifecycle | | `InstalledAppsHaveContainers`, `RunningAppsRun`, `LifeImplementsManager`, `QueueAlwaysWoken`, `LifeKeepsPromises` | `InstalledHasContainer`, `RunningIsRunning`, `QueueIsWoken` |
| NamesProofs, on AppNames | 2243 in all | `TypeCorrect`, `MailboxesCorrect`, `TasksCorrect` | `TypeOK`, `EveryAppHasItsMailbox`, `TasksHaveRows` |
| NamesProofs, on Dns | | `DnsTypeCorrect`, `TextsCorrect` | `DnsTypeOK`, `UserTextsKept` |
| UsersProofs | 1000 | `TypeCorrect`, `NamesCorrect`, `TokensCorrect` | `TypeOK`, `NamesHaveMailboxes`, `TokensSpent` |
| AccessProofs | 1410 | `TypeCorrect`, `SpentOnce`, `ClientKnown`, `RemovedStayOut` | `TypeOK`, `CodeSpentOnce`, `AppKnowsItsClient`, `RemovedUsersStayOut` |
| UpdatesProofs | 1404 | `TypeCorrect`, `ProgressIsLock`, `InstallerLocked`, `ToldOnce` | `TypeOK`, `ProgressMatchesLock`, `InstallerFindsLock`, `BoxMailedOnce` |
| BackupsProofs | 1861 | `TypeCorrect`, `NeededStay`, `NeededOnce` | `TypeOK`, `DependenciesKept`, `DependenciesApart` |
| ContainersProofs | 3298 | `TypeCorrect`, `RunsWithItsAddons`, `NothingLost` | `EnvIsCurrent`, `DataRecoverable` |
| PlatformProofs, on Platform | 3428 in all | `TypeCorrect`, `StartIsComplete` | `TypeOK`, `ReadyIsComplete` |
| PlatformProofs, on Certificates | | `CertTypeCorrect`, `ReloadsCorrect`, `ServedCorrect` | `NginxReloads`, `ServesNoExpired` |

**AppLifecycleProofs** has three parts. The first is about TaskManager alone, from
`TaskManagerAssumption`. None of the invariants is inductive by itself. `IInv` adds to
`TypeOK`:

- `Consistent(mem, job)`: the lock matches the work and the active tasks are
  within the limit, stated as an operator so that it can be said of the values
  `mem` takes in the middle of a turn, too;
- `ResumesBounded`: listeners and timers are together at most `Setups`, so that
  one start per process means one listener;
- `readyTimer => timers > 0` and `~paused => listeners > 0`: an unpaused task
  manager has somebody who hears `unlocked`;
- `~aborted => Awake(mem, job) \/ resuming > 0 \/ resumeLost`: a queue that is
  not empty has somebody to wake it;
- `Setups = 1 => ~aborted`.

The argument follows the code: lemmas say what each function does to `mem`
(`StartAppTask`, `StartNextTask`, `UnlockAndNotify`, the recursive function over
the callbacks of an exit) when `Consistent` holds before it, and each action is
a composition of them. `NoAbort` is conditional on `Setups = 1`; with two
listeners it is false (section 7). `NobodyForgotten` rests on `Wakeable`, a guard in
this module; the third part shows that with the database in place the guard
takes nothing away. `StaysAwake` is the step of it that those proofs use.
`Implements` proves the safety of the refinement, which is all
that OperationMutex says. Of what is proved here only `PausedStartsNothing` is in
no run.

The second part, on AppLifecycle, is for any constants.
`ContainersInv` says of each app that a row at rest (`installed`, or waiting for a
backup) has its container (`Sound`), and that what is left of a task's program
(`ProgramFits`) is a suffix of one of the programs the code has, that the container
is where this suffix takes it up, and that a program which removes the container
runs only while the row is not at rest. The last is the point: commands are
accepted while a task is at work, and the proof goes through each command to see
that none brings the row to rest under such a task.

The third part is for one start of the platform per process (`Setups = 1`). With
two, the query of the first start may be answered after the second unpaused and a
task has ended, and `QueueIsWoken` is false, for the same reason as `NeverAborts`. `WakeInv`
says that until some task of this process has ended, whatever is in the queue or
about to be put in it has unfinished business in the database (`QueueHasWork`),
so that the query finds it, and that what is queued after the query is in its answer or can
wake itself (`WorklistIsNew`). From this `LifeImplementsManager` shows that every
behaviour of AppLifecycle is one of TaskManager, whose guard `Wakeable` therefore
costs nothing, and `LifeKeepsPromises` that `NoLostWakeup`, `NeverAborts`,
`MutualExclusion` and the rest hold of the two together.

**NamesProofs** has two parts. In the first (from `AppNamesAssumption`) `IInv` adds
that ports and mailboxes have owners with rows (`Owned`), that a request past its
read knows a location its app was at (`RequestsKnow`), and that the programs of
tasks are those of the code (`TasksTyped`): a program that removes the row has
nothing after it.

The second part, on Dns, is from `DnsAssumption`. Types and the records of the user
are one argument: what a writer puts in place of a list it read long ago must have
the user's texts in it. `DnsInv` says for a user with an SPF record and one without
(`spf`) what the TXT records may be (`TextFits`: his, in the order they were listed, and
ours missing, added to his or repeated after them) and that every list of values that
is yet to be written, now or by a retry (`todo`, `late`), is his and ours together
(`WithOurs`), however stale it is. That holds as nobody else writes the rest, and no
matter which list was read: with `manual` and `noop` nothing is read or written
(`JobFits`). The hard case is a backend that writes record after record over those it
listed: `PutFits` says that the list it has is the first so many of those in the zone,
so that a record of the user is written over by itself and never by one of ours.
`TextsCorrect` is an action property: it follows for each step from `DnsInv` before
it and after it.

**UsersProofs** (from `UsersAssumption`). The type says among others that members
are users and groups that exist. `IInv` adds that each mailbox belongs to a user
or group that was made (`Owned`; it may be gone, see section 7), that a request
between two calls carries what its kind and step allow (`Requested`), and that
no secret in a row or request is newer than the last one made (`Counted`), which
is why a token written back cannot be one that was replaced.

**AccessProofs** (from `AccessAssumption`). Three invariants, each with what it needs.
`RequestInv`: a request that has read a token, a code or a client is about one that
is there or was, and one whose user was removed (`barred`) will not find him where
it looks next. `CodeInv`: a code that is being exchanged is gone and only one
request holds it, since the deletion that tells a request it may go on is one
statement that counts its rows. `TaskInv`: at each step of an app's task the OAuth
clients of the app are none, the one found, the one in the row or the one the
container gets, in the order of the steps. `Stay` says that rows never come back,
by which what a request has read stays true of some row.

**UpdatesProofs** (from `UpdatesAssumption`). `LockInv` ties the four actors of an
update together: whoever holds the lock is the task under it (`WorkFits`), the
installer is waited for or an orphan, and the box it stopped holds nothing
(`InstallerFits`). `MailInv`: as long as no two checks of the box overlapped and no
write of the file failed, the release the users were told of is not above the one a
check was told of, and that not above the one released. The proof of
`ProgressMatchesLock` failed at the update that needs no lock, which clears the
progress of one at work; the property now says so, and the run has a history in
which it happens.

**BackupsProofs** (from `BackupsAssumption`). The argument is one of age. Backups
are numbered as they are made. What a worker has made and not handed over is
`Young`: later than all that is old enough to be removed, and than all that will be
while the cleanup at work goes on (`until`). That is where the model's `Age` comes
in, which lets nothing age past a backup at work: *a backup and a cleanup each take
less than the retention time*. That is two days by default (`settings.js:118`), and
a backup task is killed after four hours; but an API request may set `retentionSecs`
to any number (`routes/settings.js:275`), and with a few seconds neither the model
nor the property holds. `CleanerFits` then says what the cleanup knows in either
pass: what box backups depend on is among what it keeps or later than what it
removes, although it read the rows before it removed any and workers add rows
meanwhile. `FullFits`: what the full backup has collected is not in another box
backup, as each is made for it.

**ContainersProofs** (from `ContainersAssumption`). A task that ends early is done
again from its first step, and while it is at work the row may say something else: a
newer command that has not stopped it yet, or the error of a crash before it. So
the argument is about the task at work, by what it has read and the steps it is past
(`Past`), and not about the row. A first group of lemmas says what order the steps of
each plan are in, and that they fit what the task does. `EnvFits` is what they leave:
after `delete` and before `create` there is no container, after `setup` the password of
redis is the one in the row, after `create` the environment is what the addons have.
Only a row at rest (installed, or waiting for a backup) says something of the app: it
is `Current`, and a task at work then is one that leaves it so (`Mild`: a backup, a
start, a stop). The last write of an old task brings a row to rest, but that task has
done all its steps. `RunFits` does the same for what runs.
For data, `MayDrop` names when the database may go: the task is past its `stop` and not
past its `start`, so that no user writes, and what was there has been given up
(`GivenUp`), or it is an update that is past its backup. `DataFits` says that `latest` is
then nothing or in a backup, and that a restore has the one it is from. Backups are
removed only while no task of the app is at work.

**PlatformProofs** (from `PlatformAssumption`). The box may end anywhere between
removing the containers and writing the file that says they are made, so the
argument is about what the file says by itself (`AddonsFit`, `AppsFit`): `same`
means all addons are there; with some images changed, all others are; and unless
the file asks for all containers to be made anew, every app that is installed or
waits for a backup has its container or was `forgotten`. `ProcessFits` says that the
timer runs and tasks work only after the file said `same`. `todo`, the addons yet
to be started, is a set with an order (`IsNext`) for this proof; as a sequence it was
a `SelectSeq`, a recursive definition of which nothing can be proved here.

The second part, on Certificates, is from `CertificatesAssumption`. `NginxReloads` is
nearly inductive: files are written before the sites that name them (`FilesFit`), once
it is known that a certificate is signed for the key that is there (`FlowRight`,
`KeysFit`). `ServesNoExpired` is not, as nginx serves what it loaded last, not what
the files say. `SiteFits` says of each site that is to be served three things: its
certificate is good until time goes on twice, or until it goes on once, while no
renewal has come to its end since the last time and one is still to look at it (`Good`,
`ToLookAt`); what nginx serves is what is
configured, or someone at work is still to have it reloaded (`InSync`, `ToReload`);
and what it serves has not expired (`ServedWell`). `InstallsGood` covers an app
between the writing of its site and the end of its task. No two apps have a domain
in common (`AppsApart`), so that a task replaces nobody else's certificate. The
steps of time are where it all comes together: `Tick` waits until every flow is idle or
hung, which turns the second halves of `Good` and `InSync` into the first ones: a task
that hangs has an app that is not installed, a webadmin that hangs with nginx not told
makes it `late`, and so does a renewal that did not come to its end.

Constructing the proofs corrected how some definitions were written, not what they
say: `CASE` with arms that overlap (TLC takes the first that holds, the semantics
any of them) became `IF` in Access, AppNames, Containers and Users, and an `@`
inside an `EXCEPT` inside another was named in Backups. In Dns the list a backend gives
(`Listed`, `get`) is stated by the positions of the records (`There`, `Before`), of
which it can be proved that each is listed once (`EachIsListed`) and, as no text is ever
deleted, that all texts are (`AllThere`); it was a `SelectSeq`, too.

Every invariant and action property of the passing runs is stated by a theorem.
Only model-checked are the liveness properties (`QueuedTaskStarts`,
`CommandSettles`, `UpdateSettles`, `RecordsFollowAddress`, `AppsComeBack`, `NoStray`,
`AnswersIsShown`), and stay so: fairness, and `ENABLED` in it, is out of the reach of
TLAPS. What the theorems take from the constants are the named assumptions of the
modules, which the runs check on their instances; Dns needs two facts of its
kind (`Ips # {}`, and `MaxRecords > 1`: the zone has room for the user's record and
ours).

## 7. Where the code disagrees with itself

Each of these states what a comment, an assertion or the schema says, at the
line quoted in `PROJECT.json` or beside the definition, and does not hold.

With a run: **configure_lost** (`InstalledIsCurrent`): a task writes `installed` at
its end whatever was accepted meanwhile. In the trace the late write of a crash puts
an app in error whose install has been started again; a configure is accepted on
that, the install ends with `installed` (`apptask.js:426`), and the task of the
configure finds nothing to do. A second configure that is accepted while the first is
about to end is lost in the same way (`apptask.js:516`).

As definitions without a run of their own; to see the trace, name the
definition in the config of the module:

| Module | Definition | What happens |
|---|---|---|
| TaskManager | `NeverAborts` | two overlapping `dns_setup` requests start the platform twice: one unlock then starts two tasks, and with four apps the assertion in `startNextTask` ends the box (`Setups = 2`, four apps) |
| AppLifecycle | `ErrorHasCause` | with `Faults = FALSE`: a task that gets SIGTERM before its handler is there counts as crashed, or a late crash write hits the next state |
| AppLifecycle | `UninstallSettles` | a command between stop and mark has a task of its own, whose final write hides the uninstall |
| AppLifecycle | `RunCommandSettles` | the task of a configure never looks at a pending start or stop |
| AppNames | `ConfigureAllowed` | a configure that is refused has renamed the mailbox already, and every later move of the app is refused |
| AppNames | `PortsChangeByCommand` | an update that the `WHERE` refuses has replaced the ports (`Commands <- Updates`) |
| AppNames | `RefusesOnlyForeign` | an interrupted install refuses its own DNS record on a custom domain (`Commands <- NoCommands` is enough) |
| AppNames | `RecordsInUseStay` | a late configure removes the record of an old location another app has since (`Commands <- Moves`) |
| Backups | `ValidBackupKept` | a box backup in the making says `normal`; the cleanup keeps it as the valid one and removes the last complete one |
| Backups | `RestoresChosen` | a full backup that runs when a restore is asked for overwrites the backup the user chose |
| Backups | `CopyFindsBackup` | the cleanup removes the last backup of an app that can only be copied |
| Users | `OwnersExist` | an update or a list of aliases that comes after the removal of its user inserts mailboxes without owner |
| Users | `AliasesLead` | a rename leaves the aliases of the old name behind |
| Users | `PasswordsReplaced` | an invitation writes back the password it read before a change |
| Users | `OneActivation` | two activations that overlap make two owners |
| Users | `AdminRemains` | two administrators can remove each other, or one be taken out of the group |
| Users | `EveryoneAnswered` | a user without a username makes one path of `user.js` call nobody |
| Access | `TokensHaveClients` | a client is deleted while a token for it is being added, or an external one without its tokens |
| Access | `AccessNow` | a bind looks for its user in the groups the row of the app named when it was read, which it may not name any more |
| Updates | `BoxComesBack` | an installer that fails after it stopped the box leaves it down |
| Updates | `AutoUpdateNeverThrows` | an update of an app that is forgotten while others are updated ends the box |
| Updates | `NoNeedlessUpdate` | an app is updated to the version it was updated to by hand |
| Certificates | `GoneIsNotServed`, `ServedAtItsDomain` | the renewal configures the apps as it read them, gone or moved since |
| Certificates | `UserCertificateServed` | a certificate that was being obtained when the user gave one is configured over it |
| Certificates | `NeverServesExpired` | a renewal that gives up (`certificates.js:214`) or is never called back (`cert/acme.js:353`, `:358`) does not fall back, nor look at the sites after |
| Certificates | `NginxAlwaysReloads` | the causes that `mishap` notes |
| Containers | `DeathIsShown` | the mail about an app is sent once, and a death after that is not written to the row either: the app stays shown as healthy (`apphealthmonitor.js:49`) |
| Dns | `OneSpf` | two writers at once add two SPF records (`cloudron.js:508`: there can only be one) |
| Dns | `TheirsKept` | a configure updates a record an install would have refused (`apptask.js:232`, `:484`) |
| Dns | `GoneHasNoRecord` | a refresh that read the row writes the record of an app that is gone |
| Platform | `NoneForgotten` | an app whose backup is due when the containers are removed is not marked (`platform.js:361`) |
| Platform | `MailFollowsSettings` | two starts of the mail server at once, or a box that ends between removing and starting it, leave it with old settings or down (`platform.js:43`, `cloudron.js:164`) |
| Platform | `DisabledIsQuiet` | enabling dynamic DNS twice leaves a job that nothing stops |

Others were met while modelling; the actions behave as the code does, and no
property is about them:

- **Access**: `cid-cli` has the scope `'*, roleSdk'` (`clients.js:334`), one scope by
  that name; setting up an account or a password issues a token for `*`.
- **Updates**: `update.sh:40` and `installer.sh:57` count their tries to ten and
  then test for exactly ten, so that a last try that succeeds counts as failed; the
  notice of an app update is lost when the subscription cannot be looked up; a box
  update that cannot be installed by itself (a major one) stops the automatic
  updates of apps (`cron.js:202`); the lock stays when `retire.sh` fails
  (`UpdateSettles` excepts it).
- **Certificates**: the files the user gives with a configure are written, or those
  that are there unlinked, before it is decided whether the configure is accepted
  (`apps.js:573-583`): a refused one leaves them so, also when they are another site's,
  and an accepted one before its task configures nginx.
- **Dns**: `cloudflare.js:206` takes an answer of 204 alone for success;
  `digitalocean.js:166` removes the first match; a stale list of TXT values is
  written again by every retry.
- **Platform**: a crash while the file of containers is written makes it corrupt,
  and all apps are restored; a setting that is changed before the jobs exist
  throws; a change of the time zone leaves two jobs with the old one;
  `alertsTo.concat(...)` is dropped (`platform.js:248`).
- **Containers**: `doTask` uses `gState[appId]` after an await, which throws when the
  app is gone (`LookupThrows`, `scheduler.js:158`); the container of a scheduled
  command whose app is removed around a restart is never removed (`lost`);
  a kill that fails is no more than logged, the removed apps after it are skipped and
  all of them forgotten (`scheduler.js:38-44`, `KillFails`); an
  interrupted update that is done again backs up addons it has torn down.
- **Backups**: `removeBackups` without credentials goes on twice and ends the box
  (`RemoveThrows`); a backup task that gets SIGTERM exits with 0 and its backup
  counts as normal.

## 8. What is not modelled

- **In the modelled parts.** AppLifecycle: icons, collectd, clone, debug mode, exec
  and logs. AppNames: clone (as install). Backups: the four hours after which a
  backup task is killed, the limit of 1000 rows, two rows with the same time,
  `ensureBackup`'s choice of the moment, buckets that remove some of a list, a
  change of the provider. Users: email addresses, display names, the verification of
  a password, ghost and demo users. Access: the pages of the login, scopes other
  than `settings` and `profile`, LDAP searches, the flag `sso` of an app. Updates:
  `DownloadFails` is one outcome for the tries of a download; `BoxMailedOnce` is
  about the box half of the state file alone, and nothing is said of a user who is
  never told. Certificates: challenges and nonces of ACME, the files given with an
  install (`apps.js:494-498`). Dns: the zone of a provider as it is paged, the check
  of name servers and credentials of a new configuration, whose trial record is
  there (`Probe`), nameservers that are down (a change then counts as seen).
  Platform: starts of the platform that overlap (TaskManager has their listeners).
  Containers: clone, whose program is that of a restore for a new row; looks of the
  scheduler that overlap, and how long a scheduled command runs; what an addon does
  differently from others of its kind, local storage, logs. What a command finds in
  the row and what it writes is of one moment there, as are the kill of a task and
  the start of the next, a tick of a job and the kill of what is left from the one
  before; an app is removed by one request at a time; and the retention time is
  longer than a task takes, as in Backups. What users write before the `stop` of a
  command that gives the data up, or between the start of a new install and its end
  when that is done again, is given up with the rest. Purchases at the app store
  that are not undone.
- **Database access** (`database.js`): its queries and transactions are the atomic
  steps of all modules. That a rollback may be reported as done
  (`database.js:169`) and what becomes of a connection that is lost are its own
  questions, and are left for a module of its own.
- **Event log, janitor, digest**: rows appended, read and deleted by age. The
  janitor's cleanup of tokens and codes is in Access.
- **Mail, HTTP routes, shell, web administration**: no state of their own beyond
  a queue of mails; their checks are in the modules they call.
- **Installation and migrations**: scripts that run once, in order. What of them an
  update runs is in Updates (`ConfigureHost`, `StartCloudron`).

## 9. Plan

Done: every part of the system with state of its own, the database apart; proofs
of every invariant and action property that is checked.

What is left:

1. What AppLifecycle and Containers say of the same task: that the steps of
   Containers are those of AppLifecycle with more in between.
2. Database (`database.js`): five pool connections, transactions with failures
   at each call, reconnects; the abstract specification is a pool of permits.
