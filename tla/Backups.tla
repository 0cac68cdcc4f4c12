------------------------------- MODULE Backups -------------------------------
(***************************************************************************)
(* Backups of the apps and of the box: the database rows                   *)
(* (src/src/backupdb.js), what lies in storage (src/src/storage), each     *)
(* app's restore point (lastBackupId), the full backup, the backup an      *)
(* apptask makes of its app, and the cleanup (src/src/backups.js).         *)
(*                                                                         *)
(* Backups are numbered in the order of their creation.  The age that      *)
(* cleanup compares with the retention time is a threshold: the backups up *)
(* to number aged are older.  The locker keeps full backups and apptasks   *)
(* apart; nothing keeps the cleanup, or a command, apart from them.        *)
(***************************************************************************)
EXTENDS Integers, FiniteSets, FiniteSetsExt

CONSTANTS
    Apps,          \* app ids
    Full,          \* the worker that makes full backups; each app is one, too
    Providers,     \* the kinds of storage
    MaxBackups,    \* bound: backups ever made
    MaxEvents      \* bound: restores asked for and restarts of the box

ASSUME BackupsAssumption ==
    /\ Full \notin Apps
    /\ Providers \subseteq {"filesystem", "s3", "caas"}
    /\ MaxBackups \in Nat
    /\ MaxEvents \in Nat

VARIABLES
    rows,       \* rows[b]: the row of backup b
    provider,   \* the kind of storage, which is not changed
    content,    \* content[b]: what storage has of b
    made,       \* backups made so far, hence the number of the last one
    last,       \* last[a]: lastBackupId, 0 when there is none
    chosen,     \* chosen[a]: the backup a restore of a waits to be run from
    restores,   \* restores asked for
    job,        \* job[w]: how far worker w is
    cleaner,    \* how far the cleanup is
    aged,       \* the backups 1 .. aged are older than the retention time
    stopping,   \* systemd has sent SIGTERM to the box and to its backup tasks
    restarts    \* restarts so far

dbVars == <<rows, last>>
vars == <<dbVars, provider, content, made, chosen, restores, job, cleaner, aged, stopping, restarts>>

Workers == Apps \cup {Full}
Ids == 1 .. MaxBackups
Nothing == -1   \* no restore is asked for; a restore from 0 is a reinstall

NoRow == [type |-> "none", state |-> "none", dependsOn |-> {}, of |-> 0]
Exists(b) == rows[b].type # "none"
BoxRows == {b \in Ids : rows[b].type = "box"}
AppRows == {b \in Ids : rows[b].type = "app"}

\* Storage: never there, cut short, whole, or removed; of: the backup whose data b is a
\* copy of.
Missing == "missing"
Partial == "partial"
Whole == "whole"
Removed == "removed"
Stored(b) == content[b] \in {Partial, Whole}

\* job: the apps still to back up and those it can (as read at the start, as is
\* lastBackupId), the backup at work, its app (Full for the box) and those done.
IdleJob == [step |-> "idle", todo |-> {}, can |-> {}, read |-> [a \in Apps |-> 0],
            id |-> 0, app |-> Full, done |-> {}]
\* cleaner: the backups to remove and those referenced; until: what may age while
\* it works.
IdleCleaner == [step |-> "idle", doomed |-> {}, kept |-> {}, until |-> MaxBackups]

Init ==
    /\ rows = [b \in Ids |-> NoRow]
    /\ provider \in Providers
    /\ content = [b \in Ids |-> Missing]
    /\ made = 0
    /\ last = [a \in Apps |-> 0]
    /\ chosen = [a \in Apps |-> Nothing]
    /\ restores = 0
    /\ job = [w \in Workers |-> IdleJob]
    /\ cleaner = IdleCleaner
    /\ aged = 0
    /\ stopping = FALSE
    /\ restarts = 0

-----------------------------------------------------------------------------
(***************************************************************************)
(* Making backups.                                                         *)
(***************************************************************************)
\* The lock: OP_FULL_BACKUP alone, OP_APPTASK with others of its kind.
Unlocked(w) ==
    IF w = Full THEN \A v \in Workers : job[v].step = "idle" ELSE job[Full].step = "idle"

\* canBackupApp: what an apptask backs up qualifies, what is being restored does
\* not; otherwise health and state, which others set, decide.
Start(w) ==
    /\ ~stopping
    /\ job[w].step = "idle"
    /\ Unlocked(w)
    /\ w # Full => chosen[w] = Nothing
    /\ made < MaxBackups
    /\ \E can \in SUBSET {a \in Apps : chosen[a] = Nothing} :
         /\ w # Full => w \in can
         /\ job' = [job EXCEPT ![w] = [IdleJob EXCEPT !.step = "next", !.can = can, !.read = last,
                                                   !.todo = IF w = Full THEN Apps ELSE {w}]]
    /\ UNCHANGED <<dbVars, provider, content, made, chosen, restores, cleaner, aged, stopping, restarts>>

\* backupdb.add: the row is normal from the start.
AddRow(b, type, deps, of) ==
    rows' = [rows EXCEPT ![b] = [type |-> type, state |-> "normal", dependsOn |-> deps, of |-> of]]

\* What writing the archive of some directories comes to, and what is then in storage.
\* The task exits with 0 when it gets SIGTERM, whatever it has written.
Outcome(has, step) == [has |-> has, step |-> step]

create(left) ==
    {Outcome(Whole, "stored"), Outcome(left, "failed")}
      \cup (IF stopping THEN {Outcome(left, "stored")} ELSE {})

\* A file stays as far as it was written; an upload is there when it is complete, and
\* needs credentials of the app store with caas.
backup ==
    CASE provider = "filesystem" -> create(Partial)
      [] provider \in {"s3", "caas"} -> create(Missing)

\* A copy is as whole as what it copies.  A file that cannot be read is copied to an
\* empty one.
copyFile(source) ==
    {Outcome(Partial, "failed")}
      \cup (IF Stored(source) THEN {Outcome(content[source], "stored")} ELSE {})

copyObject(source) ==
    {Outcome(Missing, "failed")}
      \cup (IF Stored(source) THEN {Outcome(content[source], "stored")} ELSE {})

copyBackup(source) == IF provider = "filesystem" THEN copyFile(source) ELSE copyObject(source)

\* The file is made at once, and stays when the box ends.
Begun == IF provider = "filesystem" THEN Partial ELSE Missing

-----------------------------------------------------------------------------
Add(w, a, of, step) ==
    LET b == made + 1
    IN  /\ b <= MaxBackups
        /\ made' = b
        /\ AddRow(b, "app", {}, of)
        /\ content' = [content EXCEPT ![b] = Begun]
        /\ job' = [job EXCEPT ![w].step = step, ![w].id = b, ![w].app = a, ![w].todo = @ \ {a}]

createNewAppBackup(w, a) == Add(w, a, made + 1, "store")

\* "so that the backup persists across time based archival rules"
copyLastBackup(w, a) == Add(w, a, rows[job[w].read[a]].of, "copy")

\* Mutant of BeginApp: an app that cannot be backed up counts with its last backup,
\* which is not copied.
BeginAppKeepsLast(w, a) ==
    LET j == job[w]
    IN  /\ j.step = "next" /\ a \in j.todo
        /\ \/ a \in j.can /\ createNewAppBackup(w, a)
           \/ /\ a \notin j.can
              /\ job' = [job EXCEPT ![w].todo = @ \ {a}, ![w].done = @ \cup ({j.read[a]} \ {0})]
              /\ UNCHANGED <<rows, content, made>>
        /\ UNCHANGED <<last, provider, chosen, restores, cleaner, aged, stopping, restarts>>

\* An app that cannot be backed up has its last backup copied; one that has none is
\* passed over by a full backup (BAD_STATE).  The row of what is copied may be gone.
BeginApp(w, a) ==
    LET j == job[w]
    IN  /\ j.step = "next" /\ a \in j.todo
        /\ \/ a \in j.can /\ createNewAppBackup(w, a)
           \/ a \notin j.can /\ j.read[a] # 0 /\ copyLastBackup(w, a)
           \/ /\ a \notin j.can /\ j.read[a] = 0
              /\ job' = [job EXCEPT ![w] = IF w = Full THEN [j EXCEPT !.todo = @ \ {a}] ELSE IdleJob]
              /\ UNCHANGED <<rows, content, made>>
        /\ UNCHANGED <<last, provider, chosen, restores, cleaner, aged, stopping, restarts>>

\* After the apps, the box, which depends on what was backed up of them.
BeginBox ==
    LET j == job[Full]
        b == made + 1
    IN  /\ j.step = "next" /\ j.todo = {}
        /\ b <= MaxBackups
        /\ made' = b
        /\ AddRow(b, "box", j.done, b)
        /\ content' = [content EXCEPT ![b] = Begun]
        /\ job' = [job EXCEPT ![Full].step = "store", ![Full].id = b, ![Full].app = Full]
        /\ UNCHANGED <<last, provider, chosen, restores, cleaner, aged, stopping, restarts>>

End(w, outcome) ==
    /\ content' = [content EXCEPT ![job[w].id] = outcome.has]
    /\ job' = [job EXCEPT ![w].step = outcome.step]
    /\ UNCHANGED <<dbVars, provider, made, chosen, restores, cleaner, aged, stopping, restarts>>

\* The backup task, or the copy, comes to its end.
BackupTaskEnds(w) == job[w].step = "store" /\ \E outcome \in backup : End(w, outcome)

CopyEnds(w) ==
    /\ job[w].step = "copy"
    /\ \E outcome \in copyBackup(job[w].read[job[w].app]) : End(w, outcome)

\* backupdb.update; a failure ends the job, and of a full backup with it the box's.
SetState(w) ==
    LET j == job[w]
        state == IF j.step = "stored" THEN "normal" ELSE "error"
    IN  /\ j.step \in {"stored", "failed"}
        /\ rows' = [rows EXCEPT ![j.id].state = IF Exists(j.id) THEN state ELSE @]
        /\ job' = [job EXCEPT ![w] = IF j.step = "failed" \/ j.app = Full THEN IdleJob
                                     ELSE [j EXCEPT !.step = "point"]]
        /\ UNCHANGED <<last, provider, content, made, chosen, restores, cleaner, aged, stopping, restarts>>

SetRestorePoint(w) ==
    LET j == job[w]
    IN  /\ j.step = "point"
        /\ last' = [last EXCEPT ![j.app] = j.id]
        /\ job' = [job EXCEPT ![w] = IF w = Full THEN [j EXCEPT !.step = "next", !.done = @ \cup {j.id}]
                                     ELSE IdleJob]
        /\ UNCHANGED <<rows, provider, content, made, chosen, restores, cleaner, aged, stopping, restarts>>

\* What a full backup does besides (the dump of the database) fails, or the write of the
\* state or of the restore point does.
Abort(w) ==
    /\ job[w].step \in {"next", "stored", "failed", "point"}
    /\ job' = [job EXCEPT ![w] = IdleJob]
    /\ UNCHANGED <<dbVars, provider, content, made, chosen, restores, cleaner, aged, stopping, restarts>>

-----------------------------------------------------------------------------
\* Mutant of Restore: the backup is not looked up.
RestoreUnknown(a, b) ==
    /\ ~stopping
    /\ restores + restarts < MaxEvents
    /\ chosen[a] = Nothing
    /\ job[a].step = "idle"
    /\ last' = [last EXCEPT ![a] = b]
    /\ chosen' = [chosen EXCEPT ![a] = b]
    /\ restores' = restores + 1
    /\ UNCHANGED <<rows, provider, content, made, job, cleaner, aged, stopping, restarts>>

\* apps.restore: lastBackupId passes the backup to restore from to the apptask.
Restore(a, b) ==
    /\ ~stopping
    /\ restores + restarts < MaxEvents
    /\ chosen[a] = Nothing
    /\ b # 0 => rows[b].type = "app"
    /\ job[a].step = "idle"
    /\ last' = [last EXCEPT ![a] = b]
    /\ chosen' = [chosen EXCEPT ![a] = b]
    /\ restores' = restores + 1
    /\ UNCHANGED <<rows, provider, content, made, job, cleaner, aged, stopping, restarts>>

\* The apptask reads lastBackupId when it gets the lock.
RestoreTask(a) ==
    /\ chosen[a] # Nothing
    /\ job[Full].step = "idle"
    /\ chosen' = [chosen EXCEPT ![a] = Nothing]
    /\ UNCHANGED <<dbVars, provider, content, made, restores, job, cleaner, aged, stopping, restarts>>

-----------------------------------------------------------------------------
\* What the process remembers is gone, and it comes back.
ProcessGone ==
    /\ restarts' = restarts + 1
    /\ stopping' = FALSE
    /\ job' = [w \in Workers |-> IdleJob]
    /\ cleaner' = IdleCleaner

-----------------------------------------------------------------------------
(***************************************************************************)
(* Cleaning up: first the box backups, newest first, then the app backups. *)
(***************************************************************************)
\* Mutant of Referenced: only what the preserved backup depends on.
ReferencedByPreserved(preserved) == UNION {rows[b].dependsOn : b \in preserved}

Referenced(preserved) == UNION {rows[b].dependsOn : b \in BoxRows}

\* "keep the first valid backup".
Preserved ==
    LET valid == {b \in BoxRows : rows[b].state = "normal"}
    IN  IF valid = {} THEN {} ELSE {Max(valid)}

\* The last backup that was finished before those now at work began.
Finished ==
    Min({made + 1} \cup UNION {job[w].done \cup {job[w].id} : w \in {v \in Workers : job[v].id # 0}}) - 1

CleanBoxes ==
    /\ ~stopping
    /\ cleaner = IdleCleaner
    /\ BoxRows # {}
    /\ cleaner' = [step |-> "boxes",
                   doomed |-> {b \in BoxRows \ Preserved : b <= aged},
                   kept |-> Referenced(Preserved),
                   until |-> Finished]
    /\ UNCHANGED <<dbVars, provider, content, made, chosen, restores, job, aged, stopping, restarts>>

\* Without a box backup everything unreferenced goes.
CleanApps ==
    /\ \/ cleaner = IdleCleaner /\ BoxRows = {} /\ ~stopping
       \/ cleaner.step = "boxes" /\ cleaner.doomed = {}
    /\ cleaner' = [step |-> "apps", kept |-> {},
                   doomed |-> {b \in AppRows \ cleaner.kept : b <= aged},
                   until |-> IF cleaner = IdleCleaner THEN Finished ELSE cleaner.until]
    /\ UNCHANGED <<dbVars, provider, content, made, chosen, restores, job, aged, stopping, restarts>>

\* A backup and what it depends on leave the storage, and then the database.
Family(b) == {b} \cup rows[b].dependsOn

\* "Not fatal": what the bucket does not remove counts as removed, all of it here.
removeObjects(S) == {[b \in Ids |-> IF b \in S THEN Removed ELSE content[b]], content}
removeFiles(S) == {[b \in Ids |-> IF b \in S THEN Removed ELSE content[b]]}

removeBackups(S) == IF provider = "filesystem" THEN removeFiles(S) ELSE removeObjects(S)

RemoveFiles ==
    /\ cleaner.step \in {"boxes", "apps"}
    /\ cleaner.doomed # {}
    /\ content' \in removeBackups(Family(Max(cleaner.doomed)))
    /\ cleaner' = [cleaner EXCEPT !.step = IF @ = "boxes" THEN "box row" ELSE "app row"]
    /\ UNCHANGED <<dbVars, provider, made, chosen, restores, job, aged, stopping, restarts>>

RemoveRows ==
    /\ cleaner.step \in {"box row", "app row"}
    /\ rows' = [b \in Ids |-> IF b \in Family(Max(cleaner.doomed)) THEN NoRow ELSE rows[b]]
    /\ cleaner' = [cleaner EXCEPT !.step = IF @ = "box row" THEN "boxes" ELSE "apps",
                                  !.doomed = @ \ {Max(@)}]
    /\ UNCHANGED <<last, provider, content, made, chosen, restores, job, aged, stopping, restarts>>

\* Without credentials nothing is removed from storage; the row is, and then the
\* iteration goes on for the second time, which throws.
RemoveThrows ==
    /\ provider = "caas" /\ restores + restarts < MaxEvents
    /\ cleaner.step \in {"boxes", "apps"}
    /\ cleaner.doomed # {}
    /\ rows' = [b \in Ids |-> IF b \in Family(Max(cleaner.doomed)) THEN NoRow ELSE rows[b]]
    /\ ProcessGone
    /\ UNCHANGED <<last, provider, content, made, chosen, restores, aged>>

CleanDone ==
    /\ cleaner.step = "apps" /\ cleaner.doomed = {}
    /\ cleaner' = IdleCleaner
    /\ UNCHANGED <<dbVars, provider, content, made, chosen, restores, job, aged, stopping, restarts>>

-----------------------------------------------------------------------------
\* Time passes; a backup and a cleanup each take less than the retention time.
Age ==
    /\ ~stopping
    /\ aged < Finished
    /\ aged < cleaner.until
    /\ aged' = aged + 1
    /\ UNCHANGED <<dbVars, provider, content, made, chosen, restores, job, cleaner, stopping, restarts>>

\* systemd stops the box: every process of it gets SIGTERM, and the box itself
\* lives for three more seconds.
Stop ==
    /\ restores + restarts < MaxEvents
    /\ ~stopping
    /\ stopping' = TRUE
    /\ UNCHANGED <<dbVars, provider, content, made, chosen, restores, job, cleaner, aged, restarts>>

\* The box ends, by that or by a crash, and comes back.
Restart ==
    /\ restores + restarts < MaxEvents
    /\ ProcessGone
    /\ UNCHANGED <<dbVars, provider, content, made, chosen, restores, aged>>

Next ==
    \/ \E w \in Workers :
         \/ Start(w)
         \/ \E a \in Apps : BeginApp(w, a)
         \/ BackupTaskEnds(w)
         \/ CopyEnds(w)
         \/ SetState(w)
         \/ SetRestorePoint(w)
         \/ Abort(w)
    \/ BeginBox
    \/ \E a \in Apps : (\E b \in 0 .. MaxBackups : Restore(a, b)) \/ RestoreTask(a)
    \/ CleanBoxes
    \/ CleanApps
    \/ RemoveFiles
    \/ RemoveRows
    \/ RemoveThrows
    \/ CleanDone
    \/ Age
    \/ Stop
    \/ Restart

Spec == Init /\ [][Next]_vars

-----------------------------------------------------------------------------
Row ==
    [type : {"none", "app", "box"}, state : {"none", "normal", "error"}, dependsOn : SUBSET Ids,
     of : 0 .. MaxBackups]

Job ==
    [step : {"idle", "next", "store", "copy", "stored", "failed", "point"}, todo : SUBSET Apps,
     can : SUBSET Apps, read : [Apps -> 0 .. MaxBackups], id : 0 .. MaxBackups, app : Workers,
     done : SUBSET Ids]

Cleaner ==
    [step : {"idle", "boxes", "box row", "apps", "app row"}, doomed : SUBSET Ids,
     kept : SUBSET Ids, until : 0 .. MaxBackups]

\* Every variable holds a value the code can give it: no row, restore point, job or
\* cleanup knows of a backup that was never made.
TypeOK ==
    /\ rows \in [Ids -> Row]
    /\ \A b \in Ids : rows[b].of <= b
    /\ provider \in Providers
    /\ content \in [Ids -> {Missing, Partial, Whole, Removed}]
    /\ made \in 0 .. MaxBackups
    /\ last \in [Apps -> 0 .. made]
    /\ chosen \in [Apps -> Nothing .. made]
    /\ restores \in 0 .. MaxEvents
    /\ job \in [Workers -> Job]
    /\ \A w \in Workers : job[w].id <= made /\ \A a \in Apps : job[w].read[a] <= made
    /\ cleaner \in Cleaner
    /\ aged \in 0 .. made
    /\ stopping \in BOOLEAN
    /\ restarts \in 0 .. MaxEvents

(***************************************************************************)
(* What a box backup depends on is there as long as the box backup is, in  *)
(* the database and in storage: cleanup, whose two passes decide on what   *)
(* they read at their start, removes no app backup that a box backup       *)
(* refers to, though it be older than the box backup and past its time.    *)
(***************************************************************************)
DependenciesKept ==
    \A b \in BoxRows :
       /\ \A d \in rows[b].dependsOn : Exists(d)
       /\ Stored(b) => \A d \in rows[b].dependsOn : content[d] # Removed

(***************************************************************************)
(* Apps and the box depend on different backups: no backup is removed with *)
(* a box backup that another box backup needs.                             *)
(***************************************************************************)
DependenciesApart ==
    \A b, c \in BoxRows : b # c => rows[b].dependsOn \cap rows[c].dependsOn = {}

-----------------------------------------------------------------------------
(***************************************************************************)
(* What the code says of itself and does not do; each of these fails.      *)
(***************************************************************************)

\* A box backup to restore everything from.
Restorable(b) ==
    /\ rows[b].type = "box" /\ rows[b].state = "normal"
    /\ \A d \in Family(b) : content[d] = Whole

\* "keep the first valid backup": cleanup leaves a backup to restore the box from
\* when there was one.
ValidBackupKept ==
    [][(\E b \in Ids : Restorable(b)) => (\E b \in Ids : Restorable(b)')]_vars

\* "used to pass backupId to restore from to apptask": until the task has read it,
\* an app's restore point is the data the user chose.
DataOf(b) == IF b = 0 THEN 0 ELSE rows[b].of
RestoresChosen ==
    \A a \in Apps : chosen[a] # Nothing => last[a] = chosen[a] \/ DataOf(last[a]) = DataOf(chosen[a])

\* "Ensure backups of failed apps are retained across archival cycles": the backup
\* of an app that can only be copied is there to be copied.
CopyFindsBackup ==
    \A w \in Workers :
       job[w].step = "copy" => Stored(job[w].read[job[w].app])
=============================================================================
