---------------------------- MODULE BackupsProofs ---------------------------
(***************************************************************************)
(* The safety of Backups for any apps, any kinds of storage and any        *)
(* bounds: cleanup removes nothing a box backup depends on, whatever is    *)
(* backed up, copied, restored, stopped or restarted meanwhile.            *)
(*                                                                         *)
(* The argument is one of age.  What a worker has made is younger than     *)
(* whatever the cleanup may remove (until bounds what ages as it works),   *)
(* and what the finished box backups depend on is among what the cleanup   *)
(* keeps or younger.                                                       *)
(***************************************************************************)
EXTENDS Backups, WellFoundedInduction, TLAPS

AtWork == {"store", "copy", "stored", "failed", "point"}

\* Backups have rows in the order they were made, and the box backups depend on earlier ones.
RowFits(b) ==
    /\ rows[b].type # "none" => b <= made
    /\ rows[b].type # "box" => rows[b].dependsOn = {}
    /\ \A d \in rows[b].dependsOn : d < b

RowsFit == \A b \in Ids : RowFits(b)

\* What a worker's step says of the backup it is at and of those it is done with.
StepFits(j) ==
    /\ j.step = "idle" => j = IdleJob
    /\ j.step \in AtWork => j.id # 0
    /\ j.step = "copy" => j.app \in Apps /\ j.read[j.app] # 0
    /\ j.step = "point" => j.app \in Apps
    /\ j.step = "next" => j.id \in j.done \cup {0}
    /\ j.id = 0 => j.done = {}

\* Out of the reach of the cleanup.
Young(d) == d > aged /\ (cleaner.step # "idle" => d > cleaner.until)

BackedUp(d, type) == rows[d].type = type /\ content[d] # Removed /\ Young(d)

JobFits(w) ==
    /\ StepFits(job[w])
    /\ job[w].id # 0 => BackedUp(job[w].id, IF job[w].app = Full THEN "box" ELSE "app")
    /\ \A d \in job[w].done : BackedUp(d, "app")

JobsFit == \A w \in Workers : JobFits(w)

\* What the full backup is to depend on no box backup depends on yet.
FullFits ==
    \A c \in Ids :
       rows[c].type = "box" /\ c # job[Full].id =>
          rows[c].dependsOn \cap (job[Full].done \cup {job[Full].id}) = {}

\* In its first pass the cleanup removes box backups, in its second what none refers to.
CleanerFits ==
    /\ cleaner.step = "idle" => cleaner = IdleCleaner
    /\ cleaner.step # "idle" => aged <= cleaner.until /\ cleaner.until <= made
    /\ \A b \in cleaner.doomed : b <= cleaner.until
    /\ cleaner.step \in {"box row", "app row"} => cleaner.doomed # {}
    /\ cleaner.step \in {"boxes", "box row"} =>
         /\ \A b \in cleaner.doomed : rows[b].type # "app"
         /\ \A c \in Ids : rows[c].type = "box" =>
               \A d \in rows[c].dependsOn : d \in cleaner.kept \/ d > cleaner.until
    /\ cleaner.step \in {"apps", "app row"} =>
         /\ \A b \in cleaner.doomed : rows[b].type # "box"
         /\ \A c \in Ids : rows[c].type = "box" => rows[c].dependsOn \cap cleaner.doomed = {}

\* As DependenciesKept, and also before the box backup is whole.
NeededKept ==
    \A c \in Ids : rows[c].type = "box" =>
       \A d \in rows[c].dependsOn :
          rows[d].type = "app" /\ (content[c] # Removed => content[d] # Removed)

Safe == RowsFit /\ JobsFit /\ FullFits /\ CleanerFits /\ NeededKept /\ DependenciesApart

IInv == TypeOK /\ Safe

-----------------------------------------------------------------------------
(* Numbers have a least and a greatest. *)
LEMMA Least ==
    ASSUME NEW S, S \subseteq Nat, S # {}
    PROVE  Min(S) \in S /\ \A y \in S : Min(S) <= y
<1> DEFINE R == OpToRel(<, Nat)
<1>0. IsWellFoundedOn(R, Nat)
  BY NatLessThanWellFounded
<1> HIDE DEF R
<1>1. PICK x \in S : \A y \in S : ~(<<y, x>> \in R)
  BY <1>0, WFMin
<1>2. \A y \in S : x <= y
  <2>1. SUFFICES ASSUME NEW y \in S, ~(x <= y) PROVE FALSE
    OBVIOUS
  <2>2. x \in Nat /\ y \in Nat /\ y < x
    BY <2>1
  <2>3. <<y, x>> \in R
    BY <2>2 DEF R, OpToRel
  <2> QED
    BY <1>1, <2>3
<1> QED
  BY <1>2 DEF Min

LEMMA Greatest ==
    ASSUME NEW n \in Nat, NEW S \in SUBSET (1 .. n), S # {}
    PROVE  Max(S) \in S
<1> DEFINE T == {n - x : x \in S}
<1>0. \A x \in S : x \in Nat /\ n - x \in Nat
  OBVIOUS
<1>1. T \subseteq Nat /\ T # {}
  BY <1>0
<1>2. Min(T) \in T /\ \A y \in T : Min(T) <= y
  BY <1>1, Least
<1>3. PICK x \in S : Min(T) = n - x
  BY <1>2
<1>4. ASSUME NEW y \in S PROVE x >= y
  <2>1. n - y \in T
    OBVIOUS
  <2>2. n - x <= n - y
    BY <1>2, <1>3, <2>1
  <2> QED
    BY <2>2
<1> HIDE DEF T
<1> QED
  BY <1>4 DEF Max

-----------------------------------------------------------------------------
(* The values everything starts from. *)
LEMMA Bounds ==
    /\ MaxBackups \in Nat /\ MaxEvents \in Nat
    /\ Full \notin Apps /\ Full \in Workers /\ Apps \subseteq Workers
    /\ \A w \in Workers : w # Full => w \in Apps
    /\ Ids \subseteq Nat /\ \A b \in Ids : b # 0 /\ b \in 0 .. MaxBackups
    /\ \A b \in 0 .. MaxBackups : b # 0 => b \in Ids
    /\ 0 \in 0 .. MaxBackups
BY BackupsAssumption DEF BackupsAssumption, Workers, Ids

LEMMA Empty ==
    /\ NoRow \in Row
    /\ IdleJob \in Job
    /\ IdleCleaner \in Cleaner
<1>1. NoRow \in Row
  BY Bounds DEF NoRow, Row
<1>2. IdleJob \in Job
  <2>1. [a \in Apps |-> 0] \in [Apps -> 0 .. MaxBackups]
    BY Bounds
  <2> QED
    BY <2>1, Bounds DEF IdleJob, Job
<1>3. IdleCleaner \in Cleaner
  BY Bounds DEF IdleCleaner, Cleaner
<1> QED
  BY <1>1, <1>2, <1>3

LEMMA IdleIs ==
    /\ IdleJob.step = "idle" /\ IdleJob.id = 0 /\ IdleJob.done = {} /\ IdleJob.app = Full
    /\ \A a \in Apps : IdleJob.read[a] = 0
    /\ IdleCleaner.step = "idle" /\ IdleCleaner.doomed = {}
BY DEF IdleJob, IdleCleaner

LEMMA InitTypes == Init => TypeOK
<1> SUFFICES ASSUME Init PROVE TypeOK
  OBVIOUS
<1>1. rows \in [Ids -> Row] /\ job \in [Workers -> Job] /\ cleaner \in Cleaner
  BY Empty DEF Init
<1>2. \A b \in Ids : rows[b].of <= b
  BY Bounds DEF Init, NoRow
<1>3. content \in [Ids -> {Missing, Partial, Whole, Removed}] /\ provider \in Providers
  BY DEF Init
<1>4. made = 0 /\ restores = 0 /\ aged = 0 /\ restarts = 0 /\ stopping \in BOOLEAN
  BY DEF Init
<1>5. last \in [Apps -> 0 .. made] /\ chosen \in [Apps -> Nothing .. made]
  BY <1>4 DEF Init, Nothing
<1>6. \A w \in Workers : job[w].id <= made /\ \A a \in Apps : job[w].read[a] <= made
  BY <1>4, IdleIs DEF Init
<1>7. /\ made \in 0 .. MaxBackups /\ restores \in 0 .. MaxEvents /\ aged \in 0 .. made
      /\ restarts \in 0 .. MaxEvents
  BY <1>4, Bounds
<1> QED
  BY <1>1, <1>2, <1>3, <1>4, <1>5, <1>6, <1>7 DEF TypeOK

-----------------------------------------------------------------------------
(* The types, action by action. *)

\* What most actions leave alone, or change by more backups being made.
LEMMA JobTypes ==
    ASSUME TypeOK, NEW w \in Workers, NEW j \in Job, job' = [job EXCEPT ![w] = j],
           made' \in 0 .. MaxBackups, made <= made',
           j.id <= made', \A a \in Apps : j.read[a] <= made'
    PROVE  /\ job' \in [Workers -> Job]
           /\ \A v \in Workers : job'[v].id <= made' /\ \A a \in Apps : job'[v].read[a] <= made'
<1>1. job \in [Workers -> Job] /\ made \in 0 .. MaxBackups
  BY DEF TypeOK
<1>2. job' \in [Workers -> Job]
  BY <1>1
<1>3. ASSUME NEW v \in Workers
      PROVE  job'[v].id <= made' /\ \A a \in Apps : job'[v].read[a] <= made'
  <2>1. CASE v = w
    BY <1>1, <2>1
  <2>2. CASE v # w
    <3>1. job'[v] = job[v] /\ job[v] \in Job
      BY <1>1, <2>2
    <3>2. job[v].id <= made /\ job[v].id \in 0 .. MaxBackups
      BY <3>1 DEF TypeOK, Job
    <3>3. ASSUME NEW a \in Apps PROVE job[v].read[a] <= made /\ job[v].read[a] \in 0 .. MaxBackups
      BY <3>1 DEF TypeOK, Job
    <3> QED
      BY <1>1, <3>1, <3>2, <3>3, Bounds
  <2> QED
    BY <2>1, <2>2
<1> QED
  BY <1>2, <1>3

\* Another row for a backup that is made.
LEMMA RowTypes ==
    ASSUME TypeOK, NEW b \in Ids, NEW r \in Row, r.of <= b, rows' = [rows EXCEPT ![b] = r]
    PROVE  rows' \in [Ids -> Row] /\ \A c \in Ids : rows'[c].of <= c
<1>1. rows \in [Ids -> Row] /\ \A c \in Ids : rows[c].of <= c
  BY DEF TypeOK
<1> QED
  BY <1>1

LEMMA StartTypes == ASSUME TypeOK, NEW w \in Workers, Start(w) PROVE TypeOK'
<1>1. PICK can \in SUBSET {a \in Apps : chosen[a] = Nothing} :
         job' = [job EXCEPT ![w] = [IdleJob EXCEPT !.step = "next", !.can = can, !.read = last,
                                                   !.todo = IF w = Full THEN Apps ELSE {w}]]
  BY DEF Start
<1>2. last \in [Apps -> 0 .. made] /\ made \in 0 .. MaxBackups
  BY DEF TypeOK
<1> DEFINE todo == IF w = Full THEN Apps ELSE {w}
           j == [IdleJob EXCEPT !.step = "next", !.can = can, !.read = last, !.todo = todo]
<1>3. job' = [job EXCEPT ![w] = j]
  BY <1>1
<1>4. j \in Job /\ j.id = 0 /\ j.read = last
  <2>1. last \in [Apps -> 0 .. MaxBackups]
    BY <1>2, Bounds
  <2>2. todo \in SUBSET Apps
    BY Bounds
  <2>3. can \in SUBSET Apps
    OBVIOUS
  <2> HIDE DEF todo
  <2> QED
    BY <2>1, <2>2, <2>3, Empty, IdleIs DEF Job
<1>5. j.id <= made /\ \A a \in Apps : j.read[a] <= made
  BY <1>2, <1>4, Bounds
<1> HIDE DEF j
<1>6. made' = made /\ made <= made' /\ made' \in 0 .. MaxBackups
  BY <1>2, Bounds DEF Start
<1>7. /\ job' \in [Workers -> Job]
      /\ \A v \in Workers : job'[v].id <= made' /\ \A a \in Apps : job'[v].read[a] <= made'
  <2>1. j.id <= made' /\ \A a \in Apps : j.read[a] <= made'
    BY <1>5, <1>6
  <2> QED
    BY <1>3, <1>4, <1>6, <2>1, JobTypes
<1> QED
  BY <1>7 DEF TypeOK, Start, dbVars

LEMMA JobIs ==
    ASSUME TypeOK, NEW w \in Workers
    PROVE  /\ job \in [Workers -> Job] /\ job[w] \in Job /\ made \in 0 .. MaxBackups
           /\ job[w].id <= made /\ job[w].id \in 0 .. MaxBackups
           /\ job[w].read \in [Apps -> 0 .. MaxBackups]
           /\ \A a \in Apps : job[w].read[a] <= made
           /\ job[w].todo \subseteq Apps /\ job[w].done \subseteq Ids /\ job[w].app \in Workers
BY DEF TypeOK, Job

\* Another step of a job that is at no other backup.
LEMMA SameReadTypes ==
    ASSUME TypeOK, NEW w \in Workers, NEW j \in Job, job' = [job EXCEPT ![w] = j],
           made' \in 0 .. MaxBackups, made <= made', j.id <= made',
           j.read = job[w].read \/ j = IdleJob
    PROVE  /\ job' \in [Workers -> Job]
           /\ \A v \in Workers : job'[v].id <= made' /\ \A a \in Apps : job'[v].read[a] <= made'
<1>1. ASSUME NEW a \in Apps PROVE j.read[a] <= made'
  <2>1. made \in Nat /\ made' \in Nat
    BY JobIs, Bounds
  <2>2. j.read[a] \in Nat /\ j.read[a] <= made
    <3>1. CASE j = IdleJob
      BY <3>1, <2>1, IdleIs
    <3>2. CASE j.read = job[w].read
      <4>1. job[w].read[a] \in 0 .. MaxBackups /\ job[w].read[a] <= made
        BY JobIs
      <4> QED
        BY <4>1, <3>2, Bounds
    <3> QED
      BY <3>1, <3>2
  <2> QED
    BY <2>1, <2>2
<1> QED
  BY <1>1, JobTypes

LEMMA AddTypes ==
    ASSUME TypeOK, NEW w \in Workers, NEW a \in Apps, NEW of \in 0 .. made + 1,
           NEW step \in {"store", "copy"}, Add(w, a, of, step),
           UNCHANGED <<last, provider, chosen, restores, cleaner, aged, stopping, restarts>>
    PROVE  TypeOK'
<1> DEFINE b == made + 1
           r == [type |-> "app", state |-> "normal", dependsOn |-> {}, of |-> of]
           j == [job[w] EXCEPT !.step = step, !.id = b, !.app = a, !.todo = @ \ {a}]
<1>1. /\ b <= MaxBackups /\ made' = b /\ content' = [content EXCEPT ![b] = Begun]
      /\ rows' = [rows EXCEPT ![b] = r] /\ job' = [job EXCEPT ![w] = j]
  BY DEF Add, AddRow
<1>2. /\ made \in Nat /\ b \in Ids /\ b \in 0 .. MaxBackups /\ made \in 0 .. MaxBackups
      /\ of \in 0 .. MaxBackups /\ of <= b
  BY <1>1, Bounds DEF TypeOK, Ids
<1>3. rows' \in [Ids -> Row] /\ \A c \in Ids : rows'[c].of <= c
  <2>1. r \in Row /\ r.of <= b
    BY <1>2 DEF Row
  <2> HIDE DEF r, b
  <2> QED
    BY <1>1, <1>2, <2>1, RowTypes
<1>4. /\ job' \in [Workers -> Job]
      /\ \A v \in Workers : job'[v].id <= made' /\ \A c \in Apps : job'[v].read[c] <= made'
  <2>1. j \in Job /\ j.id = b /\ j.read = job[w].read
    <3>1. /\ job[w] \in Job /\ job[w].todo \ {a} \in SUBSET Apps /\ a \in Workers
          /\ b \in 0 .. MaxBackups
      BY <1>2, JobIs, Bounds
    <3> HIDE DEF b
    <3> QED
      BY <3>1 DEF Job
  <2>2. made <= b
    BY <1>2
  <2> HIDE DEF j, b
  <2>3. made' \in 0 .. MaxBackups /\ made <= made' /\ j.id <= made'
    BY <1>1, <1>2, <2>1, <2>2, Bounds
  <2> QED
    BY <1>1, <2>1, <2>3, SameReadTypes
<1>5. content' \in [Ids -> {Missing, Partial, Whole, Removed}]
  BY <1>1 DEF TypeOK, Begun
<1>6. last' \in [Apps -> 0 .. made'] /\ chosen' \in [Apps -> Nothing .. made'] /\ aged' \in 0 .. made'
  <2>1. \A x \in 0 .. made : x \in 0 .. made'
    BY <1>1, <1>2
  <2>2. \A x \in Nothing .. made : x \in Nothing .. made'
    BY <1>1, <1>2 DEF Nothing
  <2> QED
    BY <2>1, <2>2 DEF TypeOK
<1> QED
  BY <1>1, <1>2, <1>3, <1>4, <1>5, <1>6 DEF TypeOK

LEMMA BeginAppTypes ==
    ASSUME TypeOK, NEW w \in Workers, NEW a \in Apps, BeginApp(w, a) PROVE TypeOK'
<1> USE DEF BeginApp
<1>0. /\ UNCHANGED <<last, provider, chosen, restores, cleaner, aged, stopping, restarts>>
      /\ made \in Nat
  BY Bounds DEF TypeOK
<1>1. CASE a \in job[w].can /\ createNewAppBackup(w, a)
  <2>1. made + 1 \in 0 .. made + 1
    BY <1>0
  <2> QED
    BY <1>0, <1>1, <2>1, AddTypes DEF createNewAppBackup
<1>2. CASE a \notin job[w].can /\ job[w].read[a] # 0 /\ copyLastBackup(w, a)
  <2> DEFINE s == job[w].read[a]
  <2>1. s \in 0 .. MaxBackups /\ s <= made /\ s # 0
    BY <1>2, JobIs
  <2>2. s \in Ids /\ rows[s] \in Row /\ rows[s].of <= s
    BY <2>1, Bounds DEF TypeOK
  <2>3. rows[s].of \in Nat /\ s \in Nat
    BY <2>2, Bounds DEF Row
  <2>4. rows[s].of \in 0 .. made + 1
    BY <1>0, <2>1, <2>2, <2>3
  <2> QED
    BY <1>0, <1>2, <2>4, AddTypes DEF copyLastBackup
<1>3. CASE /\ job' = [job EXCEPT ![w] = IF w = Full THEN [job[w] EXCEPT !.todo = @ \ {a}] ELSE IdleJob]
           /\ UNCHANGED <<rows, content, made>>
  <2> DEFINE j == IF w = Full THEN [job[w] EXCEPT !.todo = @ \ {a}] ELSE IdleJob
  <2>1. job' = [job EXCEPT ![w] = j]
    BY <1>3
  <2>2. j \in Job /\ j.id <= made' /\ (j.read = job[w].read \/ j = IdleJob)
    <3>1. CASE w = Full
      <4>1. job[w] \in Job /\ job[w].todo \ {a} \in SUBSET Apps /\ job[w].id <= made'
        BY <1>3, JobIs
      <4>2. j = [job[w] EXCEPT !.todo = job[w].todo \ {a}]
        BY <3>1
      <4> HIDE DEF j
      <4> QED
        BY <4>1, <4>2 DEF Job
    <3>2. CASE w # Full
      BY <1>0, <1>3, <3>2, Empty, IdleIs
    <3> QED
      BY <3>1, <3>2
  <2> HIDE DEF j
  <2>3. made' = made /\ made <= made' /\ made' \in 0 .. MaxBackups
    BY <1>0, <1>3 DEF TypeOK
  <2>4. /\ job' \in [Workers -> Job]
        /\ \A v \in Workers : job'[v].id <= made' /\ \A c \in Apps : job'[v].read[c] <= made'
    BY <2>1, <2>2, <2>3, SameReadTypes
  <2> QED
    BY <1>0, <1>3, <2>4 DEF TypeOK
<1> QED
  BY <1>1, <1>2, <1>3

LEMMA BeginBoxTypes == ASSUME TypeOK, BeginBox PROVE TypeOK'
<1> DEFINE b == made + 1
           r == [type |-> "box", state |-> "normal", dependsOn |-> job[Full].done, of |-> b]
           j == [job[Full] EXCEPT !.step = "store", !.id = b, !.app = Full]
<1>1. /\ b <= MaxBackups /\ made' = b /\ content' = [content EXCEPT ![b] = Begun]
      /\ rows' = [rows EXCEPT ![b] = r] /\ job' = [job EXCEPT ![Full] = j]
  BY DEF BeginBox, AddRow
<1>2. made \in Nat /\ b \in Ids /\ b \in 0 .. MaxBackups /\ made \in 0 .. MaxBackups
  BY <1>1, Bounds DEF TypeOK, Ids
<1>3. rows' \in [Ids -> Row] /\ \A c \in Ids : rows'[c].of <= c
  <2>1. r \in Row /\ r.of <= b
    BY <1>2, JobIs, Bounds DEF Row
  <2> HIDE DEF r, b
  <2> QED
    BY <1>1, <1>2, <2>1, RowTypes
<1>4. /\ job' \in [Workers -> Job]
      /\ \A v \in Workers : job'[v].id <= made' /\ \A c \in Apps : job'[v].read[c] <= made'
  <2>1. j \in Job /\ j.id = b /\ j.read = job[Full].read
    <3>1. job[Full] \in Job /\ Full \in Workers /\ b \in 0 .. MaxBackups
      BY <1>2, JobIs, Bounds
    <3> HIDE DEF b
    <3> QED
      BY <3>1 DEF Job
  <2>2. made <= b
    BY <1>2
  <2> HIDE DEF j, b
  <2>3. made' \in 0 .. MaxBackups /\ made <= made' /\ j.id <= made'
    BY <1>1, <1>2, <2>1, <2>2, Bounds
  <2> QED
    BY <1>1, <2>1, <2>3, SameReadTypes, Bounds
<1>5. content' \in [Ids -> {Missing, Partial, Whole, Removed}]
  BY <1>1 DEF TypeOK, Begun
<1>6. last' \in [Apps -> 0 .. made'] /\ chosen' \in [Apps -> Nothing .. made'] /\ aged' \in 0 .. made'
  <2>1. \A x \in 0 .. made : x \in 0 .. made'
    BY <1>1, <1>2
  <2>2. \A x \in Nothing .. made : x \in Nothing .. made'
    BY <1>1, <1>2 DEF Nothing
  <2> QED
    BY <2>1, <2>2 DEF TypeOK, BeginBox
<1> QED
  BY <1>1, <1>2, <1>3, <1>4, <1>5, <1>6 DEF TypeOK, BeginBox

LEMMA Outcomes ==
    ASSUME TypeOK
    PROVE  /\ \A o \in backup : o.has \in {Missing, Partial, Whole} /\ o.step \in {"stored", "failed"}
           /\ \A s : \A o \in copyBackup(s) :
                 o.has \in {Missing, Partial, Whole} /\ o.step \in {"stored", "failed"}
<1>1. provider \in {"filesystem", "s3", "caas"}
  BY BackupsAssumption DEF BackupsAssumption, TypeOK
<1>2. \A left \in {Missing, Partial} : \A o \in create(left) :
         o.has \in {Missing, Partial, Whole} /\ o.step \in {"stored", "failed"}
  BY DEF create, Outcome
<1>3. backup \in {create(Partial), create(Missing)}
  BY <1>1 DEF backup
<1>4. ASSUME NEW s, NEW o \in copyBackup(s)
      PROVE  o.has \in {Missing, Partial, Whole} /\ o.step \in {"stored", "failed"}
  BY <1>4 DEF copyBackup, copyFile, copyObject, Outcome, Stored
<1> QED
  BY <1>2, <1>3, <1>4

LEMMA EndTypes ==
    ASSUME TypeOK, NEW w \in Workers, NEW o, o.has \in {Missing, Partial, Whole},
           o.step \in {"stored", "failed"}, End(w, o)
    PROVE  TypeOK'
<1> DEFINE j == [job[w] EXCEPT !.step = o.step]
<1>1. job' = [job EXCEPT ![w] = j] /\ made' = made
  BY DEF End
<1>2. j \in Job /\ j.id = job[w].id /\ j.read = job[w].read
  <2>1. job[w] \in Job
    BY JobIs
  <2>2. CASE o.step = "stored"
    BY <2>1, <2>2 DEF Job
  <2>3. CASE o.step = "failed"
    BY <2>1, <2>3 DEF Job
  <2> QED
    BY <2>2, <2>3
<1> HIDE DEF j
<1>3. made \in 0 .. MaxBackups /\ made <= made' /\ j.id <= made'
  BY <1>1, <1>2, JobIs, Bounds
<1>4. /\ job' \in [Workers -> Job]
      /\ \A v \in Workers : job'[v].id <= made' /\ \A a \in Apps : job'[v].read[a] <= made'
  BY <1>1, <1>2, <1>3, SameReadTypes
<1>5. content' \in [Ids -> {Missing, Partial, Whole, Removed}]
  BY DEF TypeOK, End
<1> QED
  BY <1>4, <1>5 DEF TypeOK, End, dbVars

LEMMA BackupTaskEndsTypes == ASSUME TypeOK, NEW w \in Workers, BackupTaskEnds(w) PROVE TypeOK'
BY Outcomes, EndTypes DEF BackupTaskEnds

LEMMA CopyEndsTypes == ASSUME TypeOK, NEW w \in Workers, CopyEnds(w) PROVE TypeOK'
BY Outcomes, EndTypes DEF CopyEnds

LEMMA SetStateTypes == ASSUME TypeOK, JobsFit, NEW w \in Workers, SetState(w) PROVE TypeOK'
<1> DEFINE b == job[w].id
           r == [rows[b] EXCEPT !.state = IF Exists(b) THEN IF job[w].step = "stored" THEN "normal" ELSE "error"
                                          ELSE @]
           j == IF job[w].step = "failed" \/ job[w].app = Full THEN IdleJob
                ELSE [job[w] EXCEPT !.step = "point"]
<1>1. rows' = [rows EXCEPT ![b] = r] /\ job' = [job EXCEPT ![w] = j] /\ made' = made
  BY DEF SetState
<1>2. b \in Ids
  <2>1. b # 0
    BY DEF SetState, JobsFit, JobFits, StepFits, AtWork
  <2> QED
    BY <2>1, JobIs, Bounds
<1>3. rows' \in [Ids -> Row] /\ \A c \in Ids : rows'[c].of <= c
  <2>1. rows[b] \in Row /\ rows[b].of <= b
    BY <1>2 DEF TypeOK
  <2>2. r \in Row /\ r.of <= b
    BY <2>1 DEF Row
  <2> HIDE DEF r, b
  <2> QED
    BY <1>1, <1>2, <2>2, RowTypes
<1>4. j \in Job /\ (j.read = job[w].read \/ j = IdleJob) /\ (j.id = job[w].id \/ j.id = 0)
  BY JobIs, Empty, IdleIs DEF Job
<1> HIDE DEF j, b, r
<1>5. made \in 0 .. MaxBackups /\ made <= made' /\ j.id <= made'
  BY <1>1, <1>4, JobIs, Bounds
<1>6. /\ job' \in [Workers -> Job]
      /\ \A v \in Workers : job'[v].id <= made' /\ \A a \in Apps : job'[v].read[a] <= made'
  BY <1>1, <1>4, <1>5, SameReadTypes
<1> QED
  BY <1>3, <1>6 DEF TypeOK, SetState

LEMMA SetRestorePointTypes ==
    ASSUME TypeOK, JobsFit, NEW w \in Workers, SetRestorePoint(w) PROVE TypeOK'
<1> DEFINE j == IF w = Full
                THEN [job[w] EXCEPT !.step = "next", !.done = job[w].done \cup {job[w].id}]
                ELSE IdleJob
<1>1. job' = [job EXCEPT ![w] = j] /\ made' = made
  BY DEF SetRestorePoint
<1>2. job[w].id \in Ids /\ job[w].id \in 0 .. made
  <2>1. job[w].id # 0
    BY DEF SetRestorePoint, JobsFit, JobFits, StepFits, AtWork
  <2> QED
    BY <2>1, JobIs, Bounds
<1>3. j \in Job /\ (j.read = job[w].read \/ j = IdleJob) /\ (j.id = job[w].id \/ j.id = 0)
  <2>1. job[w] \in Job /\ job[w].done \cup {job[w].id} \in SUBSET Ids
    BY <1>2, JobIs
  <2> QED
    BY <2>1, Empty, IdleIs DEF Job
<1> HIDE DEF j
<1>4. made \in 0 .. MaxBackups /\ made <= made' /\ j.id <= made'
  BY <1>1, <1>3, JobIs, Bounds
<1>5. /\ job' \in [Workers -> Job]
      /\ \A v \in Workers : job'[v].id <= made' /\ \A a \in Apps : job'[v].read[a] <= made'
  BY <1>1, <1>3, <1>4, SameReadTypes
<1>6. last' \in [Apps -> 0 .. made']
  BY <1>1, <1>2 DEF TypeOK, SetRestorePoint
<1> QED
  BY <1>5, <1>6 DEF TypeOK, SetRestorePoint

LEMMA AbortTypes == ASSUME TypeOK, NEW w \in Workers, Abort(w) PROVE TypeOK'
<1>1. job' = [job EXCEPT ![w] = IdleJob] /\ made' = made
  BY DEF Abort
<1>2. made \in 0 .. MaxBackups /\ made <= made' /\ IdleJob.id <= made'
  BY <1>1, JobIs, IdleIs, Bounds
<1>3. /\ job' \in [Workers -> Job]
      /\ \A v \in Workers : job'[v].id <= made' /\ \A a \in Apps : job'[v].read[a] <= made'
  BY <1>1, <1>2, Empty, SameReadTypes
<1> QED
  BY <1>3 DEF TypeOK, Abort, dbVars

LEMMA RestoreTypes ==
    ASSUME TypeOK, RowsFit, NEW a \in Apps, NEW b \in 0 .. MaxBackups, Restore(a, b) PROVE TypeOK'
<1>1. b \in 0 .. made
  <2>1. b # 0 => b \in Ids /\ rows[b].type = "app"
    BY Bounds DEF Restore
  <2>2. b # 0 => b <= made
    BY <2>1 DEF RowsFit, RowFits
  <2> QED
    BY <2>2, Bounds DEF TypeOK
<1>2. last' \in [Apps -> 0 .. made'] /\ chosen' \in [Apps -> Nothing .. made']
  BY <1>1, Bounds DEF TypeOK, Restore, Nothing
<1>3. restores' \in 0 .. MaxEvents
  BY Bounds DEF TypeOK, Restore
<1> QED
  BY <1>2, <1>3 DEF TypeOK, Restore

LEMMA RestoreTaskTypes == ASSUME TypeOK, NEW a \in Apps, RestoreTask(a) PROVE TypeOK'
<1>1. chosen' \in [Apps -> Nothing .. made'] /\ made' = made
  <2>1. Nothing \in Nothing .. made
    BY Bounds DEF TypeOK, Nothing
  <2> QED
    BY <2>1 DEF TypeOK, RestoreTask
<1> QED
  BY <1>1 DEF TypeOK, RestoreTask, dbVars

-----------------------------------------------------------------------------
(* The last backup that was finished before those at work began. *)
LEMMA FinishedFits ==
    ASSUME IInv
    PROVE  /\ Finished \in 0 .. made /\ aged <= Finished
           /\ \A w \in Workers : /\ job[w].id # 0 => job[w].id > Finished
                                 /\ \A d \in job[w].done : d > Finished
<1> DEFINE S == {made + 1} \cup
                UNION {job[w].done \cup {job[w].id} : w \in {v \in Workers : job[v].id # 0}}
<1>1. made \in Nat /\ aged \in Nat /\ aged <= made
  BY Bounds DEF IInv, TypeOK
<1>2. ASSUME NEW w \in Workers
      PROVE  /\ job[w].id # 0 => job[w].id \in Nat /\ job[w].id > aged
             /\ \A d \in job[w].done : d \in Nat /\ d > aged
             /\ job[w].id = 0 => job[w].done = {}
  <2>1. TypeOK /\ JobFits(w)
    BY DEF IInv, Safe, JobsFit
  <2> QED
    BY <2>1, JobIs, Bounds DEF JobFits, StepFits, BackedUp, Young
<1>3. \A d \in S : d \in Nat /\ d > aged
  <2>1. SUFFICES ASSUME NEW d \in S PROVE d \in Nat /\ d > aged
    OBVIOUS
  <2>2. CASE d = made + 1
    BY <1>1, <2>2
  <2>3. CASE \E w \in Workers : job[w].id # 0 /\ d \in job[w].done \cup {job[w].id}
    BY <1>2, <2>3
  <2> QED
    BY <2>2, <2>3
<1>4. made + 1 \in S /\ \A w \in Workers : /\ job[w].id # 0 => job[w].id \in S
                                           /\ \A d \in job[w].done : d \in S
  BY <1>2
<1>5. Finished = Min(S) - 1
  BY DEF Finished
<1> HIDE DEF S
<1>6. Min(S) \in S /\ \A y \in S : Min(S) <= y
  <2>1. S \subseteq Nat /\ S # {}
    BY <1>3, <1>4
  <2> QED
    BY <2>1, Least
<1>7. Min(S) \in Nat /\ Min(S) > aged /\ Min(S) <= made + 1
  BY <1>3, <1>4, <1>6
<1>8. Finished \in 0 .. made /\ aged <= Finished
  BY <1>1, <1>5, <1>7
<1>9. ASSUME NEW w \in Workers
      PROVE  /\ job[w].id # 0 => job[w].id > Finished
             /\ \A d \in job[w].done : d > Finished
  <2>1. \A y \in S : y \in Nat /\ y > Finished
    BY <1>3, <1>5, <1>6, <1>7
  <2> QED
    BY <1>4, <2>1
<1> QED
  BY <1>8, <1>9

LEMMA CleanBoxesTypes == ASSUME IInv, CleanBoxes PROVE TypeOK'
<1>1. TypeOK /\ Finished \in 0 .. MaxBackups
  <2>1. TypeOK /\ made \in 0 .. MaxBackups /\ Finished \in 0 .. made
    BY FinishedFits DEF IInv, TypeOK
  <2> QED
    BY <2>1, Bounds
<1>2. {b \in BoxRows \ Preserved : b <= aged} \in SUBSET Ids
  BY DEF BoxRows
<1>3. Referenced(Preserved) \in SUBSET Ids
  <2>1. ASSUME NEW b \in BoxRows PROVE rows[b].dependsOn \subseteq Ids
    BY <1>1 DEF BoxRows, TypeOK, Row
  <2> QED
    BY <2>1 DEF Referenced
<1>4. cleaner' \in Cleaner
  BY <1>1, <1>2, <1>3 DEF CleanBoxes, Cleaner
<1> QED
  BY <1>1, <1>4 DEF TypeOK, CleanBoxes, dbVars

LEMMA CleanAppsTypes == ASSUME IInv, CleanApps PROVE TypeOK'
<1>1. TypeOK /\ Finished \in 0 .. MaxBackups
  <2>1. TypeOK /\ made \in 0 .. MaxBackups /\ Finished \in 0 .. made
    BY FinishedFits DEF IInv, TypeOK
  <2> QED
    BY <2>1, Bounds
<1>2. {b \in AppRows \ cleaner.kept : b <= aged} \in SUBSET Ids
  BY DEF AppRows
<1>3. cleaner.until \in 0 .. MaxBackups
  BY <1>1 DEF TypeOK, Cleaner
<1>4. cleaner' \in Cleaner
  BY <1>1, <1>2, <1>3 DEF CleanApps, Cleaner
<1> QED
  BY <1>1, <1>4 DEF TypeOK, CleanApps, dbVars

LEMMA RemoveFilesTypes == ASSUME TypeOK, RemoveFiles PROVE TypeOK'
<1>1. content' \in [Ids -> {Missing, Partial, Whole, Removed}]
  <2> DEFINE S == Family(Max(cleaner.doomed))
  <2>1. content' \in {[b \in Ids |-> IF b \in S THEN Removed ELSE content[b]], content}
    BY DEF RemoveFiles, removeBackups, removeFiles, removeObjects
  <2> HIDE DEF S
  <2> QED
    BY <2>1 DEF TypeOK
<1>2. cleaner' \in Cleaner
  <2>1. cleaner \in Cleaner
    BY DEF TypeOK
  <2>2. cleaner' = [cleaner EXCEPT !.step = IF cleaner.step = "boxes" THEN "box row" ELSE "app row"]
    BY DEF RemoveFiles
  <2> QED
    BY <2>1, <2>2 DEF Cleaner
<1> QED
  BY <1>1, <1>2 DEF TypeOK, RemoveFiles, dbVars

\* Rows that are gone.
LEMMA GoneTypes ==
    ASSUME TypeOK, NEW S, rows' = [b \in Ids |-> IF b \in S THEN NoRow ELSE rows[b]]
    PROVE  rows' \in [Ids -> Row] /\ \A c \in Ids : rows'[c].of <= c
<1>1. NoRow \in Row /\ \A c \in Ids : NoRow.of <= c
  BY Empty, Bounds DEF NoRow
<1>2. rows \in [Ids -> Row] /\ \A c \in Ids : rows[c].of <= c
  BY DEF TypeOK
<1> QED
  BY <1>1, <1>2

LEMMA RemoveRowsTypes == ASSUME TypeOK, RemoveRows PROVE TypeOK'
<1>1. rows' \in [Ids -> Row] /\ \A c \in Ids : rows'[c].of <= c
  BY GoneTypes DEF RemoveRows
<1>2. cleaner' \in Cleaner
  <2>1. cleaner \in Cleaner
    BY DEF TypeOK
  <2>2. cleaner' = [cleaner EXCEPT !.step = IF cleaner.step = "box row" THEN "boxes" ELSE "apps",
                                   !.doomed = cleaner.doomed \ {Max(cleaner.doomed)}]
    BY DEF RemoveRows
  <2> QED
    BY <2>1, <2>2 DEF Cleaner
<1> QED
  BY <1>1, <1>2 DEF TypeOK, RemoveRows

LEMMA GoneProcessTypes ==
    ASSUME TypeOK, ProcessGone, restores + restarts < MaxEvents, made' = made
    PROVE  /\ restarts' \in 0 .. MaxEvents /\ stopping' \in BOOLEAN
           /\ job' \in [Workers -> Job] /\ cleaner' \in Cleaner
           /\ \A w \in Workers : job'[w].id <= made' /\ \A a \in Apps : job'[w].read[a] <= made'
<1>1. restarts' \in 0 .. MaxEvents /\ stopping' \in BOOLEAN
  <2>1. restarts \in 0 .. MaxEvents /\ restores \in 0 .. MaxEvents /\ restarts' = restarts + 1
    BY DEF ProcessGone, TypeOK
  <2>2. stopping' \in BOOLEAN
    BY DEF ProcessGone
  <2> QED
    BY <2>1, <2>2, Bounds
<1>2. job' \in [Workers -> Job] /\ cleaner' \in Cleaner
  BY Empty DEF ProcessGone
<1>3. 0 <= made'
  BY Bounds DEF TypeOK
<1>4. \A w \in Workers : job'[w] = IdleJob
  BY DEF ProcessGone
<1> QED
  BY <1>1, <1>2, <1>3, <1>4, IdleIs

LEMMA RemoveThrowsTypes == ASSUME TypeOK, RemoveThrows PROVE TypeOK'
<1>1. rows' \in [Ids -> Row] /\ \A c \in Ids : rows'[c].of <= c
  BY GoneTypes DEF RemoveThrows
<1> QED
  BY <1>1, GoneProcessTypes DEF TypeOK, RemoveThrows

LEMMA CleanDoneTypes == ASSUME TypeOK, CleanDone PROVE TypeOK'
BY Empty DEF TypeOK, CleanDone, dbVars

LEMMA AgeTypes == ASSUME IInv, Age PROVE TypeOK'
<1>1. Finished \in 0 .. made /\ aged < Finished /\ TypeOK
  BY FinishedFits DEF Age, IInv
<1>2. made \in Nat /\ aged \in Nat
  BY <1>1, Bounds DEF TypeOK
<1>3. aged' \in 0 .. made' /\ made' = made
  BY <1>1, <1>2 DEF Age
<1> QED
  BY <1>1, <1>3 DEF TypeOK, Age, dbVars

LEMMA StopTypes == ASSUME TypeOK, Stop PROVE TypeOK'
BY DEF TypeOK, Stop, dbVars

LEMMA RestartTypes == ASSUME TypeOK, Restart PROVE TypeOK'
BY GoneProcessTypes DEF TypeOK, Restart, dbVars


LEMMA NextTypes == ASSUME IInv, Next PROVE TypeOK'
<1>1. TypeOK /\ RowsFit /\ JobsFit
  BY DEF IInv, Safe
<1>2. ASSUME NEW w \in Workers,
             \/ Start(w) \/ (\E a \in Apps : BeginApp(w, a)) \/ BackupTaskEnds(w) \/ CopyEnds(w)
             \/ SetState(w) \/ SetRestorePoint(w) \/ Abort(w)
      PROVE  TypeOK'
  BY <1>1, <1>2, StartTypes, BeginAppTypes, BackupTaskEndsTypes, CopyEndsTypes, SetStateTypes,
     SetRestorePointTypes, AbortTypes
<1>3. ASSUME NEW a \in Apps, (\E b \in 0 .. MaxBackups : Restore(a, b)) \/ RestoreTask(a)
      PROVE  TypeOK'
  BY <1>1, <1>3, RestoreTypes, RestoreTaskTypes
<1>4. ASSUME \/ BeginBox \/ CleanBoxes \/ CleanApps \/ RemoveFiles \/ RemoveRows \/ RemoveThrows
             \/ CleanDone \/ Age \/ Stop \/ Restart
      PROVE  TypeOK'
  BY <1>1, <1>4, BeginBoxTypes, CleanBoxesTypes, CleanAppsTypes, RemoveFilesTypes,
     RemoveRowsTypes, RemoveThrowsTypes, CleanDoneTypes, AgeTypes, StopTypes, RestartTypes
<1> QED
  BY <1>2, <1>3, <1>4 DEF Next

-----------------------------------------------------------------------------
(* Nothing is removed that is needed: the steps of the workers. *)
LEMMA InitSafe == Init => Safe
<1> SUFFICES ASSUME Init PROVE Safe
  OBVIOUS
<1>1. \A b \in Ids : rows[b].type = "none" /\ rows[b].dependsOn = {}
  BY DEF Init, NoRow
<1>2. cleaner = IdleCleaner /\ \A w \in Workers : job[w] = IdleJob
  BY DEF Init
<1>3. RowsFit /\ NeededKept /\ FullFits /\ DependenciesApart
  BY <1>1 DEF RowsFit, RowFits, NeededKept, FullFits, DependenciesApart, BoxRows
<1>4. StepFits(IdleJob)
  BY IdleIs DEF StepFits, AtWork
<1>5. JobsFit
  BY <1>2, <1>4, IdleIs DEF JobsFit, JobFits
<1>6. CleanerFits
  BY <1>2, IdleIs DEF CleanerFits
<1> QED
  BY <1>3, <1>5, <1>6 DEF Safe

LEMMA RowIs ==
    ASSUME IInv
    PROVE  /\ TypeOK /\ rows \in [Ids -> Row] /\ made \in Nat /\ made \in 0 .. MaxBackups
           /\ aged \in Nat /\ aged <= made
           /\ content \in [Ids -> {Missing, Partial, Whole, Removed}]
           /\ cleaner \in Cleaner /\ cleaner.until \in Nat /\ cleaner.doomed \subseteq Ids
           /\ \A c \in Ids : /\ rows[c].dependsOn \subseteq Ids /\ RowFits(c)
                             /\ rows[c].type \in {"none", "app", "box"}
                             /\ 0 \notin rows[c].dependsOn
<1>1. TypeOK /\ RowsFit
  BY DEF IInv, Safe
<1>2. rows \in [Ids -> Row] /\ cleaner \in Cleaner /\ aged \in Nat /\ made \in Nat /\ aged <= made
  BY <1>1, Bounds DEF TypeOK
<1>3. cleaner.until \in Nat /\ cleaner.doomed \subseteq Ids
  <2>1. cleaner.until \in 0 .. MaxBackups /\ cleaner.doomed \in SUBSET Ids
    BY <1>2 DEF Cleaner
  <2> QED
    BY <2>1, Bounds
<1>4. ASSUME NEW c \in Ids
      PROVE  /\ rows[c].dependsOn \subseteq Ids /\ RowFits(c)
             /\ rows[c].type \in {"none", "app", "box"} /\ 0 \notin rows[c].dependsOn
  <2>1. rows[c] \in Row
    BY <1>2
  <2> QED
    BY <1>1, <2>1, Bounds DEF Row, RowsFit
<1> QED
  BY <1>1, <1>2, <1>3, <1>4 DEF TypeOK

\* A step that makes and removes no backup and leaves the cleanup alone.
SameBackups ==
    /\ \A b \in Ids : /\ rows'[b].type = rows[b].type /\ rows'[b].dependsOn = rows[b].dependsOn
                      /\ content'[b] = Removed <=> content[b] = Removed
    /\ made' = made /\ cleaner' = cleaner /\ aged' = aged

\* From a job to the next step of it, or to its end.
KeepsWork(j, k) ==
    /\ StepFits(k)
    /\ k.id = 0 \/ (k.id = j.id /\ k.app = j.app)
    /\ \A d \in k.done : d \in j.done \/ (d = j.id /\ j.app # Full)

LEMMA JobStep ==
    ASSUME IInv, SameBackups, NEW w \in Workers, NEW k \in Job,
           job' = [job EXCEPT ![w] = k], KeepsWork(job[w], k)
    PROVE  Safe'
<1>1. RowsFit'
  BY RowIs DEF SameBackups, RowsFit, RowFits
<1>2. \A t : \A d \in Ids : BackedUp(d, t)' <=> BackedUp(d, t)
  BY DEF SameBackups, BackedUp, Young
<1>3. k.done \subseteq Ids /\ k.id \in 0 .. MaxBackups
  BY DEF Job
<1>4. JobsFit'
  <2>1. SUFFICES ASSUME NEW v \in Workers PROVE JobFits(v)'
    BY DEF JobsFit
  <2>2. JobFits(v) /\ TypeOK /\ job[v].done \subseteq Ids /\ job[v].id \in 0 .. MaxBackups
    BY JobIs DEF IInv, Safe, JobsFit
  <2>3. CASE v # w
    <3>1. job'[v] = job[v]
      BY <2>2, <2>3, JobIs
    <3> QED
      BY <1>2, <2>2, <3>1, Bounds DEF JobFits
  <2>4. CASE v = w
    <3>1. job'[v] = k
      BY <2>2, <2>4, JobIs
    <3>2. StepFits(k)
      BY DEF KeepsWork
    <3>3. ASSUME k.id # 0 PROVE BackedUp(k.id, IF k.app = Full THEN "box" ELSE "app")'
      <4>1. k.id = job[v].id /\ k.app = job[v].app /\ k.id \in Ids
        BY <1>3, <2>4, <3>3, Bounds DEF KeepsWork
      <4> QED
        BY <1>2, <2>2, <3>3, <4>1 DEF JobFits
    <3>4. ASSUME NEW d \in k.done PROVE BackedUp(d, "app")'
      <4>1. d \in Ids /\ d # 0
        BY <1>3, Bounds
      <4>2. d \in job[v].done \/ (d = job[v].id /\ job[v].app # Full)
        BY <2>4 DEF KeepsWork
      <4>3. BackedUp(d, "app")
        BY <2>2, <4>1, <4>2 DEF JobFits
      <4> QED
        BY <1>2, <4>1, <4>3
    <3> QED
      BY <3>1, <3>2, <3>3, <3>4 DEF JobFits
  <2> QED
    BY <2>3, <2>4
<1>5. FullFits'
  <2>1. SUFFICES ASSUME NEW c \in Ids, rows'[c].type = "box", c # job'[Full].id
                 PROVE  rows'[c].dependsOn \cap (job'[Full].done \cup {job'[Full].id}) = {}
    BY DEF FullFits
  <2>2. /\ rows[c].type = "box" /\ rows'[c].dependsOn = rows[c].dependsOn /\ 0 \notin rows[c].dependsOn
        /\ job \in [Workers -> Job] /\ Full \in Workers /\ FullFits
    BY <2>1, RowIs, JobIs, Bounds DEF SameBackups, IInv, Safe
  <2>3. CASE w # Full
    BY <2>1, <2>2, <2>3 DEF FullFits
  <2>4. CASE w = Full
    <3>1. job'[Full] = k
      BY <2>2, <2>4
    <3>2. CASE k.id = 0
      <4>1. k.done = {}
        BY <3>2 DEF KeepsWork, StepFits
      <4> QED
        BY <2>2, <3>1, <3>2, <4>1
    <3>3. CASE k.id = job[Full].id
      <4>1. rows[c].dependsOn \cap (job[Full].done \cup {job[Full].id}) = {}
        BY <2>1, <2>2, <3>1, <3>3 DEF FullFits
      <4>2. k.done \subseteq job[Full].done \cup {job[Full].id}
        BY <2>4 DEF KeepsWork
      <4> QED
        BY <2>2, <3>1, <3>3, <4>1, <4>2
    <3> QED
      BY <2>4, <3>2, <3>3 DEF KeepsWork
  <2> QED
    BY <2>3, <2>4
<1>6. CleanerFits'
  <2>1. \A b \in cleaner.doomed : b \in Ids
    BY RowIs
  <2> QED
    BY <2>1 DEF SameBackups, CleanerFits, IInv, Safe
<1>7. NeededKept'
  <2>1. \A c \in Ids : rows[c].dependsOn \subseteq Ids
    BY RowIs
  <2> QED
    BY <2>1 DEF SameBackups, NeededKept, IInv, Safe
<1>8. DependenciesApart'
  BY DEF SameBackups, DependenciesApart, BoxRows, IInv, Safe
<1> QED
  BY <1>1, <1>4, <1>5, <1>6, <1>7, <1>8 DEF Safe

\* A worker makes a backup: of an app, or of the box with what is done.
LEMMA AddSafe ==
    ASSUME IInv, NEW w \in Workers, NEW k \in Job, NEW r \in Row, NEW b, b = made + 1, b \in Ids,
           job[w].step = "next", StepFits(k), k.id = b, k.done = job[w].done,
           k.app = Full => w = Full,
           r.type = IF k.app = Full THEN "box" ELSE "app",
           r.dependsOn = IF k.app = Full THEN job[w].done ELSE {},
           made' = b, rows' = [rows EXCEPT ![b] = r], job' = [job EXCEPT ![w] = k],
           content' = [content EXCEPT ![b] = Begun], cleaner' = cleaner, aged' = aged
    PROVE  Safe'
<1>1. /\ TypeOK /\ made \in Nat /\ aged \in Nat /\ aged <= made /\ cleaner.until \in Nat
      /\ job \in [Workers -> Job] /\ Full \in Workers
      /\ cleaner.step # "idle" => cleaner.until <= made
  BY RowIs, JobIs, Bounds DEF IInv, Safe, CleanerFits
<1>2. /\ rows'[b] = r /\ \A d \in Ids : d # b => rows'[d] = rows[d]
      /\ content'[b] # Removed /\ \A d \in Ids : d # b => content'[d] = content[d]
  <2>1. Begun # Removed
    BY DEF Begun, Partial, Missing, Removed
  <2> QED
    BY <2>1, RowIs
<1>3. \A d \in Ids : rows[d].type # "none" => d # b /\ d <= made
  BY <1>1, RowIs, Bounds DEF RowFits
<1>4. ASSUME NEW d \in Ids, NEW t \in {"app", "box"}, BackedUp(d, t) PROVE d # b /\ BackedUp(d, t)'
  <2>1. d # b
    BY <1>3, <1>4 DEF BackedUp
  <2> QED
    BY <1>2, <1>4, <2>1 DEF BackedUp, Young
<1>5. BackedUp(b, r.type)'
  BY <1>1, <1>2 DEF BackedUp, Young
<1>6. ASSUME NEW v \in Workers
      PROVE  /\ \A d \in job[v].done : d \in Ids /\ BackedUp(d, "app")
             /\ job[v].id # 0 => job[v].id \in Ids
                                  /\ BackedUp(job[v].id, IF job[v].app = Full THEN "box" ELSE "app")
  BY JobIs, Bounds DEF IInv, Safe, JobsFit, JobFits
<1>7. ASSUME NEW c \in Ids, rows[c].type = "box"
      PROVE  /\ c # b /\ rows'[c] = rows[c] /\ rows[c].dependsOn \subseteq Ids /\ 0 \notin rows[c].dependsOn
             /\ b \notin rows[c].dependsOn
  BY <1>1, <1>2, <1>3, <1>7, RowIs, Bounds DEF RowFits
<1>8. ASSUME NEW c \in Ids, rows[c].type = "box", w = Full
      PROVE  c # job[Full].id /\ rows[c].dependsOn \cap job[Full].done = {}
  <2>1. job[Full].id \in job[Full].done \cup {0}
    BY <1>1, <1>8 DEF IInv, Safe, JobsFit, JobFits, StepFits
  <2>2. c # job[Full].id
    BY <1>1, <1>6, <1>8, <2>1, Bounds DEF BackedUp
  <2> QED
    BY <1>8, <2>2 DEF IInv, Safe, FullFits
<1>9. r.type = "box" => w = Full /\ r.dependsOn = job[Full].done
  OBVIOUS
<1>10. RowsFit'
  <2>1. SUFFICES ASSUME NEW c \in Ids PROVE RowFits(c)'
    BY DEF RowsFit
  <2>2. CASE c # b
    BY <1>1, <1>2, <2>2, RowIs, Bounds DEF RowFits
  <2>3. CASE c = b
    <3>1. r.type # "box" => r.dependsOn = {}
      OBVIOUS
    <3>2. ASSUME NEW d \in job[Full].done PROVE d \in Nat /\ d < b
      <4>1. d \in Ids /\ rows[d].type = "app"
        BY <1>1, <1>6 DEF BackedUp
      <4>2. d <= made
        BY <1>3, <4>1
      <4>3. d \in Nat
        BY <4>1, Bounds
      <4> QED
        BY <1>1, <4>2, <4>3
    <3> QED
      BY <1>1, <1>2, <1>9, <2>3, <3>1, <3>2, Bounds DEF RowFits
  <2> QED
    BY <2>2, <2>3
<1>11. JobsFit'
  <2>1. SUFFICES ASSUME NEW v \in Workers PROVE JobFits(v)'
    BY DEF JobsFit
  <2>2. CASE v # w
    <3>1. job'[v] = job[v] /\ StepFits(job[v])
      BY <1>1, <2>2 DEF IInv, Safe, JobsFit, JobFits
    <3> QED
      BY <1>4, <1>6, <3>1 DEF JobFits
  <2>3. CASE v = w
    <3>1. job'[v] = k
      BY <1>1, <2>3
    <3>2. \A d \in k.done : BackedUp(d, "app")'
      BY <1>4, <1>6
    <3> QED
      BY <1>5, <3>1, <3>2 DEF JobFits
  <2> QED
    BY <2>2, <2>3
<1>12. FullFits'
  <2>1. SUFFICES ASSUME NEW c \in Ids, rows'[c].type = "box", c # job'[Full].id
                 PROVE  rows'[c].dependsOn \cap (job'[Full].done \cup {job'[Full].id}) = {}
    BY DEF FullFits
  <2>2. CASE w = Full
    <3>1. job'[Full] = k
      BY <1>1, <2>2
    <3>2. c # b /\ rows[c].type = "box"
      BY <1>2, <2>1, <3>1
    <3>3. rows'[c].dependsOn = rows[c].dependsOn /\ b \notin rows[c].dependsOn
      BY <1>7, <3>2
    <3>4. rows[c].dependsOn \cap job[Full].done = {}
      BY <1>8, <2>2, <3>2
    <3> QED
      BY <2>2, <3>1, <3>3, <3>4
  <2>3. CASE w # Full
    <3>1. job'[Full] = job[Full]
      BY <1>1, <2>3
    <3>2. c # b /\ rows[c].type = "box" /\ rows'[c] = rows[c]
      BY <1>2, <1>9, <2>1, <2>3
    <3> QED
      BY <2>1, <3>1, <3>2 DEF IInv, Safe, FullFits
  <2> QED
    BY <2>2, <2>3
<1>13. ASSUME NEW d \in job[Full].done, cleaner.step # "idle"
       PROVE  d > cleaner.until /\ d \notin cleaner.doomed
  <2>1. d \in Nat /\ d > cleaner.until
    BY <1>1, <1>6, <1>13, Bounds DEF BackedUp, Young
  <2>2. \A x \in cleaner.doomed : x \in Nat /\ x <= cleaner.until
    BY RowIs, Bounds DEF IInv, Safe, CleanerFits
  <2> QED
    BY <1>1, <2>1, <2>2
<1>14. CleanerFits'
  <2>1. CleanerFits /\ \A x \in cleaner.doomed : x \in Ids
    BY RowIs DEF IInv, Safe
  <2>2. ASSUME cleaner.step # "idle", NEW x \in cleaner.doomed PROVE rows'[x] = rows[x]
    <3>1. x \in Nat /\ x <= made
      <4>1. x \in Nat
        BY <2>1, <2>2, Bounds
      <4>2. x <= cleaner.until
        BY <2>1, <2>2 DEF CleanerFits
      <4> QED
        BY <1>1, <2>2, <4>1, <4>2
    <3> QED
      BY <1>1, <1>2, <2>1, <3>1
  <2>3. ASSUME cleaner.step \in {"boxes", "box row"}, NEW c \in Ids, rows'[c].type = "box",
               NEW d \in rows'[c].dependsOn
        PROVE  d \in cleaner.kept \/ d > cleaner.until
    <3>1. CASE c = b
      BY <1>2, <1>9, <1>13, <2>3, <3>1
    <3>2. CASE c # b
      BY <1>2, <2>1, <2>3, <3>2 DEF CleanerFits
    <3> QED
      BY <3>1, <3>2
  <2>4. ASSUME cleaner.step \in {"apps", "app row"}, NEW c \in Ids, rows'[c].type = "box"
        PROVE  rows'[c].dependsOn \cap cleaner.doomed = {}
    <3>1. CASE c = b
      BY <1>2, <1>9, <1>13, <2>4, <3>1
    <3>2. CASE c # b
      BY <1>2, <2>1, <2>4, <3>2 DEF CleanerFits
    <3> QED
      BY <3>1, <3>2
  <2>5. cleaner.step # "idle" => aged' <= cleaner'.until /\ cleaner'.until <= made'
    <3>1. cleaner.step # "idle" => aged <= cleaner.until /\ cleaner.until <= made
      BY <2>1 DEF CleanerFits
    <3> QED
      BY <1>1, <3>1
  <2> QED
    BY <2>1, <2>2, <2>3, <2>4, <2>5 DEF CleanerFits
<1>15. NeededKept'
  <2>1. SUFFICES ASSUME NEW c \in Ids, rows'[c].type = "box", NEW d \in rows'[c].dependsOn
                 PROVE  rows'[d].type = "app" /\ (content'[c] # Removed => content'[d] # Removed)
    BY DEF NeededKept
  <2>2. CASE c = b
    <3>0. d \in job[Full].done
      BY <1>2, <1>9, <2>1, <2>2
    <3>1. d \in Ids /\ BackedUp(d, "app")'
      BY <1>1, <1>4, <1>6, <3>0
    <3> QED
      BY <3>1 DEF BackedUp
  <2>3. CASE c # b
    <3>1. rows[c].type = "box" /\ rows'[c] = rows[c] /\ content'[c] = content[c]
      BY <1>2, <2>1, <2>3
    <3>2. d \in Ids /\ d # b
      BY <1>7, <2>1, <3>1
    <3> QED
      BY <1>2, <2>1, <3>1, <3>2 DEF IInv, Safe, NeededKept
  <2> QED
    BY <2>2, <2>3
<1>16. DependenciesApart'
  <2>1. SUFFICES ASSUME NEW c \in Ids, NEW e \in Ids, rows'[c].type = "box", rows'[e].type = "box", c # e
                 PROVE  rows'[c].dependsOn \cap rows'[e].dependsOn = {}
    BY DEF DependenciesApart, BoxRows
  <2>2. \A x \in Ids : x # b /\ rows'[x].type = "box" => rows[x].type = "box" /\ rows'[x] = rows[x]
    BY <1>2
  <2>3. CASE c = b
    BY <1>2, <1>8, <1>9, <2>1, <2>2, <2>3
  <2>4. CASE e = b
    BY <1>2, <1>8, <1>9, <2>1, <2>2, <2>4
  <2>5. CASE c # b /\ e # b
    BY <2>1, <2>2, <2>5 DEF IInv, Safe, DependenciesApart, BoxRows
  <2> QED
    BY <2>3, <2>4, <2>5
<1> QED
  BY <1>10, <1>11, <1>12, <1>14, <1>15, <1>16 DEF Safe

LEMMA StartSafe == ASSUME IInv, NEW w \in Workers, Start(w) PROVE Safe'
<1>1. PICK can \in SUBSET {a \in Apps : chosen[a] = Nothing} :
         job' = [job EXCEPT ![w] = [IdleJob EXCEPT !.step = "next", !.can = can, !.read = last,
                                                   !.todo = IF w = Full THEN Apps ELSE {w}]]
  BY DEF Start
<1> DEFINE todo == IF w = Full THEN Apps ELSE {w}
           k == [IdleJob EXCEPT !.step = "next", !.can = can, !.read = last, !.todo = todo]
<1>2. job' = [job EXCEPT ![w] = k]
  BY <1>1
<1>3. k \in Job /\ k.id = 0 /\ k.done = {} /\ k.step = "next"
  <2>1. last \in [Apps -> 0 .. MaxBackups]
    <3>1. last \in [Apps -> 0 .. made] /\ made \in Nat /\ made <= MaxBackups /\ MaxBackups \in Nat
      BY RowIs, Bounds DEF TypeOK
    <3> QED
      BY <3>1
  <2>2. todo \in SUBSET Apps
    BY Bounds
  <2>3. can \in SUBSET Apps
    OBVIOUS
  <2> HIDE DEF todo
  <2> QED
    BY <2>1, <2>2, <2>3, Empty, IdleIs DEF Job
<1> HIDE DEF k
<1>4. KeepsWork(job[w], k)
  BY <1>3 DEF KeepsWork, StepFits, AtWork
<1>5. SameBackups
  BY DEF SameBackups, Start, dbVars
<1> QED
  BY <1>2, <1>3, <1>4, <1>5, JobStep

LEMMA BeginAppSafe == ASSUME IInv, NEW w \in Workers, NEW a \in Apps, BeginApp(w, a) PROVE Safe'
<1>0. /\ UNCHANGED <<last, provider, chosen, restores, cleaner, aged, stopping, restarts>>
      /\ job[w].step = "next" /\ TypeOK /\ made \in Nat
  BY RowIs DEF BeginApp
<1>1. ASSUME NEW of \in 0 .. made + 1, NEW step \in {"store", "copy"}, Add(w, a, of, step),
             step = "copy" => job[w].read[a] # 0
      PROVE  Safe'
  <2> DEFINE b == made + 1
             r == [type |-> "app", state |-> "normal", dependsOn |-> {}, of |-> of]
             k == [job[w] EXCEPT !.step = step, !.id = b, !.app = a, !.todo = @ \ {a}]
  <2>1. /\ b <= MaxBackups /\ made' = b /\ content' = [content EXCEPT ![b] = Begun]
        /\ rows' = [rows EXCEPT ![b] = r] /\ job' = [job EXCEPT ![w] = k]
    BY <1>1 DEF Add, AddRow
  <2>2. b \in Ids /\ b \in 0 .. MaxBackups /\ b # 0
    BY <1>0, <2>1, Bounds DEF Ids
  <2>3. r \in Row /\ r.type = "app" /\ r.dependsOn = {}
    <3>1. of \in 0 .. MaxBackups
      BY <1>0, <2>1, Bounds
    <3> QED
      BY <3>1 DEF Row
  <2>4. /\ k \in Job /\ k.id = b /\ k.done = job[w].done /\ k.app = a /\ k.step = step
        /\ k.read = job[w].read
    <3>1. job[w] \in Job /\ job[w].todo \ {a} \in SUBSET Apps /\ a \in Workers
      BY <1>0, JobIs, Bounds
    <3> HIDE DEF b
    <3> QED
      BY <2>2, <3>1 DEF Job
  <2> HIDE DEF r, k
  <2>5. StepFits(k) /\ k.app # Full
    BY <1>1, <2>2, <2>4, Bounds DEF StepFits, AtWork
  <2> HIDE DEF b
  <2>6. b = made + 1
    BY DEF b
  <2> QED
    BY <1>0, <2>1, <2>2, <2>3, <2>4, <2>5, <2>6, AddSafe
<1>2. CASE a \in job[w].can /\ createNewAppBackup(w, a)
  <2>1. made + 1 \in 0 .. made + 1
    BY <1>0
  <2> QED
    BY <1>1, <1>2, <2>1 DEF createNewAppBackup
<1>3. CASE a \notin job[w].can /\ job[w].read[a] # 0 /\ copyLastBackup(w, a)
  <2> DEFINE s == job[w].read[a]
  <2>1. s \in 0 .. MaxBackups /\ s <= made /\ s # 0
    BY <1>0, <1>3, JobIs
  <2>2. s \in Ids /\ rows[s] \in Row /\ rows[s].of <= s
    BY <1>0, <2>1, Bounds DEF TypeOK
  <2>3. rows[s].of \in Nat /\ s \in Nat
    <3>1. rows[s].of \in 0 .. MaxBackups
      BY <2>2 DEF Row
    <3>2. s \in Nat
      BY <2>1, Bounds
    <3>3. rows[s].of \in Nat
      BY <3>1, Bounds
    <3> QED
      BY <3>2, <3>3
  <2>4. rows[s].of \in 0 .. made + 1
    BY <1>0, <2>1, <2>2, <2>3
  <2> QED
    BY <1>1, <1>3, <2>4 DEF copyLastBackup
<1>4. CASE /\ job' = [job EXCEPT ![w] = IF w = Full THEN [job[w] EXCEPT !.todo = @ \ {a}] ELSE IdleJob]
           /\ UNCHANGED <<rows, content, made>>
  <2> DEFINE k == IF w = Full THEN [job[w] EXCEPT !.todo = @ \ {a}] ELSE IdleJob
  <2>1. job' = [job EXCEPT ![w] = k]
    BY <1>4
  <2>2. k \in Job /\ KeepsWork(job[w], k)
    <3>1. CASE w = Full
      <4>1. job[w] \in Job /\ job[w].todo \ {a} \in SUBSET Apps /\ StepFits(job[w])
        BY <1>0, JobIs DEF IInv, Safe, JobsFit, JobFits
      <4>2. k = [job[w] EXCEPT !.todo = job[w].todo \ {a}]
        BY <3>1
      <4>3. /\ k \in Job /\ k.step = job[w].step /\ k.id = job[w].id /\ k.done = job[w].done
            /\ k.app = job[w].app
        <5> HIDE DEF k
        <5> QED
          BY <4>1, <4>2 DEF Job
      <4> HIDE DEF k
      <4> QED
        BY <1>0, <4>1, <4>3 DEF KeepsWork, StepFits, AtWork
    <3>2. CASE w # Full
      BY <3>2, Empty, IdleIs DEF KeepsWork, StepFits, AtWork
    <3> QED
      BY <3>1, <3>2
  <2> HIDE DEF k
  <2>3. SameBackups
    BY <1>0, <1>4 DEF SameBackups
  <2> QED
    BY <2>1, <2>2, <2>3, JobStep
<1> QED
  BY <1>2, <1>3, <1>4 DEF BeginApp

LEMMA BeginBoxSafe == ASSUME IInv, BeginBox PROVE Safe'
<1> DEFINE b == made + 1
           r == [type |-> "box", state |-> "normal", dependsOn |-> job[Full].done, of |-> b]
           k == [job[Full] EXCEPT !.step = "store", !.id = b, !.app = Full]
<1>1. /\ b <= MaxBackups /\ made' = b /\ content' = [content EXCEPT ![b] = Begun]
      /\ rows' = [rows EXCEPT ![b] = r] /\ job' = [job EXCEPT ![Full] = k]
      /\ job[Full].step = "next" /\ cleaner' = cleaner /\ aged' = aged
  BY DEF BeginBox, AddRow
<1>2. TypeOK /\ made \in Nat /\ b \in Ids /\ b \in 0 .. MaxBackups /\ b # 0 /\ Full \in Workers
  BY <1>1, RowIs, Bounds DEF Ids
<1>3. r \in Row /\ r.type = "box" /\ r.dependsOn = job[Full].done
  <2>1. job[Full].done \in SUBSET Ids
    BY <1>2, JobIs
  <2> HIDE DEF b
  <2> QED
    BY <1>2, <2>1 DEF Row
<1>4. k \in Job /\ k.id = b /\ k.done = job[Full].done /\ k.app = Full /\ k.step = "store"
  <2>1. job[Full] \in Job
    BY <1>2, JobIs
  <2> HIDE DEF b
  <2> QED
    BY <1>2, <2>1 DEF Job
<1> HIDE DEF r, k
<1>5. StepFits(k)
  BY <1>2, <1>4 DEF StepFits, AtWork
<1>6. b = made + 1
  OBVIOUS
<1> HIDE DEF b
<1> QED
  BY <1>1, <1>2, <1>3, <1>4, <1>5, <1>6, AddSafe

LEMMA EndSafe ==
    ASSUME IInv, NEW w \in Workers, job[w].step \in AtWork, NEW o, o.has \in {Missing, Partial, Whole},
           o.step \in {"stored", "failed"}, End(w, o)
    PROVE  Safe'
<1> DEFINE k == [job[w] EXCEPT !.step = o.step]
<1>1. job' = [job EXCEPT ![w] = k] /\ content' = [content EXCEPT ![job[w].id] = o.has]
  BY DEF End
<1>2. k \in Job /\ k.id = job[w].id /\ k.done = job[w].done /\ k.app = job[w].app
      /\ k.step \in {"stored", "failed"}
  <2>1. job[w] \in Job
    BY RowIs, JobIs
  <2>2. CASE o.step = "stored"
    BY <2>1, <2>2 DEF Job
  <2>3. CASE o.step = "failed"
    BY <2>1, <2>3 DEF Job
  <2> QED
    BY <2>2, <2>3
<1> HIDE DEF k
<1>3. job[w].id # 0 /\ job[w].id \in Ids /\ content[job[w].id] # Removed
  <2>1. JobFits(w) /\ job[w].id \in 0 .. MaxBackups
    BY RowIs, JobIs DEF IInv, Safe, JobsFit
  <2> QED
    BY <2>1, Bounds DEF JobFits, StepFits, BackedUp
<1>4. KeepsWork(job[w], k)
  BY <1>2, <1>3 DEF KeepsWork, StepFits, AtWork
<1>5. SameBackups
  <2>1. ASSUME NEW b \in Ids PROVE content'[b] = Removed <=> content[b] = Removed
    <3>1. o.has # Removed
      BY DEF Missing, Partial, Whole, Removed
    <3> QED
      BY <1>1, <1>3, <3>1, RowIs
  <2> QED
    BY <2>1 DEF SameBackups, End, dbVars
<1> QED
  BY <1>1, <1>2, <1>4, <1>5, JobStep

LEMMA EndsSafe == ASSUME IInv, NEW w \in Workers, BackupTaskEnds(w) \/ CopyEnds(w) PROVE Safe'
<1>1. TypeOK
  BY DEF IInv
<1>2. CASE BackupTaskEnds(w)
  <2>1. PICK o \in backup : End(w, o)
    BY <1>2 DEF BackupTaskEnds
  <2>2. job[w].step \in AtWork
    BY <1>2 DEF BackupTaskEnds, AtWork
  <2> QED
    BY <1>1, <2>1, <2>2, Outcomes, EndSafe
<1>3. CASE CopyEnds(w)
  <2>1. PICK o \in copyBackup(job[w].read[job[w].app]) : End(w, o)
    BY <1>3 DEF CopyEnds
  <2>2. job[w].step \in AtWork
    BY <1>3 DEF CopyEnds, AtWork
  <2> QED
    BY <1>1, <2>1, <2>2, Outcomes, EndSafe
<1> QED
  BY <1>2, <1>3

LEMMA SetStateSafe == ASSUME IInv, NEW w \in Workers, SetState(w) PROVE Safe'
<1> DEFINE b == job[w].id
           s == IF Exists(b) THEN IF job[w].step = "stored" THEN "normal" ELSE "error" ELSE rows[b].state
           k == IF job[w].step = "failed" \/ job[w].app = Full THEN IdleJob
                ELSE [job[w] EXCEPT !.step = "point"]
<1>1. rows' = [rows EXCEPT ![b].state = s] /\ job' = [job EXCEPT ![w] = k]
  BY DEF SetState
<1>2. b \in Ids /\ b # 0 /\ job[w] \in Job
  <2>1. b # 0
    BY DEF SetState, IInv, Safe, JobsFit, JobFits, StepFits, AtWork
  <2> QED
    BY <2>1, RowIs, JobIs, Bounds
<1>3. k \in Job /\ KeepsWork(job[w], k)
  <2>1. CASE job[w].step = "failed" \/ job[w].app = Full
    BY <2>1, Empty, IdleIs DEF KeepsWork, StepFits, AtWork
  <2>2. CASE ~(job[w].step = "failed" \/ job[w].app = Full)
    <3>1. k = [job[w] EXCEPT !.step = "point"] /\ job[w].app \in Apps
      BY <1>2, <2>2, RowIs, JobIs, Bounds
    <3>2. /\ k \in Job /\ k.step = "point" /\ k.id = b /\ k.app = job[w].app /\ k.done = job[w].done
      BY <1>2, <3>1 DEF Job
    <3> HIDE DEF k, b
    <3>3. b = job[w].id
      BY DEF b
    <3> QED
      BY <1>2, <3>1, <3>2, <3>3 DEF KeepsWork, StepFits, AtWork
  <2> QED
    BY <2>1, <2>2
<1> HIDE DEF k, s
<1>4. SameBackups
  <2>1. ASSUME NEW c \in Ids
        PROVE  rows'[c].type = rows[c].type /\ rows'[c].dependsOn = rows[c].dependsOn
    <3>1. rows[c] \in Row /\ rows \in [Ids -> Row]
      BY RowIs
    <3> QED
      BY <1>1, <1>2, <3>1 DEF Row
  <2> QED
    BY <2>1 DEF SameBackups, SetState
<1> QED
  BY <1>1, <1>3, <1>4, JobStep

LEMMA SetRestorePointSafe == ASSUME IInv, NEW w \in Workers, SetRestorePoint(w) PROVE Safe'
<1> DEFINE k == IF w = Full
                THEN [job[w] EXCEPT !.step = "next", !.done = job[w].done \cup {job[w].id}]
                ELSE IdleJob
<1>1. job' = [job EXCEPT ![w] = k]
  BY DEF SetRestorePoint
<1>2. job[w].id \in Ids /\ job[w].id # 0 /\ job[w] \in Job /\ job[w].app \in Apps
      /\ job[w].done \cup {job[w].id} \in SUBSET Ids
  <2>1. job[w].id # 0 /\ job[w].app \in Apps
    BY DEF SetRestorePoint, IInv, Safe, JobsFit, JobFits, StepFits, AtWork
  <2> QED
    BY <2>1, RowIs, JobIs, Bounds
<1>3. k \in Job /\ KeepsWork(job[w], k)
  <2>1. CASE w = Full
    <3>1. k = [job[w] EXCEPT !.step = "next", !.done = job[w].done \cup {job[w].id}]
      BY <2>1
    <3>2. /\ k \in Job /\ k.step = "next" /\ k.id = job[w].id /\ k.app = job[w].app
          /\ k.done = job[w].done \cup {job[w].id}
      BY <1>2, <3>1 DEF Job
    <3> HIDE DEF k
    <3> QED
      BY <1>2, <3>2, Bounds DEF KeepsWork, StepFits, AtWork
  <2>2. CASE w # Full
    BY <2>2, Empty, IdleIs DEF KeepsWork, StepFits, AtWork
  <2> QED
    BY <2>1, <2>2
<1> HIDE DEF k
<1>4. SameBackups
  BY DEF SameBackups, SetRestorePoint
<1> QED
  BY <1>1, <1>3, <1>4, JobStep

LEMMA AbortSafe == ASSUME IInv, NEW w \in Workers, Abort(w) PROVE Safe'
<1>1. job' = [job EXCEPT ![w] = IdleJob] /\ IdleJob \in Job
  BY Empty DEF Abort
<1>2. KeepsWork(job[w], IdleJob)
  BY IdleIs DEF KeepsWork, StepFits, AtWork
<1>3. SameBackups
  BY DEF SameBackups, Abort, dbVars
<1> QED
  BY <1>1, <1>2, <1>3, JobStep

\* A step that changes nothing Safe is about.
LEMMA OthersSafe ==
    ASSUME IInv, UNCHANGED <<rows, content, made, job, cleaner, aged>>
    PROVE  Safe'
BY DEF IInv, Safe, RowsFit, RowFits, JobsFit, JobFits, StepFits, BackedUp, Young, FullFits,
       CleanerFits, NeededKept, DependenciesApart, BoxRows

LEMMA RestoreSafe ==
    ASSUME IInv, NEW a \in Apps, (\E b \in 0 .. MaxBackups : Restore(a, b)) \/ RestoreTask(a) PROVE Safe'
BY OthersSafe DEF Restore, RestoreTask, dbVars

LEMMA StopSafe == ASSUME IInv, Stop PROVE Safe'
BY OthersSafe DEF Stop, dbVars

-----------------------------------------------------------------------------
(* Nothing is removed that is needed: the cleanup, time and restarts. *)

\* A step of the cleanup or of time, which changes no backup and no job.
LEMMA SameWorkSafe ==
    ASSUME IInv, UNCHANGED <<rows, content, made, job>>, CleanerFits',
           \A w \in Workers : /\ job[w].id # 0 => Young(job[w].id)'
                              /\ \A d \in job[w].done : Young(d)'
    PROVE  Safe'
<1>1. RowsFit' /\ NeededKept' /\ DependenciesApart' /\ FullFits'
  BY DEF IInv, Safe, RowsFit, RowFits, NeededKept, DependenciesApart, BoxRows, FullFits
<1>2. ASSUME NEW w \in Workers PROVE JobFits(w)'
  <2>1. JobFits(w)
    BY DEF IInv, Safe, JobsFit
  <2> QED
    BY <2>1 DEF JobFits, StepFits, BackedUp
<1> QED
  BY <1>1, <1>2 DEF Safe, JobsFit

LEMMA JobYoung ==
    ASSUME IInv, NEW w \in Workers
    PROVE  /\ job[w].id # 0 => Young(job[w].id)
           /\ \A d \in job[w].done : Young(d)
           /\ job[w].id \in Nat /\ job[w].done \subseteq Nat
<1>1. JobFits(w) /\ TypeOK
  BY DEF IInv, Safe, JobsFit
<1>2. job[w].id \in 0 .. MaxBackups /\ job[w].done \subseteq Ids
  BY <1>1, JobIs
<1>3. job[w].id \in Nat /\ job[w].done \subseteq Nat
  <2>1. Ids \subseteq Nat /\ MaxBackups \in Nat
    BY Bounds
  <2>2. job[w].id \in Nat
    BY <1>2, <2>1
  <2> QED
    BY <1>2, <2>1, <2>2
<1> QED
  BY <1>1, <1>3 DEF JobFits, BackedUp

LEMMA CleanBoxesSafe == ASSUME IInv, CleanBoxes PROVE Safe'
<1>1. /\ aged \in Nat /\ made \in Nat /\ Finished \in Nat /\ aged <= Finished /\ Finished <= made
      /\ \A b \in Ids : b \in Nat
  BY RowIs, FinishedFits, Bounds
<1>2. /\ cleaner'.step = "boxes" /\ cleaner'.until = Finished
      /\ cleaner'.doomed = {b \in BoxRows \ Preserved : b <= aged}
      /\ cleaner'.kept = UNION {rows[b].dependsOn : b \in BoxRows}
      /\ UNCHANGED <<rows, content, made, job, aged>>
  BY DEF CleanBoxes, Referenced, dbVars
<1>3. CleanerFits'
  <2>1. \A b \in cleaner'.doomed : b \in Ids /\ b <= aged /\ rows[b].type = "box"
    BY <1>2 DEF BoxRows
  <2>2. \A b \in cleaner'.doomed : b <= cleaner'.until
    BY <1>1, <1>2, <2>1
  <2>3. \A c \in Ids : rows[c].type = "box" => \A d \in rows[c].dependsOn : d \in cleaner'.kept
    BY <1>2 DEF BoxRows
  <2> QED
    BY <1>1, <1>2, <2>1, <2>2, <2>3 DEF CleanerFits
<1>4. ASSUME NEW w \in Workers
      PROVE  /\ job[w].id # 0 => Young(job[w].id)'
             /\ \A d \in job[w].done : Young(d)'
  BY <1>2, JobYoung, FinishedFits DEF Young
<1> QED
  BY <1>2, <1>3, <1>4, SameWorkSafe

LEMMA CleanAppsSafe == ASSUME IInv, CleanApps PROVE Safe'
<1>1. /\ aged \in Nat /\ made \in Nat /\ Finished \in Nat /\ aged <= Finished /\ Finished <= made
      /\ cleaner.until \in Nat /\ \A b \in Ids : b \in Nat
  BY RowIs, FinishedFits, Bounds
<1> DEFINE until == IF cleaner = IdleCleaner THEN Finished ELSE cleaner.until
<1>2. /\ cleaner'.step = "apps" /\ cleaner'.until = until
      /\ cleaner'.doomed = {b \in AppRows \ cleaner.kept : b <= aged}
      /\ UNCHANGED <<rows, content, made, job, aged>>
  BY DEF CleanApps, dbVars
<1>3. \/ cleaner = IdleCleaner /\ BoxRows = {}
      \/ cleaner.step = "boxes" /\ cleaner # IdleCleaner
  BY IdleIs DEF CleanApps
<1>4. aged <= until /\ until <= made
  BY <1>1, <1>3 DEF IInv, Safe, CleanerFits
<1>5. ASSUME NEW w \in Workers
      PROVE  /\ job[w].id # 0 => Young(job[w].id)'
             /\ \A d \in job[w].done : Young(d)'
  <2>1. CASE cleaner = IdleCleaner
    BY <1>2, <2>1, JobYoung, FinishedFits DEF Young
  <2>2. CASE cleaner.step = "boxes" /\ cleaner # IdleCleaner
    BY <1>2, <2>2, JobYoung DEF Young
  <2> QED
    BY <1>3, <2>1, <2>2
<1>6. CleanerFits'
  <2>1. \A b \in cleaner'.doomed : b \in Nat /\ b <= aged /\ rows[b].type = "app" /\ b \notin cleaner.kept
    BY <1>1, <1>2 DEF AppRows
  <2>2. \A b \in cleaner'.doomed : b <= cleaner'.until
    BY <1>1, <1>2, <1>4, <2>1
  <2>3. ASSUME NEW c \in Ids, rows[c].type = "box" PROVE rows[c].dependsOn \cap cleaner'.doomed = {}
    <3>1. cleaner.step = "boxes" /\ until = cleaner.until
      BY <1>3, <2>3 DEF BoxRows
    <3>2. \A d \in rows[c].dependsOn : d \in cleaner.kept \/ d > cleaner.until
      BY <2>3, <3>1 DEF IInv, Safe, CleanerFits
    <3> QED
      BY <1>1, <1>2, <2>1, <2>2, <3>1, <3>2
  <2> HIDE DEF until
  <2> QED
    BY <1>1, <1>2, <1>4, <2>1, <2>2, <2>3 DEF CleanerFits
<1> QED
  BY <1>2, <1>5, <1>6, SameWorkSafe

\* What the cleanup removes at once is older than all work and belongs to no other box backup.
LEMMA FamilyFits ==
    ASSUME IInv, cleaner.step # "idle", cleaner.doomed # {}, NEW m, m = Max(cleaner.doomed)
    PROVE  /\ m \in cleaner.doomed /\ m \in Family(m)
           /\ \A d \in Family(m) : d \in Ids /\ d <= cleaner.until
           /\ \A c \in Ids : rows[c].type = "box" /\ c \notin Family(m) =>
                 rows[c].dependsOn \cap Family(m) = {}
<1>1. m \in cleaner.doomed /\ m \in Ids /\ m \in Nat /\ cleaner.until \in Nat /\ m <= cleaner.until
  <2>1. cleaner.doomed \in SUBSET (1 .. MaxBackups) /\ MaxBackups \in Nat
    BY RowIs, Bounds DEF Ids
  <2>2. m \in cleaner.doomed
    BY <2>1, Greatest
  <2> QED
    BY <2>2, RowIs, Bounds DEF IInv, Safe, CleanerFits
<1>2. ASSUME NEW d \in Family(m) PROVE d \in Ids /\ d <= cleaner.until
  <2>1. CASE d = m
    BY <1>1, <2>1
  <2>2. CASE d \in rows[m].dependsOn
    <3>1. d \in Ids /\ d < m
      BY <1>1, <2>2, RowIs DEF RowFits
    <3> QED
      BY <1>1, <3>1, Bounds
  <2> QED
    BY <2>1, <2>2 DEF Family
<1>3. ASSUME NEW c \in Ids, rows[c].type = "box", c \notin Family(m)
      PROVE  rows[c].dependsOn \cap Family(m) = {}
  <2>1. SUFFICES ASSUME NEW d \in rows[c].dependsOn, d \in Family(m) PROVE FALSE
    OBVIOUS
  <2>2. rows[d].type = "app" /\ c # m
    BY <1>3, <2>1 DEF IInv, Safe, NeededKept, Family
  <2>3. CASE d = m
    <3>1. cleaner.step \in {"boxes", "box row", "apps", "app row"}
      BY RowIs DEF Cleaner
    <3> QED
      BY <1>1, <1>3, <2>1, <2>2, <2>3, <3>1 DEF IInv, Safe, CleanerFits
  <2>4. CASE d \in rows[m].dependsOn
    <3>1. rows[m].type = "box"
      BY <1>1, <2>4, RowIs DEF RowFits
    <3> QED
      BY <1>1, <1>3, <2>1, <2>2, <2>4, <3>1 DEF IInv, Safe, DependenciesApart, BoxRows
  <2> QED
    BY <2>1, <2>3, <2>4 DEF Family
<1> QED
  BY <1>1, <1>2, <1>3 DEF Family

LEMMA RemoveFilesSafe == ASSUME IInv, RemoveFiles PROVE Safe'
<1> DEFINE m == Max(cleaner.doomed)
           S == Family(m)
<1>1. /\ cleaner.step \in {"boxes", "apps"} /\ cleaner.doomed # {}
      /\ UNCHANGED <<rows, made, job, aged>>
      /\ cleaner' = [cleaner EXCEPT !.step = IF @ = "boxes" THEN "box row" ELSE "app row"]
      /\ content' \in {[b \in Ids |-> IF b \in S THEN Removed ELSE content[b]], content}
  BY DEF RemoveFiles, removeBackups, removeFiles, removeObjects, dbVars
<1>2. /\ m \in cleaner.doomed /\ m \in S
      /\ \A d \in S : d \in Ids /\ d <= cleaner.until
      /\ \A c \in Ids : rows[c].type = "box" /\ c \notin S => rows[c].dependsOn \cap S = {}
  <2>1. cleaner.step # "idle"
    BY <1>1
  <2> QED
    BY <1>1, <2>1, FamilyFits
<1> HIDE DEF m, S
<1>3. /\ \A d \in Ids : content'[d] = content[d] \/ (d \in S /\ content'[d] = Removed)
      /\ (\A d \in Ids : content'[d] = content[d]) \/ (\A d \in S : content'[d] = Removed)
  BY <1>1, <1>2
<1>4. /\ cleaner'.until = cleaner.until /\ cleaner'.doomed = cleaner.doomed /\ cleaner'.kept = cleaner.kept
      /\ cleaner.step = "boxes" => cleaner'.step = "box row"
      /\ cleaner.step = "apps" => cleaner'.step = "app row"
  BY <1>1, RowIs DEF Cleaner
<1>5. RowsFit' /\ FullFits' /\ DependenciesApart'
  BY <1>1 DEF IInv, Safe, RowsFit, RowFits, FullFits, DependenciesApart, BoxRows
<1>6. ASSUME NEW d \in Ids, NEW t, BackedUp(d, t) PROVE BackedUp(d, t)'
  <2>1. d > cleaner.until /\ d \in Nat /\ cleaner.until \in Nat
    BY <1>1, <1>6, RowIs, Bounds DEF BackedUp, Young
  <2>2. d \notin S
    BY <1>2, <2>1
  <2> QED
    BY <1>1, <1>3, <1>4, <1>6, <2>2 DEF BackedUp, Young
<1>7. ASSUME NEW w \in Workers PROVE JobFits(w)'
  <2>1. JobFits(w) /\ job[w].done \subseteq Ids /\ job[w].id \in 0 .. MaxBackups
    BY RowIs, JobIs DEF IInv, Safe, JobsFit
  <2>2. job[w].id # 0 => job[w].id \in Ids
    BY <2>1, Bounds
  <2> QED
    BY <1>1, <1>6, <2>1, <2>2 DEF JobFits, StepFits
<1>8. NeededKept'
  <2>1. SUFFICES ASSUME NEW c \in Ids, rows[c].type = "box", NEW d \in rows[c].dependsOn,
                        content'[c] # Removed
                 PROVE  content'[d] # Removed
    BY <1>1 DEF IInv, Safe, NeededKept
  <2>2. d \in Ids /\ content[c] # Removed
    BY <1>3, <2>1, RowIs
  <2>3. content[d] # Removed
    BY <2>1, <2>2 DEF IInv, Safe, NeededKept
  <2>4. CASE \A x \in S : content'[x] = Removed
    BY <1>2, <1>3, <2>1, <2>2, <2>3, <2>4
  <2>5. CASE \A x \in Ids : content'[x] = content[x]
    BY <2>2, <2>3, <2>5
  <2> QED
    BY <1>3, <2>4, <2>5
<1>9. CleanerFits'
  BY <1>1, <1>4 DEF IInv, Safe, CleanerFits
<1> QED
  BY <1>5, <1>7, <1>8, <1>9 DEF Safe, JobsFit

\* The rows of a backup and of what it depends on are gone.
LEMMA GoneSafe ==
    ASSUME IInv, cleaner.step # "idle", cleaner.doomed # {}, UNCHANGED <<content, made>>,
           rows' = [b \in Ids |-> IF b \in Family(Max(cleaner.doomed)) THEN NoRow ELSE rows[b]]
    PROVE  /\ RowsFit' /\ NeededKept' /\ DependenciesApart'
           /\ \A c \in Ids : rows'[c].type = "box" => rows'[c] = rows[c]
           /\ \A d \in Ids : d > cleaner.until => rows'[d] = rows[d]
           /\ \A d \in Ids : rows'[d] = rows[d] \/ rows'[d].type = "none"
<1> DEFINE m == Max(cleaner.doomed)
           S == Family(m)
<1>1. /\ \A d \in S : d \in Ids /\ d <= cleaner.until
      /\ \A c \in Ids : rows[c].type = "box" /\ c \notin S => rows[c].dependsOn \cap S = {}
  BY FamilyFits
<1> HIDE DEF m, S
<1>2. /\ NoRow.type = "none" /\ NoRow.dependsOn = {}
      /\ \A b \in Ids : rows'[b] = IF b \in S THEN NoRow ELSE rows[b]
  BY DEF NoRow, S, m
<1>3. \A c \in Ids : rows'[c].type = "box" => c \notin S /\ rows'[c] = rows[c]
  BY <1>2
<1>4. \A d \in Ids : d > cleaner.until => rows'[d] = rows[d]
  <2>1. SUFFICES ASSUME NEW d \in Ids, d > cleaner.until, d \in S PROVE FALSE
    BY <1>2
  <2>2. d <= cleaner.until /\ d \in Nat /\ cleaner.until \in Nat
    BY <1>1, <2>1, RowIs, Bounds
  <2> QED
    BY <2>1, <2>2
<1>5. RowsFit'
  <2>1. ASSUME NEW c \in Ids PROVE RowFits(c)'
    BY <1>2, RowIs DEF RowFits
  <2> QED
    BY <2>1 DEF RowsFit
<1>6. NeededKept'
  <2>1. SUFFICES ASSUME NEW c \in Ids, rows'[c].type = "box", NEW d \in rows'[c].dependsOn
                 PROVE  rows'[d].type = "app" /\ (content[c] # Removed => content[d] # Removed)
    BY DEF NeededKept
  <2>2. c \notin S /\ rows[c].type = "box" /\ d \in rows[c].dependsOn
    BY <1>3, <2>1
  <2>3. d \in Ids /\ d \notin S
    BY <1>1, <2>2, RowIs
  <2> QED
    BY <1>2, <2>2, <2>3 DEF IInv, Safe, NeededKept
<1>7. DependenciesApart'
  BY <1>3 DEF IInv, Safe, DependenciesApart, BoxRows
<1> QED
  BY <1>2, <1>3, <1>4, <1>5, <1>6, <1>7

LEMMA RemoveRowsSafe == ASSUME IInv, RemoveRows PROVE Safe'
<1>1. /\ cleaner.step \in {"box row", "app row"} /\ cleaner.step # "idle"
      /\ rows' = [b \in Ids |-> IF b \in Family(Max(cleaner.doomed)) THEN NoRow ELSE rows[b]]
      /\ cleaner' = [cleaner EXCEPT !.step = IF @ = "box row" THEN "boxes" ELSE "apps",
                                    !.doomed = @ \ {Max(@)}]
      /\ UNCHANGED <<content, made, job, aged>>
  BY DEF RemoveRows
<1>2. cleaner.doomed # {}
  BY <1>1 DEF IInv, Safe, CleanerFits
<1>3. /\ RowsFit' /\ NeededKept' /\ DependenciesApart'
      /\ \A c \in Ids : rows'[c].type = "box" => rows'[c] = rows[c]
      /\ \A d \in Ids : d > cleaner.until => rows'[d] = rows[d]
      /\ \A d \in Ids : rows'[d] = rows[d] \/ rows'[d].type = "none"
  BY <1>1, <1>2, GoneSafe
<1>4. /\ cleaner'.until = cleaner.until /\ cleaner'.doomed \subseteq cleaner.doomed
      /\ cleaner'.kept = cleaner.kept
      /\ cleaner.step = "box row" => cleaner'.step = "boxes"
      /\ cleaner.step = "app row" => cleaner'.step = "apps"
  BY <1>1, RowIs DEF Cleaner
<1>5. ASSUME NEW d \in Ids, NEW t, BackedUp(d, t) PROVE BackedUp(d, t)'
  BY <1>1, <1>3, <1>4, <1>5 DEF BackedUp, Young
<1>6. ASSUME NEW w \in Workers PROVE JobFits(w)'
  <2>1. JobFits(w) /\ job[w].done \subseteq Ids /\ job[w].id \in 0 .. MaxBackups
    BY RowIs, JobIs DEF IInv, Safe, JobsFit
  <2>2. job[w].id # 0 => job[w].id \in Ids
    BY <2>1, Bounds
  <2> QED
    BY <1>1, <1>5, <2>1, <2>2 DEF JobFits, StepFits
<1>7. FullFits'
  BY <1>1, <1>3 DEF IInv, Safe, FullFits
<1>8. CleanerFits'
  <2>1. CleanerFits /\ cleaner.doomed \subseteq Ids
    BY RowIs DEF IInv, Safe
  <2>2. /\ aged <= cleaner.until /\ cleaner.until <= made
        /\ \A b \in cleaner'.doomed : b \in Ids /\ b <= cleaner'.until
    BY <1>1, <1>4, <2>1 DEF CleanerFits
  <2>3. CASE cleaner.step = "box row"
    <3>1. \A b \in cleaner'.doomed : rows'[b].type # "app"
      BY <1>3, <1>4, <2>1, <2>3 DEF CleanerFits
    <3>2. \A c \in Ids : rows'[c].type = "box" =>
             \A d \in rows'[c].dependsOn : d \in cleaner'.kept \/ d > cleaner'.until
      BY <1>3, <1>4, <2>1, <2>3 DEF CleanerFits
    <3> QED
      BY <1>1, <1>4, <2>2, <2>3, <3>1, <3>2 DEF CleanerFits
  <2>4. CASE cleaner.step = "app row"
    <3>1. \A b \in cleaner'.doomed : rows'[b].type # "box"
      BY <1>3, <1>4, <2>1, <2>4 DEF CleanerFits
    <3>2. \A c \in Ids : rows'[c].type = "box" => rows'[c].dependsOn \cap cleaner'.doomed = {}
      BY <1>3, <1>4, <2>1, <2>4 DEF CleanerFits
    <3> QED
      BY <1>1, <1>4, <2>2, <2>4, <3>1, <3>2 DEF CleanerFits
  <2> QED
    BY <1>1, <2>3, <2>4
<1> QED
  BY <1>3, <1>6, <1>7, <1>8 DEF Safe, JobsFit

\* A box that is back works on nothing.
LEMMA IdleSafe ==
    ASSUME ProcessGone, RowsFit', NeededKept', DependenciesApart', TypeOK'
    PROVE  Safe'
<1>1. cleaner' = IdleCleaner /\ \A w \in Workers : job'[w] = IdleJob
  BY DEF ProcessGone
<1>2. StepFits(IdleJob)
  BY IdleIs DEF StepFits, AtWork
<1>3. JobsFit'
  BY <1>1, <1>2, IdleIs DEF JobsFit, JobFits, StepFits
<1>4. CleanerFits'
  BY <1>1, IdleIs DEF CleanerFits
<1>5. FullFits'
  <2>1. job'[Full].done = {} /\ job'[Full].id = 0
    BY <1>1, IdleIs, Bounds
  <2>2. ASSUME NEW c \in Ids PROVE 0 \notin rows'[c].dependsOn
    <3>1. rows'[c] \in Row
      BY DEF TypeOK
    <3>2. rows'[c].dependsOn \in SUBSET Ids
      BY <3>1 DEF Row
    <3> QED
      BY <3>2, Bounds
  <2> QED
    BY <2>1, <2>2 DEF FullFits
<1> QED
  BY <1>3, <1>4, <1>5 DEF Safe

LEMMA RemoveThrowsSafe == ASSUME IInv, RemoveThrows PROVE Safe'
<1>1. RowsFit' /\ NeededKept' /\ DependenciesApart'
  <2>1. cleaner.step # "idle"
    BY DEF RemoveThrows
  <2> QED
    BY <2>1, GoneSafe DEF RemoveThrows
<1>2. TypeOK'
  BY RemoveThrowsTypes DEF IInv
<1> QED
  BY <1>1, <1>2, IdleSafe DEF RemoveThrows

LEMMA RestartSafe == ASSUME IInv, Restart PROVE Safe'
<1>1. RowsFit' /\ NeededKept' /\ DependenciesApart'
  BY DEF Restart, dbVars, IInv, Safe, RowsFit, RowFits, NeededKept, DependenciesApart, BoxRows
<1>2. TypeOK'
  BY RestartTypes DEF IInv
<1> QED
  BY <1>1, <1>2, IdleSafe DEF Restart

LEMMA CleanDoneSafe == ASSUME IInv, CleanDone PROVE Safe'
<1>1. cleaner' = IdleCleaner /\ UNCHANGED <<rows, content, made, job, aged>>
  BY DEF CleanDone, dbVars
<1>2. CleanerFits'
  BY <1>1, IdleIs DEF CleanerFits
<1>3. ASSUME NEW w \in Workers
      PROVE  /\ job[w].id # 0 => Young(job[w].id)'
             /\ \A d \in job[w].done : Young(d)'
  BY <1>1, JobYoung, IdleIs DEF Young
<1> QED
  BY <1>1, <1>2, <1>3, SameWorkSafe

LEMMA AgeSafe == ASSUME IInv, Age PROVE Safe'
<1>1. /\ aged < Finished /\ aged < cleaner.until /\ aged' = aged + 1
      /\ UNCHANGED <<rows, content, made, job, cleaner>>
  BY DEF Age, dbVars
<1>2. aged \in Nat /\ Finished \in Nat /\ cleaner.until \in Nat
  BY RowIs, FinishedFits
<1>3. CleanerFits'
  <2>1. aged' <= cleaner.until
    BY <1>1, <1>2
  <2> QED
    BY <1>1, <2>1 DEF IInv, Safe, CleanerFits
<1>4. ASSUME NEW w \in Workers
      PROVE  /\ job[w].id # 0 => Young(job[w].id)'
             /\ \A d \in job[w].done : Young(d)'
  <2>1. job[w].id # 0 => Young(job[w].id) /\ job[w].id > Finished /\ job[w].id \in Nat
    BY JobYoung, FinishedFits
  <2>2. ASSUME NEW d \in job[w].done PROVE Young(d) /\ d > Finished /\ d \in Nat
    BY JobYoung, FinishedFits
  <2>3. job'[w].id = job[w].id /\ aged' = aged + 1 /\ cleaner' = cleaner
    BY <1>1
  <2> QED
    BY <1>1, <1>2, <2>1, <2>2, <2>3 DEF Young
<1> QED
  BY <1>1, <1>3, <1>4, SameWorkSafe

LEMMA NextSafe == ASSUME IInv, Next PROVE Safe'
<1>1. ASSUME NEW w \in Workers,
             \/ Start(w) \/ (\E a \in Apps : BeginApp(w, a)) \/ BackupTaskEnds(w) \/ CopyEnds(w)
             \/ SetState(w) \/ SetRestorePoint(w) \/ Abort(w)
      PROVE  Safe'
  BY <1>1, StartSafe, BeginAppSafe, EndsSafe, SetStateSafe, SetRestorePointSafe, AbortSafe
<1>2. ASSUME NEW a \in Apps, (\E b \in 0 .. MaxBackups : Restore(a, b)) \/ RestoreTask(a)
      PROVE  Safe'
  BY <1>2, RestoreSafe
<1>3. ASSUME \/ BeginBox \/ CleanBoxes \/ CleanApps \/ RemoveFiles \/ RemoveRows \/ RemoveThrows
             \/ CleanDone \/ Age \/ Stop \/ Restart
      PROVE  Safe'
  BY <1>3, BeginBoxSafe, CleanBoxesSafe, CleanAppsSafe, RemoveFilesSafe, RemoveRowsSafe,
     RemoveThrowsSafe, CleanDoneSafe, AgeSafe, StopSafe, RestartSafe
<1> QED
  BY <1>1, <1>2, <1>3 DEF Next

-----------------------------------------------------------------------------
(* The theorems. *)
LEMMA Invariance == Spec => []IInv
<1>1. Init => IInv
  BY InitTypes, InitSafe DEF IInv
<1>2. IInv /\ [Next]_vars => IInv'
  <2>1. SUFFICES ASSUME IInv, [Next]_vars PROVE IInv'
    OBVIOUS
  <2>2. CASE Next
    BY <2>1, <2>2, NextTypes, NextSafe DEF IInv
  <2>3. CASE UNCHANGED vars
    <3>1. TypeOK'
      BY <2>1, <2>3 DEF IInv, TypeOK, vars, dbVars
    <3>2. Safe'
      BY <2>1, <2>3, OthersSafe DEF vars, dbVars
    <3> QED
      BY <3>1, <3>2 DEF IInv
  <2> QED
    BY <2>1, <2>2, <2>3
<1> QED
  BY <1>1, <1>2, PTL DEF Spec

\* Every variable of Backups keeps a value the code can give it, for any apps, any kinds
\* of storage and any bounds: rows, restore points, jobs and the cleanup name only
\* backups that were made.
THEOREM TypeCorrect == Spec => []TypeOK
<1>1. IInv => TypeOK
  BY DEF IInv
<1> QED
  BY <1>1, Invariance, PTL

\* Whatever is backed up, copied, restored or cut off while cleanupBackups removes what
\* it decided on before, a box backup never loses an app backup it depends on, neither
\* its row nor, while the box backup is stored, its data.
THEOREM NeededStay == Spec => []DependenciesKept
<1>1. IInv => DependenciesKept
  <2>1. SUFFICES ASSUME IInv, NEW b \in BoxRows, NEW d \in rows[b].dependsOn
                 PROVE  Exists(d) /\ (Stored(b) => content[d] # Removed)
    BY DEF DependenciesKept
  <2>2. rows[d].type = "app" /\ (content[b] # Removed => content[d] # Removed)
    BY <2>1 DEF IInv, Safe, NeededKept, BoxRows
  <2>3. Stored(b) => content[b] # Removed
    BY DEF Stored, Partial, Whole, Removed
  <2> QED
    BY <2>2, <2>3 DEF Exists
<1> QED
  BY <1>1, Invariance, PTL

\* No app backup belongs to two box backups: an app that cannot be backed up has its
\* last backup copied for the box backup, and is not referred to by both.
THEOREM NeededOnce == Spec => []DependenciesApart
<1>1. IInv => DependenciesApart
  BY DEF IInv, Safe
<1> QED
  BY <1>1, Invariance, PTL

=============================================================================
