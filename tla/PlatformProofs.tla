--------------------------- MODULE PlatformProofs ---------------------------
(***************************************************************************)
(* The safety of what the box runs beside the apps, for any apps and any   *)
(* bounds: of the start of its containers (Platform) and, in the second    *)
(* half, of the certificates nginx serves (Certificates).  The two share   *)
(* no variable.                                                            *)
(*                                                                         *)
(* Platform: app tasks start on complete addons, and every app that is     *)
(* said to be installed by then has its container.  The box may end        *)
(* anywhere, so the argument is about what the file of containers says by  *)
(* itself: which of them are there, and whose apps have theirs, whatever   *)
(* process wrote it.                                                       *)
(***************************************************************************)
EXTENDS Platform, Certificates, TLAPS

\* The app has its container, or its row does not say that it is at rest.
Kept(a) == row[a] \in {"installed", "pending_backup"} => container[a] \/ a \in forgotten

\* The start has not come to the file yet.
Early == {"off", "setup", "domain", "addons", "mail", "apps", "written"}

\* The file says of addons: those whose images did not change are there.
AddonsFit ==
    /\ infra.differs = "same" => infra.changed = {} /\ running = Databases
    /\ infra.differs = "images" => Databases \ infra.changed \subseteq running
    /\ at \in {"addons", "mail"} => Databases \subseteq running \cup todo
    /\ at \in {"apps", "written"} => running = Databases

\* The file says of apps: no more than these have lost their containers.
AppsFit ==
    /\ infra.differs \notin Renews => \A a \in Apps : Kept(a)
    /\ at = "apps" => \A a \in Apps \ marking : Kept(a)
    /\ at = "written" => \A a \in Apps : Kept(a)

\* Nothing of an app is at work before the file says that all is there.
ProcessFits ==
    /\ timer \/ ready => infra = Same
    /\ at \in Early => ~timer /\ ~ready
    /\ mailStart["start"].step # "idle" => at = "mail"
    /\ \A a \in Apps : task[a] # "none" => ready /\ row[a] \in PendingStates

Safe == AddonsFit /\ AppsFit /\ ProcessFits

IInv == TypeOK /\ Safe

-----------------------------------------------------------------------------
(* What the constants are. *)
LEMMA Empty ==
    /\ Same \in Infra /\ NoMail \notin Mail
    /\ NoFlow \in Flow /\ NoJobs \in Jobs /\ Zero \in Counts
    /\ "start" \in Slots \cup {"start"} /\ "start" \notin Slots
BY PlatformAssumption DEF PlatformAssumption, Same, Infra, Differences, NoMail, Mail, Values,
   NoFlow, Flow, NoJobs, Jobs, Zero, Counts

(* Counting keeps within the bounds. *)
LEMMA Counted ==
    ASSUME TypeOK, NEW what \in {"restarts", "updates", "failures", "commands", "changes"}, Count(what)
    PROVE  count' \in Counts
BY PlatformAssumption DEF PlatformAssumption, TypeOK, Counts, Count, Zero, Bound

(* What the listeners of cron make of its jobs. *)
Counting(j) == j \in Jobs /\ (j.handle => j.refreshing > 0)

LEMMA PatternChanged ==
    ASSUME NEW j, Counting(j), NEW v \in Values
    PROVE  Counting(autoupdatePatternChanged(j, v))
<1> DEFINE new == autoupdatePatternChanged(j, v)
<1>1. new \in Jobs
  BY DEF Counting, Jobs, autoupdatePatternChanged
<1>2. new.refreshing = j.refreshing
  BY DEF Counting, Jobs, autoupdatePatternChanged
<1>3. new.handle = j.handle
  BY DEF Counting, Jobs, autoupdatePatternChanged
<1> SUFFICES Counting(new)
  OBVIOUS
<1> HIDE DEF new
<1> QED
  BY <1>1, <1>2, <1>3, Zenon DEF Counting

LEMMA DynamicChanged ==
    ASSUME NEW j, Counting(j), NEW v \in Values
    PROVE  Counting(dynamicDNSChanged(j, v))
<1> DEFINE new == dynamicDNSChanged(j, v)
<1>1. CASE v = 1
  <2> DEFINE one == [j EXCEPT !.refreshing = @ + 1]
  <2>0. one \in Jobs
    BY DEF Counting, Jobs
  <2>1. new \in Jobs
    <3>1. new = [one EXCEPT !.handle = TRUE]
      BY <1>1 DEF dynamicDNSChanged
    <3> HIDE DEF one, new
    <3> QED
      BY <2>0, <3>1 DEF Jobs
  <2>2. new.refreshing > 0
    BY <1>1 DEF Counting, Jobs, dynamicDNSChanged
  <2> QED
    BY <2>1, <2>2 DEF Counting
<1>2. CASE v # 1
  <2>1. new \in Jobs
    <3>1. CASE j.handle
      <4> DEFINE less == [j EXCEPT !.refreshing = @ - 1]
      <4>1. less \in Jobs
        BY <3>1 DEF Counting, Jobs
      <4>2. new = [less EXCEPT !.handle = FALSE]
        BY <1>2, <3>1 DEF dynamicDNSChanged
      <4> HIDE DEF less, new
      <4> QED
        BY <4>1, <4>2 DEF Jobs
    <3>2. CASE ~j.handle
      BY <1>2, <3>2 DEF Counting, Jobs, dynamicDNSChanged
    <3> QED
      BY <3>1, <3>2
  <2>2. ~new.handle
    BY <1>2 DEF Counting, Jobs, dynamicDNSChanged
  <2> QED
    BY <2>1, <2>2 DEF Counting
<1> QED
  BY <1>1, <1>2

LEMMA Recreated ==
    ASSUME TypeOK, NEW v \in Values
    PROVE  Counting(recreateJobs(v))
<1> DEFINE new == recreateJobs(v)
<1>1. new \in Jobs
  BY DEF TypeOK, Jobs, recreateJobs
<1>2. new.refreshing = jobs.refreshing
  BY DEF TypeOK, Jobs, recreateJobs
<1>3. new.handle = jobs.handle
  BY DEF TypeOK, Jobs, recreateJobs
<1> SUFFICES Counting(new)
  OBVIOUS
<1> HIDE DEF new
<1> QED
  BY <1>1, <1>2, <1>3, Zenon DEF TypeOK, Counting

-----------------------------------------------------------------------------
(* The process ends: what it knew is gone, what is on the disk stays. *)
LEMMA ProcessGoneTypes ==
    ASSUME TypeOK, ProcessGone
    PROVE  /\ at' \in Steps /\ up' \in BOOLEAN /\ todo' \subseteq Addons /\ marking' \subseteq Apps
           /\ stopping' \in BOOLEAN /\ timer' \in BOOLEAN /\ ready' \in BOOLEAN
           /\ task' \in [Apps -> {"none", "begun", "removed"}]
           /\ mailStart' \in [Slots \cup {"start"} -> Flow]
           /\ calls' \subseteq Keys \X Values
           /\ jobs' \in Jobs /\ (jobs'.handle => jobs'.refreshing > 0)
BY Empty DEF TypeOK, ProcessGone, Steps, NoJobs

LEMMA Elsewhere ==
    ASSUME IInv, UNCHANGED <<infra, running, row, container, forgotten, at, todo, marking, timer, ready,
                             task>>,
           mailStart'["start"].step # "idle" => mailStart["start"].step # "idle"
    PROVE  Safe'
BY DEF IInv, Safe, AddonsFit, AppsFit, ProcessFits, Kept

LEMMA ProcessGoneSafe ==
    ASSUME IInv, ProcessGone, UNCHANGED <<infra, running, row, container, forgotten>>
    PROVE  Safe'
<1>1. AddonsFit'
  BY DEF IInv, Safe, AddonsFit, ProcessGone
<1>2. AppsFit'
  BY DEF IInv, Safe, AppsFit, Kept, ProcessGone
<1>3. ProcessFits'
  BY Empty DEF IInv, TypeOK, ProcessFits, ProcessGone, NoFlow
<1> QED
  BY <1>1, <1>2, <1>3 DEF Safe

-----------------------------------------------------------------------------
(* The box ends, and starts again. *)

LEMMA CrashKeeps ==
    ASSUME IInv, Crash
    PROVE  IInv'
<1>1. TypeOK'
  BY ProcessGoneTypes, Counted DEF IInv, TypeOK, Crash, disk
<1>2. Safe'
  BY ProcessGoneSafe DEF Crash, disk
<1> QED
  BY <1>1, <1>2 DEF IInv

LEMMA StopKeeps ==
    ASSUME IInv, Stop
    PROVE  IInv'
<1>1. TypeOK'
  BY Empty, Counted DEF IInv, TypeOK, Stop, disk, Jobs, Steps, NoJobs
<1>2. Safe'
  BY DEF IInv, TypeOK, Safe, AddonsFit, AppsFit, ProcessFits, Kept, Stop, disk, Early, Same
<1> QED
  BY <1>1, <1>2 DEF IInv

LEMMA ExitKeeps ==
    ASSUME IInv, Exit
    PROVE  IInv'
<1>1. TypeOK'
  BY ProcessGoneTypes DEF IInv, TypeOK, Exit, disk
<1>2. Safe'
  BY ProcessGoneSafe DEF Exit, disk
<1> QED
  BY <1>1, <1>2 DEF IInv

LEMMA UpdateBoxKeeps ==
    ASSUME IInv, UpdateBox
    PROVE  IInv'
<1>1. TypeOK'
  <2>1. Newer \subseteq Infra
    BY DEF IInv, TypeOK, Newer, Infra, Differences, Restores, Addons, Databases
  <2> QED
    BY <2>1, Counted DEF IInv, TypeOK, UpdateBox, process
<1>2. Safe'
  <2>1. /\ infra.differs \in Restores => infra' = infra
        /\ infra.differs = "minor" => infra'.differs \in {"minor", "major"}
        /\ infra.differs \notin Renews =>
             \/ infra'.differs \in {"minor", "major"}
             \/ infra'.differs = "images" /\ infra.changed \subseteq infra'.changed
    <3>1. infra' \in Newer
      BY DEF UpdateBox
    <3>2. CASE infra.differs \in Restores
      BY <3>1, <3>2 DEF Newer, Restores, Renews
    <3>3. CASE infra.differs = "minor"
      BY <3>1, <3>3 DEF IInv, TypeOK, Infra, Newer, Restores, Renews
    <3>4. CASE infra.differs \notin Renews
      BY <3>1, <3>4 DEF Newer, Restores, Renews
    <3> QED
      BY <3>2, <3>3, <3>4 DEF Renews
  <2>2. infra.differs \in Renews <=> infra.differs \in Restores \cup {"minor"}
    BY DEF Renews
  <2>3. AddonsFit'
    BY <2>1, <2>2 DEF IInv, TypeOK, Safe, AddonsFit, UpdateBox, process, Infra, Differences, Renews, Restores
  <2>4. AppsFit'
    BY <2>1, <2>2 DEF IInv, Safe, AppsFit, Kept, UpdateBox, process, Renews, Restores
  <2>5. ProcessFits'
    BY DEF IInv, Safe, ProcessFits, UpdateBox, process, Early
  <2> QED
    BY <2>3, <2>4, <2>5 DEF Safe
<1> QED
  BY <1>1, <1>2 DEF IInv

-----------------------------------------------------------------------------
(* The start of the platform. *)

LEMMA BootKeeps ==
    ASSUME IInv, Boot
    PROVE  IInv'
<1>1. TypeOK'
  BY DEF IInv, TypeOK, Boot, disk, Steps
<1>2. Safe'
  BY DEF IInv, TypeOK, Safe, AddonsFit, AppsFit, ProcessFits, Kept, Boot, disk, Early
<1> QED
  BY <1>1, <1>2 DEF IInv

LEMMA DnsSetupKeeps ==
    ASSUME IInv, dnsSetup
    PROVE  IInv'
<1>1. TypeOK'
  BY DEF IInv, TypeOK, dnsSetup, disk, Steps
<1>2. Safe'
  BY DEF IInv, TypeOK, Safe, AddonsFit, AppsFit, ProcessFits, Kept, dnsSetup, disk, Early
<1> QED
  BY <1>1, <1>2 DEF IInv

LEMMA PlatformUpToDateKeeps ==
    ASSUME IInv, PlatformUpToDate
    PROVE  IInv'
<1>1. TypeOK'
  BY DEF IInv, TypeOK, PlatformUpToDate, disk, Steps
<1>2. Safe'
  BY DEF IInv, TypeOK, Safe, AddonsFit, AppsFit, ProcessFits, Kept, PlatformUpToDate, disk, Early, Same
<1> QED
  BY <1>1, <1>2 DEF IInv

LEMMA StopContainersKeeps ==
    ASSUME IInv, stopContainers
    PROVE  IInv'
<1>1. TypeOK'
  BY Empty DEF IInv, TypeOK, stopContainers, disk, Steps, changedAddons, Addons, Databases, Infra
<1>2. Safe'
  BY Empty DEF IInv, TypeOK, Safe, AddonsFit, AppsFit, ProcessFits, Kept, stopContainers, disk, Early, changedAddons, Renews, Restores, Same, Infra, Addons, Databases, Differences
<1> QED
  BY <1>1, <1>2 DEF IInv

LEMMA StartAddonKeeps ==
    ASSUME IInv, NEW addon \in Databases, startAddon(addon)
    PROVE  IInv'
<1>1. TypeOK'
  BY DEF IInv, TypeOK, startAddon
<1>2. Safe'
  BY DEF IInv, TypeOK, Safe, AddonsFit, AppsFit, ProcessFits, Kept, startAddon, Early
<1> QED
  BY <1>1, <1>2 DEF IInv

LEMMA StartMailAddonKeeps ==
    ASSUME IInv, startMailAddon
    PROVE  IInv'
<1>1. TypeOK'
  BY DEF IInv, TypeOK, startMailAddon, disk, Steps, NoFlow, Flow, Values
<1>2. Safe'
  BY DEF IInv, TypeOK, Safe, AddonsFit, AppsFit, ProcessFits, Kept, startMailAddon, disk, Early, Addons, Databases, IsNext
<1> QED
  BY <1>1, <1>2 DEF IInv

LEMMA StartAppsKeeps ==
    ASSUME IInv, startApps
    PROVE  IInv'
<1>1. TypeOK'
  BY DEF IInv, TypeOK, startApps, disk, Steps
<1>2. Safe'
  BY DEF IInv, TypeOK, Safe, AddonsFit, AppsFit, ProcessFits, Kept, startApps, disk, Early
<1> QED
  BY <1>1, <1>2 DEF IInv

LEMMA SetInstallationCommandKeeps ==
    ASSUME IInv, NEW a \in Apps, setInstallationCommand(a)
    PROVE  IInv'
<1>1. TypeOK'
  BY DEF IInv, TypeOK, setInstallationCommand, Marked, PendingStates
<1>2. Safe'
  BY DEF IInv, TypeOK, Safe, AddonsFit, AppsFit, ProcessFits, Kept, setInstallationCommand, Marked, Restorable, Configurable, PendingStates, Early
<1> QED
  BY <1>1, <1>2 DEF IInv

LEMMA WriteInfraKeeps ==
    ASSUME IInv, writeInfra
    PROVE  IInv'
<1>1. TypeOK'
  BY DEF IInv, TypeOK, writeInfra, disk, Steps, Infra, Differences
<1>2. Safe'
  BY DEF IInv, TypeOK, Safe, AddonsFit, AppsFit, ProcessFits, Kept, writeInfra, disk, Early, Same, Renews, Restores
<1> QED
  BY <1>1, <1>2 DEF IInv

LEMMA InfraWrittenKeeps ==
    ASSUME IInv, infraWritten
    PROVE  IInv'
<1>1. TypeOK'
  BY DEF IInv, TypeOK, infraWritten, disk, Steps, Same, Infra, Differences
<1>2. Safe'
  BY DEF IInv, TypeOK, Safe, AddonsFit, AppsFit, ProcessFits, Kept, infraWritten, disk, Early, Same, Renews, Restores
<1> QED
  BY <1>1, <1>2 DEF IInv

LEMMA CronInitializeKeeps ==
    ASSUME IInv, cronInitialize
    PROVE  IInv'
<1>1. TypeOK'
  BY DEF IInv, TypeOK, cronInitialize, disk, Steps
<1>2. Safe'
  BY DEF IInv, TypeOK, Safe, AddonsFit, AppsFit, ProcessFits, Kept, cronInitialize, disk, Early
<1> QED
  BY <1>1, <1>2 DEF IInv

LEMMA JobsCreatedKeeps ==
    ASSUME IInv, jobsCreated
    PROVE  IInv'
<1>1. TypeOK'
  <2>1. stored["time_zone"] \in Values /\ stored["pattern"] \in Values /\ stored["dynamic_dns"] \in Values
    BY DEF IInv, TypeOK, Keys
  <2>2. Counting(jobs')
    <3>1. Counting(jobs)
      BY DEF IInv, TypeOK, Counting
    <3> QED
      BY <2>1, <3>1, Recreated, PatternChanged, DynamicChanged DEF IInv, jobsCreated
  <2> QED
    BY <2>2 DEF IInv, TypeOK, Counting, jobsCreated, disk, Steps
<1>2. Safe'
  BY DEF IInv, TypeOK, Safe, AddonsFit, AppsFit, ProcessFits, Kept, jobsCreated, disk, Early
<1> QED
  BY <1>1, <1>2 DEF IInv

-----------------------------------------------------------------------------
(* A start that fails. *)

LEMMA StartFailedTypes ==
    ASSUME TypeOK, StartFailed
    PROVE  /\ at' \in Steps /\ up' \in BOOLEAN /\ todo' \subseteq Addons /\ marking' \subseteq Apps
           /\ stopping' \in BOOLEAN /\ timer' \in BOOLEAN /\ ready' \in BOOLEAN
           /\ task' \in [Apps -> {"none", "begun", "removed"}]
           /\ mailStart' \in [Slots \cup {"start"} -> Flow]
           /\ calls' \subseteq Keys \X Values
           /\ jobs' \in Jobs /\ (jobs'.handle => jobs'.refreshing > 0)
<1>1. CASE ~up /\ ProcessGone
  BY <1>1, ProcessGoneTypes
<1>2. CASE up /\ ~ProcessGone
  BY <1>2, Empty DEF TypeOK, StartFailed, FailedAt, Steps
<1>3. CASE up /\ ProcessGone
  BY <1>3, ProcessGoneTypes
<1> QED
  BY <1>1, <1>2, <1>3 DEF StartFailed

LEMMA StartFailedSafe ==
    ASSUME IInv, StartFailed, UNCHANGED disk
    PROVE  Safe'
<1>1. CASE ~up /\ ProcessGone
  BY <1>1, ProcessGoneSafe DEF disk
<1>2. CASE up
  <2>1. /\ at' \in {"deaf", "failed", "jobless"} /\ mailStart' = [mailStart EXCEPT !["start"] = NoFlow]
        /\ UNCHANGED <<todo, marking, timer, ready, task>>
    BY <1>2 DEF StartFailed, FailedAt
  <2> QED
    BY <2>1, Empty DEF IInv, TypeOK, Safe, AddonsFit, AppsFit, ProcessFits, Kept, disk, Early, NoFlow
<1> QED
  BY <1>1, <1>2 DEF StartFailed

LEMMA StartFailsKeeps ==
    ASSUME IInv, StartFails
    PROVE  IInv'
<1>1. TypeOK'
  BY StartFailedTypes, Counted DEF IInv, TypeOK, StartFails, disk
<1>2. Safe'
  BY StartFailedSafe DEF StartFails
<1> QED
  BY <1>1, <1>2 DEF IInv

-----------------------------------------------------------------------------
(* The starts of the mail server. *)

LEMMA RemoveMailKeeps ==
    ASSUME IInv, NEW s \in Slots \cup {"start"}, removeMail(s)
    PROVE  IInv'
<1>1. TypeOK'
  <2> DEFINE new == [mailStart[s] EXCEPT !.step = "settings", !.enabled = stored["mail"]]
  <2>1. stored["mail"] \in Values /\ mailStart[s] \in Flow
    BY DEF IInv, TypeOK, Keys
  <2>2. new \in Flow
    BY <2>1 DEF Flow
  <2>3. mailStart' = [mailStart EXCEPT ![s] = new]
    BY DEF removeMail, MailGoes
  <2> HIDE DEF new
  <2> QED
    BY <2>2, <2>3 DEF IInv, TypeOK, removeMail, mailFrame, Mail
<1>2. Safe'
  BY Elsewhere DEF IInv, TypeOK, removeMail, MailAt, MailGoes, mailFrame
<1> QED
  BY <1>1, <1>2 DEF IInv

LEMMA CreateMailConfigKeeps ==
    ASSUME IInv, NEW s \in Slots \cup {"start"}, createMailConfig(s)
    PROVE  IInv'
<1>1. TypeOK'
  <2> DEFINE new == [mailStart[s] EXCEPT !.step = "write", !.relay = stored["relay"]]
  <2>1. stored["relay"] \in Values /\ mailStart[s] \in Flow
    BY DEF IInv, TypeOK, Keys
  <2>2. new \in Flow
    BY <2>1 DEF Flow
  <2>3. mailStart' = [mailStart EXCEPT ![s] = new]
    BY DEF createMailConfig, MailGoes
  <2> HIDE DEF new
  <2> QED
    BY <2>2, <2>3 DEF IInv, TypeOK, createMailConfig, mailFrame, disk
<1>2. Safe'
  BY Elsewhere DEF IInv, TypeOK, createMailConfig, MailAt, MailGoes, mailFrame, disk
<1> QED
  BY <1>1, <1>2 DEF IInv

LEMMA WriteMailConfigKeeps ==
    ASSUME IInv, NEW s \in Slots \cup {"start"}, writeMailConfig(s)
    PROVE  IInv'
<1>1. TypeOK'
  BY Empty DEF IInv, TypeOK, writeMailConfig, MailAt, MailGoes, mailFrame, Flow
<1>2. Safe'
  BY Elsewhere, Empty DEF IInv, TypeOK, writeMailConfig, MailAt, MailGoes, mailFrame, NoFlow
<1> QED
  BY <1>1, <1>2 DEF IInv

LEMMA RunMailKeeps ==
    ASSUME IInv, NEW s \in Slots \cup {"start"}, runMail(s)
    PROVE  IInv'
<1>1. TypeOK'
  BY Empty DEF IInv, TypeOK, runMail, MailAt, MailGoes, mailFrame, MailDone, Flow, Mail, Steps
<1>2. Safe'
  BY Empty DEF IInv, TypeOK, Safe, AddonsFit, AppsFit, ProcessFits, Kept, runMail, MailAt, MailGoes, mailFrame, MailDone, Early, NoFlow
<1> QED
  BY <1>1, <1>2 DEF IInv

LEMMA RunMailRefusedKeeps ==
    ASSUME IInv, NEW s \in Slots \cup {"start"}, runMailRefused(s)
    PROVE  IInv'
<1>1. TypeOK'
  BY ProcessGoneTypes DEF IInv, TypeOK, runMailRefused, MailAt, MailGoes, mailFrame, Flow
<1>2. Safe'
  BY ProcessGoneSafe DEF runMailRefused, mailFrame
<1> QED
  BY <1>1, <1>2 DEF IInv

LEMMA MailRecordsKeeps ==
    ASSUME IInv, NEW s \in Slots \cup {"start"}, mailRecords(s)
    PROVE  IInv'
<1>1. TypeOK'
  BY Empty DEF IInv, TypeOK, mailRecords, MailAt, MailGoes, mailFrame, MailDone, disk, Steps
<1>2. Safe'
  BY Empty DEF IInv, TypeOK, Safe, AddonsFit, AppsFit, ProcessFits, Kept, mailRecords, MailAt, MailGoes, mailFrame, MailDone, disk, Early, NoFlow
<1> QED
  BY <1>1, <1>2 DEF IInv

LEMMA MailFailsKeeps ==
    ASSUME IInv, NEW s \in Slots \cup {"start"}, MailFails(s)
    PROVE  IInv'
<1>1. CASE s = "start"
  <2>1. TypeOK'
    BY <1>1, StartFailedTypes, Counted DEF IInv, TypeOK, MailFails, disk
  <2>2. Safe'
    BY <1>1, StartFailedSafe DEF MailFails
  <2> QED
    BY <2>1, <2>2 DEF IInv
<1>2. CASE s # "start"
  <2>1. TypeOK'
    BY <1>2, Empty, Counted DEF IInv, TypeOK, MailFails, MailGoes, disk
  <2>2. Safe'
    BY <1>2, Elsewhere DEF IInv, TypeOK, MailFails, MailGoes, disk
  <2> QED
    BY <2>1, <2>2 DEF IInv
<1> QED
  BY <1>1, <1>2

-----------------------------------------------------------------------------
(* Settings. *)

LEMMA SetKeeps ==
    ASSUME IInv, NEW k \in Keys, NEW v \in Values, set(k, v)
    PROVE  IInv'
<1>1. TypeOK'
  BY Counted DEF IInv, TypeOK, set
<1>2. Safe'
  BY Elsewhere DEF IInv, TypeOK, set
<1> QED
  BY <1>1, <1>2 DEF IInv

LEMMA SetSettingKeeps ==
    ASSUME IInv, NEW v \in Values, SetSetting(v)
    PROVE  IInv'
<1>1. PICK k \in Keys : set(k, v)
  BY DEF SetSetting, setMailConfig, setMailRelay, setCatchAllAddress, setTimeZone,
         setAutoupdatePattern, setDynamicDnsConfig, Keys
<1> QED
  BY <1>1, SetKeeps

(* A start of the mail server that an event begins. *)
LEMMA RestartsKeeps ==
    ASSUME IInv, NEW s, NEW first \in {"certificate", "settings"}, NEW runs \in BOOLEAN,
           Restarts(s, first, runs)
    PROVE  /\ mailStart' \in [Slots \cup {"start"} -> Flow]
           /\ mailStart'["start"] = mailStart["start"]
<1>1. s \in Slots /\ s # "start" /\ mailStart' = [mailStart EXCEPT ![s] = [NoFlow EXCEPT !.step = first, !.runs = runs]]
  BY Empty DEF Restarts, MailGoes
<1>2. [NoFlow EXCEPT !.step = first, !.runs = runs] \in Flow
  BY DEF NoFlow, Flow, Values
<1> QED
  BY <1>1, <1>2 DEF IInv, TypeOK

LEMMA EmitMailKeeps ==
    ASSUME IInv, NEW k \in Keys, NEW v \in Values, emitMail(k, v)
    PROVE  IInv'
<1>1. /\ mailStart' \in [Slots \cup {"start"} -> Flow]
      /\ mailStart'["start"] = mailStart["start"]
  <2>1. PICK s \in Slots : \/ Restarts(s, "settings", FALSE)
                          \/ Restarts(s, "certificate", TRUE)
                          \/ UNCHANGED mailStart
    BY DEF emitMail
  <2> QED
    BY <2>1, RestartsKeeps DEF IInv, TypeOK
<1>2. TypeOK'
  BY <1>1 DEF IInv, TypeOK, emitMail, Answered, disk
<1>3. Safe'
  BY <1>1, Elsewhere DEF emitMail, disk
<1> QED
  BY <1>2, <1>3 DEF IInv

LEMMA CertChangedKeeps ==
    ASSUME IInv, certChanged
    PROVE  IInv'
<1>1. /\ mailStart' \in [Slots \cup {"start"} -> Flow]
      /\ mailStart'["start"] = mailStart["start"]
  BY RestartsKeeps DEF certChanged
<1>2. TypeOK'
  BY <1>1, Counted DEF IInv, TypeOK, certChanged, disk
<1>3. Safe'
  BY <1>1, Elsewhere DEF certChanged, disk
<1> QED
  BY <1>2, <1>3 DEF IInv

LEMMA EmitJobsKeeps ==
    ASSUME IInv, NEW k \in Keys, NEW v \in Values, emitJobs(k, v)
    PROVE  IInv'
<1>1. Counting(jobs')
  <2>1. Counting(jobs)
    BY DEF IInv, TypeOK, Counting
  <2>2. jobs' \in {jobs, recreateJobs(v), autoupdatePatternChanged(jobs, v), dynamicDNSChanged(jobs, v)}
    BY DEF emitJobs
  <2> QED
    BY <2>1, <2>2, Recreated, PatternChanged, DynamicChanged DEF IInv
<1>2. TypeOK'
  BY <1>1 DEF IInv, TypeOK, Counting, emitJobs, Answered, disk
<1>3. Safe'
  BY Elsewhere DEF emitJobs, disk
<1> QED
  BY <1>2, <1>3 DEF IInv

LEMMA EmitTooEarlyKeeps ==
    ASSUME IInv, NEW k \in Keys, NEW v \in Values, emitTooEarly(k, v)
    PROVE  IInv'
<1>1. TypeOK'
  BY ProcessGoneTypes DEF IInv, TypeOK, emitTooEarly, disk
<1>2. Safe'
  BY ProcessGoneSafe DEF emitTooEarly, disk
<1> QED
  BY <1>1, <1>2 DEF IInv

-----------------------------------------------------------------------------
(* Apps and their tasks. *)

LEMMA CommandKeeps ==
    ASSUME IInv, NEW a \in Apps, NEW command \in PendingStates, Command(a, command)
    PROVE  IInv'
<1>1. TypeOK'
  BY Counted DEF IInv, TypeOK, Command
<1>2. Safe'
  BY DEF IInv, TypeOK, Safe, AddonsFit, AppsFit, ProcessFits, Kept, Command, Accepted, PendingStates, Restorable, Configurable, Early
<1> QED
  BY <1>1, <1>2 DEF IInv

LEMMA ResumeTasksKeeps ==
    ASSUME IInv, resumeTasks
    PROVE  IInv'
<1>1. TypeOK'
  BY DEF IInv, TypeOK, resumeTasks, disk
<1>2. Safe'
  BY DEF IInv, TypeOK, Safe, AddonsFit, AppsFit, ProcessFits, Kept, resumeTasks, disk, Early
<1> QED
  BY <1>1, <1>2 DEF IInv

LEMMA StartTaskKeeps ==
    ASSUME IInv, NEW a \in Apps, StartTask(a)
    PROVE  IInv'
<1>1. TypeOK'
  BY DEF IInv, TypeOK, StartTask, taskFrame, PendingStates
<1>2. Safe'
  BY DEF IInv, TypeOK, Safe, AddonsFit, AppsFit, ProcessFits, Kept, StartTask, taskFrame, PendingStates, Early, Renews
<1> QED
  BY <1>1, <1>2 DEF IInv

LEMMA DeleteContainersKeeps ==
    ASSUME IInv, NEW a \in Apps, deleteContainers(a)
    PROVE  IInv'
<1>1. TypeOK'
  BY DEF IInv, TypeOK, deleteContainers, taskFrame, PendingStates
<1>2. Safe'
  BY DEF IInv, TypeOK, Safe, AddonsFit, AppsFit, ProcessFits, Kept, deleteContainers, taskFrame, PendingStates, Early, Renews
<1> QED
  BY <1>1, <1>2 DEF IInv

LEMMA EndTaskKeeps ==
    ASSUME IInv, NEW a \in Apps, EndTask(a)
    PROVE  IInv'
<1>1. TypeOK'
  BY DEF IInv, TypeOK, EndTask, taskFrame, PendingStates
<1>2. Safe'
  BY DEF IInv, TypeOK, Safe, AddonsFit, AppsFit, ProcessFits, Kept, EndTask, taskFrame, PendingStates, Early, Renews
<1> QED
  BY <1>1, <1>2 DEF IInv

LEMMA FailTaskKeeps ==
    ASSUME IInv, NEW a \in Apps, FailTask(a)
    PROVE  IInv'
<1>1. TypeOK'
  BY Counted DEF IInv, TypeOK, FailTask, taskFrame, PendingStates
<1>2. Safe'
  BY DEF IInv, TypeOK, Safe, AddonsFit, AppsFit, ProcessFits, Kept, FailTask, taskFrame, PendingStates, Early, Renews
<1> QED
  BY <1>1, <1>2 DEF IInv

-----------------------------------------------------------------------------
LEMMA InitInv == Init => IInv
<1> SUFFICES ASSUME Init PROVE IInv
  OBVIOUS
<1>1. TypeOK
  <2>1. /\ domain \in BOOLEAN /\ infra \in Infra /\ running \subseteq Databases
        /\ mail \in Mail \cup {NoMail}
    <3>1. [differs |-> "none", changed |-> {}] \in Infra /\ [enabled |-> 0, relay |-> 0] \in Mail
      BY DEF Infra, Differences, Mail, Values
    <3>2. /\ infra = [differs |-> "none", changed |-> {}] \/ infra = Same
          /\ running = {} \/ running = Databases
          /\ mail = NoMail \/ mail = [enabled |-> 0, relay |-> 0]
          /\ domain \in BOOLEAN
      BY DEF Init
    <3> QED
      BY <3>1, <3>2, Empty
  <2>2. /\ row \in [Apps -> PendingStates \cup {"none", "installed", "error"}]
        /\ container \in [Apps -> BOOLEAN]
    BY DEF Init
  <2>3. relayFile \in Values /\ stored \in [Keys -> Values]
    BY DEF Init, Values
  <2>4. jobs \in Jobs /\ ~jobs.handle
    BY Empty DEF Init, NoJobs
  <2> QED
    BY <2>1, <2>2, <2>3, <2>4, Empty DEF Init, TypeOK, Steps
<1>2. Safe
  BY Empty DEF Init, Safe, AddonsFit, AppsFit, ProcessFits, Kept, Same, Renews, Restores, Addons, NoFlow, Early
<1> QED
  BY <1>1, <1>2 DEF IInv

LEMMA StutterKeeps ==
    ASSUME IInv, UNCHANGED vars
    PROVE  IInv'
<1>1. TypeOK'
  BY DEF IInv, TypeOK, vars, disk, process
<1>2. Safe'
  BY Elsewhere DEF vars, disk, process
<1> QED
  BY <1>1, <1>2 DEF IInv

LEMMA StartStepKeeps ==
    ASSUME IInv, StartStep
    PROVE  IInv'
BY BootKeeps, PlatformUpToDateKeeps, StopContainersKeeps, StartAddonKeeps, StartMailAddonKeeps,
   StartAppsKeeps, SetInstallationCommandKeeps, WriteInfraKeeps, InfraWrittenKeeps,
   CronInitializeKeeps, JobsCreatedKeeps, ResumeTasksKeeps, ExitKeeps DEF StartStep

LEMMA NextKeeps ==
    ASSUME IInv, [Next]_vars
    PROVE  IInv'
<1>1. CASE StartStep \/ dnsSetup \/ Crash \/ Stop \/ UpdateBox \/ StartFails \/ certChanged
  BY <1>1, StartStepKeeps, DnsSetupKeeps, CrashKeeps, StopKeeps, UpdateBoxKeeps, StartFailsKeeps,
     CertChangedKeeps
<1>2. CASE \E s \in Slots \cup {"start"} : startMail(s) \/ MailFails(s)
  BY <1>2, RemoveMailKeeps, CreateMailConfigKeeps, WriteMailConfigKeeps, RunMailKeeps,
     RunMailRefusedKeeps, MailRecordsKeeps, MailFailsKeeps DEF startMail
<1>3. CASE \E v \in Values : SetSetting(v)
  BY <1>3, SetSettingKeeps
<1>4. CASE \E k \in Keys, v \in Values : emitMail(k, v) \/ emitJobs(k, v) \/ emitTooEarly(k, v)
  BY <1>4, EmitMailKeeps, EmitJobsKeeps, EmitTooEarlyKeeps
<1>5. CASE \E a \in Apps : AppStep(a) \/ FailTask(a) \/ (\E command \in PendingStates : Command(a, command))
  BY <1>5, StartTaskKeeps, DeleteContainersKeeps, EndTaskKeeps, FailTaskKeeps, CommandKeeps DEF AppStep
<1>6. CASE UNCHANGED vars
  BY <1>6, StutterKeeps
<1> QED
  BY <1>1, <1>2, <1>3, <1>4, <1>5, <1>6 DEF Next

THEOREM Invariance == Spec => []IInv
<1>1. Init => IInv
  BY InitInv
<1>2. IInv /\ [Next]_vars => IInv'
  BY NextKeeps
<1> QED
  BY <1>1, <1>2, PTL DEF Spec

(***************************************************************************)
(* The state of the box, of its containers and of its apps is one the code *)
(* can make, for any apps and bounds.                                      *)
(***************************************************************************)
THEOREM TypeCorrect == Spec => []TypeOK
<1>1. IInv => TypeOK
  BY DEF IInv
<1> QED
  BY <1>1, Invariance, PTL

(***************************************************************************)
(* However often the box crashes, is stopped or is updated, and wherever:  *)
(* when the tasks of apps are started all addons run, and each app that is *)
(* said to be installed has its container or was due for a backup when the *)
(* containers were removed (platform.js: start, stopContainers, startApps).*)
(***************************************************************************)
THEOREM StartIsComplete == Spec => []ReadyIsComplete
<1>1. IInv => ReadyIsComplete
  BY DEF IInv, Safe, AddonsFit, AppsFit, ProcessFits, Kept, ReadyIsComplete, Same, Renews, Restores
<1> QED
  BY <1>1, Invariance, PTL

(***************************************************************************)
(* The safety of Certificates for any apps, domains and bounds: nginx can  *)
(* always be told to reload, and no site that is to be served is served    *)
(* with a certificate of ours that has expired.                            *)
(*                                                                         *)
(* The renewal, the webadmin and the tasks configure sites and have nginx  *)
(* reload in different turns.  So the argument is, for each site that is   *)
(* to be served: its certificate is good until time goes on twice, or the  *)
(* renewal at work is still to look at it; and what nginx serves is what   *)
(* is configured, or somebody is still to have it reloaded.                *)
(***************************************************************************)

CertSteps == {"idle", "next", "ensure", "api", "register", "wait", "sign", "reload",
              "unconfigure", "unconfigured", "hung"}
Asking == {"api", "register", "wait", "sign"}
CertRow == [site : Sites, domain : Names]
CertFlow == [step : CertSteps, site : Sites, domain : Names \cup {NoDomain},
             rows : SUBSET CertRow]
Served == [domain : Names \cup {NoDomain}, pair : {"none", "user", "auto", "host"},
           left : Expired..Month]

\* Only the webadmin has its domain.
Belongs(s, d) == s \in Sites /\ d \in Names /\ (s = Admin <=> d = Admin)

CertTypes ==
    /\ CertTypeOK
    /\ loaded \in [Sites -> Served]
    /\ renewed \in BOOLEAN /\ mishap \in BOOLEAN /\ late \in BOOLEAN

\* No two apps have a domain in common.
AppsApart ==
    /\ \A a \in Apps : app[a].state # "none" => app[a].domain \in Domains
    /\ \A a, b \in Apps : app[a].state # "none" /\ app[b].state # "none"
                            /\ app[a].domain = app[b].domain => a = b

\* What a flow is at work on.
FlowRight(f, r) ==
    /\ f = "renewal" =>
         /\ r.step \in {"idle", "next", "reload"} \cup Asking
         /\ r.step \notin {"idle", "next"} => Belongs(r.site, r.domain)
         /\ \A entry \in r.rows : Belongs(entry.site, entry.domain)
    /\ f = "webadmin" =>
         /\ r.step \in {"idle", "ensure", "reload", "hung"} \cup Asking
         /\ r.step # "idle" => r.site = Admin /\ r.domain = Admin
    /\ f = "request" => r.step \in {"idle", "reload"}
    /\ f \in Apps =>
         /\ r.step # "next"
         /\ r.step # "idle" => Pending(f) /\ r.site = f /\ r.domain = app[f].domain
    /\ r.step = "sign" => r.domain \in Names /\ key[r.domain] = 1

FlowsRight ==
    /\ flow \in [Flows -> CertFlow]
    /\ \A f \in Flows : FlowRight(f, flow[f])

\* There is one key of a domain at most, and a certificate is for it.
KeysFit == \A d \in Names : key[d] \in 0..1 /\ cert[d].key \in {0, key[d]}

AdminAtHome ==
    /\ conf[Admin].domain \in {Admin, NoDomain}
    /\ loaded[Admin].domain \in {Admin, NoDomain}
    /\ loaded[Admin].pair # "none" => loaded[Admin].domain = Admin

\* What is configured can be loaded, as long as nothing happened to the files.
FilesFit ==
    mishap \/ /\ \A d \in Names : user[d] \in {"none", "pair"}
              /\ host = [kept |-> "pair", used |-> "pair"]
              /\ \A s \in Sites : Loads(conf[s])

\* A site has a certificate of ours at its domain.
ConfOwn(s) == conf[s].pair = "auto" /\ conf[s].domain = Own(s)

\* The renewal is still to look at it.
ToLookAt(s) ==
    LET r == flow["renewal"]
    IN  \/ r.step = "idle"
        \/ [site |-> s, domain |-> Own(s)] \in r.rows
        \/ r.step \in Asking /\ r.site = s /\ r.domain = Own(s)

\* A certificate that is configured is good until time goes on twice, or will be
\* looked at before time goes on.
Good(s) ==
    ConfOwn(s) /\ ~UserPairExists(Own(s)) =>
        \/ cert[Own(s)].left >= 2
        \/ (cert[Own(s)].left >= 1 /\ ~renewed /\ ToLookAt(s))

\* nginx will be told of what it does not serve yet.
ToReload ==
    \/ flow["renewal"].step = "reload" \/ flow["request"].step = "reload"
    \/ flow["webadmin"].step \notin {"idle", "hung"}

InSync(s) ==
    \/ ToReload
    \/ /\ loaded[s].domain = conf[s].domain
       /\ loaded[s].pair = conf[s].pair
       /\ ConfOwn(s) => loaded[s].left = cert[Own(s)].left

ServedWell(s) ==
    loaded[s].pair = "auto" /\ loaded[s].domain = Own(s) /\ ~UserPairExists(Own(s))
        => loaded[s].left # Expired

\* An app will be installed with a certificate that is good.
InstallsGood ==
    \A a \in Apps : flow[a].step = "reload" /\ ConfOwn(a) => cert[Own(a)].left >= 2

Shape == CertTypes /\ AppsApart /\ FlowsRight /\ KeysFit /\ AdminAtHome

SiteFits(s) == Current(s) => Good(s) /\ InSync(s) /\ ServedWell(s)

Serving == mishap \/ late \/ ((\A s \in Sites : SiteFits(s)) /\ InstallsGood)

CertInv == Shape /\ FilesFit /\ Serving

-----------------------------------------------------------------------------
LEMMA CertNames ==
    /\ Sites = Apps \cup {Admin} /\ Names = Domains \cup {Admin}
    /\ Admin \notin Apps /\ Admin \notin Domains /\ NoDomain \notin Names
    /\ "renewal" \in Flows /\ "webadmin" \in Flows /\ "request" \in Flows /\ Apps \subseteq Flows
    /\ "renewal" \notin Apps /\ "webadmin" \notin Apps /\ "request" \notin Apps
    /\ Flows = Apps \cup {"renewal", "webadmin", "request"}
BY CertificatesAssumption DEF CertificatesAssumption, Sites, Names, Flows

LEMMA IdleTyped == Idle \in CertFlow /\ Idle.step = "idle" /\ Idle.rows = {}
BY CertNames DEF CertFlow, CertSteps, Idle

(* A flow is put. *)
LEMMA FlowsPut ==
    ASSUME FlowsRight, NEW f \in Flows, NEW r \in CertFlow, Put(f, r), FlowRight(f, r)',
           \A a \in Apps : a # f => app'[a] = app[a],
           \A d \in Names : key[d] = 1 => key'[d] = 1
    PROVE  FlowsRight' /\ \A g \in Flows : flow'[g] = IF g = f THEN r ELSE flow[g]
<1>1. flow' \in [Flows -> CertFlow] /\ \A g \in Flows : flow'[g] = IF g = f THEN r ELSE flow[g]
  BY DEF FlowsRight, Put
<1>2. ASSUME NEW g \in Flows
      PROVE  FlowRight(g, flow[g])'
  <2>1. CASE g = f
    BY <1>1, <2>1 DEF FlowRight, Belongs, Pending
  <2>2. CASE g # f
    BY <1>1, <2>2 DEF FlowsRight, FlowRight, Belongs, Pending
  <2> QED BY <2>1, <2>2
<1> QED BY <1>1, <1>2 DEF FlowsRight

(* A flow that asks for a certificate is right when it has gone on. *)
LEMMA RightAfter ==
    ASSUME NEW f \in Flows, NEW q \in CertFlow, FlowRight(f, q), NEW r,
           r.site = q.site, r.domain = q.domain, r.rows = q.rows,
           q.step \in Asking \cup {"ensure"}, q.step = "ensure" => f # "renewal",
           r.step \in Asking \cup {"reload"}, UNCHANGED app,
           r.step = "sign" => r.domain \in Names /\ key'[r.domain] = 1
    PROVE  FlowRight(f, r)'
<1>1. f # "request" /\ q.step \notin {"idle", "next"} /\ r.step \notin {"idle", "next", "ensure"}
  BY DEF FlowRight, Asking
<1>2. CASE f = "renewal"
  BY <1>1, <1>2, CertNames DEF FlowRight, Belongs
<1>3. CASE f = "webadmin"
  BY <1>1, <1>3, CertNames DEF FlowRight
<1>4. CASE f \in Apps
  BY <1>1, <1>4, CertNames DEF FlowRight, Pending
<1> QED BY <1>1, <1>2, <1>3, <1>4, CertNames

(* What a flow is that asks for a certificate or has one configured. *)
LEMMA FlowKnows ==
    ASSUME Shape, NEW f \in Flows
    PROVE  /\ flow[f] \in CertFlow /\ FlowRight(f, flow[f])
           /\ flow[f].step \in Asking \cup {"ensure"} => f # "request"
           /\ flow[f].step = "ensure" => f # "renewal"
           /\ flow[f].step \in Asking \cup {"ensure", "reload"} /\ f # "request" =>
                /\ Belongs(flow[f].site, flow[f].domain)
                /\ flow[f].site \in Sites /\ flow[f].domain \in Names
                /\ f \in Apps => /\ Pending(f) /\ flow[f].site = f /\ f # Admin
                                 /\ flow[f].domain = app[f].domain /\ app[f].domain \in Domains
                /\ f = "webadmin" => flow[f].site = Admin /\ flow[f].domain = Admin
<1>1. flow[f] \in CertFlow /\ FlowRight(f, flow[f])
  BY DEF Shape, FlowsRight
<1>2. f \in Apps /\ Pending(f) => app[f].domain \in Domains
  BY DEF Shape, AppsApart, Pending
<1> QED BY <1>1, <1>2, CertNames DEF FlowRight, Belongs, Asking

-----------------------------------------------------------------------------
(* What is served stays well when neither the files nor the sites change.   *)
LEMMA ServingStays ==
    ASSUME Serving, UNCHANGED <<user, cert, app, conf, loaded, renewed>>, mishap => mishap', late => late',
           \A s \in Sites : ToLookAt(s) => ToLookAt(s)', ToReload => ToReload',
           \A a \in Apps : flow'[a].step = "reload" => flow[a].step = "reload"
    PROVE  Serving'
<1> SUFFICES ASSUME ~mishap', ~late'
             PROVE  (\A s \in Sites : SiteFits(s)') /\ InstallsGood'
  BY DEF Serving
<1>1. (\A s \in Sites : SiteFits(s)) /\ InstallsGood
  BY DEF Serving
<1>2. ASSUME NEW s \in Sites
      PROVE  SiteFits(s)'
  <2>1. /\ Own(s)' = Own(s) /\ Current(s)' = Current(s) /\ ConfOwn(s)' = ConfOwn(s)
        /\ UserPairExists(Own(s))' = UserPairExists(Own(s))
    BY DEF Own, Current, ConfOwn, UserPairExists
  <2> SUFFICES ASSUME Current(s)
               PROVE  Good(s)' /\ InSync(s)' /\ ServedWell(s)'
    BY <2>1 DEF SiteFits
  <2>2. Good(s) /\ InSync(s) /\ ServedWell(s)
    BY <1>1 DEF SiteFits
  <2>3. Good(s)'
    BY <2>1, <2>2 DEF Good, ToLookAt, Own, ConfOwn, UserPairExists
  <2>4. InSync(s)'
    BY <2>1, <2>2 DEF InSync, ToReload, Own, ConfOwn
  <2>5. ServedWell(s)'
    BY <2>1, <2>2 DEF ServedWell, Own, UserPairExists
  <2> QED BY <2>3, <2>4, <2>5
<1>3. InstallsGood'
  BY <1>1 DEF InstallsGood, ConfOwn, Own
<1> QED BY <1>2, <1>3

(* An app changes that is not to be served afterwards. *)
LEMMA ServingApart ==
    ASSUME Shape, Serving, NEW a \in Apps, app'[a].state # "installed",
           \A b \in Apps : b # a => app'[b] = app[b],
           \A s \in Sites : s # a => conf'[s] = conf[s],
           mishap => mishap', late => late',
           \/ mishap' \/ late'
           \/ \A s \in Sites : s # a /\ Current(s) /\ UserPairExists(Own(s)) => UserPairExists(Own(s))',
           \A g \in Flows : g # a => flow'[g] = flow[g],
           flow'[a].step # "reload", UNCHANGED <<cert, loaded, renewed>>
    PROVE  Serving'
<1> SUFFICES ASSUME ~mishap', ~late'
             PROVE  (\A s \in Sites : SiteFits(s)') /\ InstallsGood'
  BY DEF Serving
<1>1. (\A s \in Sites : SiteFits(s)) /\ InstallsGood
  BY DEF Serving
<1>2. /\ flow'["renewal"] = flow["renewal"] /\ flow'["request"] = flow["request"]
      /\ flow'["webadmin"] = flow["webadmin"]
  BY CertNames
<1>3. ASSUME NEW s \in Sites
      PROVE  SiteFits(s)'
  <2>1. CASE s = a
    BY <2>1, CertNames DEF SiteFits, Current
  <2>2. CASE s # a
    <3>1. Own(s)' = Own(s) /\ Current(s)' = Current(s) /\ conf'[s] = conf[s]
      BY <2>2, CertNames DEF Own, Current
    <3> SUFFICES ASSUME Current(s)
                 PROVE  Good(s)' /\ InSync(s)' /\ ServedWell(s)'
      BY <3>1 DEF SiteFits
    <3>2. Good(s) /\ InSync(s) /\ ServedWell(s)
      BY <1>1 DEF SiteFits
    <3>3. UserPairExists(Own(s)) => UserPairExists(Own(s))'
      BY <2>2
    <3>4. ConfOwn(s)' = ConfOwn(s)
      BY <3>1 DEF ConfOwn
    <3>5. ToLookAt(s)' = ToLookAt(s) /\ ToReload' = ToReload
      BY <1>2, <3>1 DEF ToLookAt, ToReload
    <3>6. Good(s)'
      BY <3>1, <3>2, <3>3, <3>4, <3>5 DEF Good
    <3>7. InSync(s)'
      BY <3>1, <3>2, <3>4, <3>5 DEF InSync
    <3>8. ServedWell(s)'
      BY <3>1, <3>2, <3>3 DEF ServedWell
    <3> QED BY <3>6, <3>7, <3>8
  <2> QED BY <2>1, <2>2
<1>4. InstallsGood'
  <2> SUFFICES ASSUME NEW b \in Apps, flow'[b].step = "reload", ConfOwn(b)'
               PROVE  cert'[Own(b)'].left >= 2
    BY DEF InstallsGood
  <2>1. b # a /\ b \in Flows /\ b \in Sites
    BY CertNames
  <2>2. flow'[b] = flow[b] /\ app'[b] = app[b] /\ conf'[b] = conf[b]
    BY <2>1
  <2>3. Own(b)' = Own(b) /\ (ConfOwn(b)' = ConfOwn(b))
    BY <2>2 DEF Own, ConfOwn
  <2> QED BY <1>1, <2>2, <2>3 DEF InstallsGood
<1> QED BY <1>3, <1>4

(* A flow writes the configuration of a site, and is to have it reloaded.   *)
LEMMA ServingWritten ==
    ASSUME Shape, Serving, NEW f \in Flows, NEW s0 \in Sites, NEW d \in Names, NEW p,
           conf' = [conf EXCEPT ![s0] = [domain |-> d, pair |-> p]],
           p = "auto" => cert'[d].left >= 2,
           \A e \in Names : cert'[e] = cert[e] \/ (e = d /\ cert'[e].left = Month),
           UNCHANGED <<loaded, app, renewed, mishap, late>>,
           \A e \in Names : UserPairExists(e) => UserPairExists(e)',
           Step(f, "reload"),
           f = "renewal" => s0 = flow[f].site /\ d = flow[f].domain /\ flow[f].step \in Asking,
           f \in Apps => s0 = f /\ Pending(f) /\ d = app[f].domain
    PROVE  Serving'
<1> SUFFICES ASSUME ~mishap', ~late'
             PROVE  (\A s \in Sites : SiteFits(s)') /\ InstallsGood'
  BY DEF Serving
<1>1. (\A s \in Sites : SiteFits(s)) /\ InstallsGood
  BY DEF Serving
<1>2. /\ conf \in [Sites -> Confs] /\ cert \in [Names -> [key : 0..2, left : Expired..Month]]
      /\ flow \in [Flows -> CertFlow]
  BY DEF Shape, CertTypes, CertTypeOK, FlowsRight
<1>3. /\ conf'[s0] = [domain |-> d, pair |-> p]
      /\ \A s \in Sites : s # s0 => conf'[s] = conf[s]
  BY <1>2
<1>4. /\ flow'[f] = [flow[f] EXCEPT !.step = "reload"]
      /\ \A g \in Flows : g # f => flow'[g] = flow[g]
  BY <1>2 DEF Step, Put
<1>5. /\ flow'[f].step = "reload" /\ flow'[f].rows = flow[f].rows
      /\ flow'[f].site = flow[f].site /\ flow'[f].domain = flow[f].domain
  BY <1>2, <1>4 DEF CertFlow
<1>6. \A e \in Names : cert[e].left \in 0..3 /\ cert'[e].left \in 0..3 /\ cert'[e].left >= cert[e].left
  BY <1>2 DEF Expired, Month
<1>7. \A s \in Sites : Own(s)' = Own(s) /\ Current(s)' = Current(s)
  BY DEF Own, Current
<1>8. \A s \in Sites : Current(s) => Own(s) \in Names
  BY CertNames DEF Shape, AppsApart, Own, Current
<1>9. ASSUME NEW s \in Sites, Current(s)
      PROVE  Good(s)'
  <2> SUFFICES ASSUME ConfOwn(s)', ~UserPairExists(Own(s))'
               PROVE  \/ cert'[Own(s)].left >= 2
                      \/ (cert'[Own(s)].left >= 1 /\ ~renewed /\ ToLookAt(s)')
    BY <1>7, <1>9 DEF Good
  <2>1. CASE s = s0
    BY <1>3, <1>7, <1>9, <2>1 DEF ConfOwn
  <2>2. CASE s # s0
    <3>1. ConfOwn(s) /\ ~UserPairExists(Own(s)) /\ Own(s) \in Names
      BY <1>3, <1>7, <1>8, <1>9, <2>2 DEF ConfOwn
    <3>2. Good(s)
      BY <1>1, <1>9 DEF SiteFits
    <3>3. ToLookAt(s) => ToLookAt(s)'
      <4>1. CASE f = "renewal"
        BY <1>4, <1>5, <1>7, <1>9, <2>2, <4>1 DEF ToLookAt, Asking
      <4>2. CASE f # "renewal"
        <5>1. flow'["renewal"] = flow["renewal"]
          BY <1>4, <4>2, CertNames
        <5> QED BY <1>7, <1>9, <5>1 DEF ToLookAt
      <4> QED BY <4>1, <4>2
    <3>4. \/ cert[Own(s)].left >= 2
          \/ (cert[Own(s)].left >= 1 /\ ~renewed /\ ToLookAt(s))
      BY <3>1, <3>2 DEF Good
    <3>5. /\ cert[Own(s)].left \in 0..3 /\ cert'[Own(s)].left \in 0..3
          /\ cert'[Own(s)].left >= cert[Own(s)].left
      BY <1>6, <3>1
    <3> QED BY <3>3, <3>4, <3>5
  <2> QED BY <2>1, <2>2
<1>10. ASSUME NEW s \in Sites, Current(s)
       PROVE  InSync(s)'
  <2>1. CASE f \in Apps
    <3>1. s # f /\ s0 = f
      BY <1>9, <1>10, <2>1, CertNames DEF Current, Pending
    <3>2. Own(s) # d /\ Own(s) \in Names
      BY <1>8, <1>10, <2>1, <3>1, CertNames DEF Shape, AppsApart, Own, Current, Pending
    <3>3. cert'[Own(s)] = cert[Own(s)] /\ conf'[s] = conf[s]
      BY <1>3, <3>1, <3>2
    <3>4. InSync(s)
      BY <1>1, <1>10 DEF SiteFits
    <3>5. ToReload' = ToReload
      BY <1>4, <2>1, CertNames DEF ToReload
    <3> QED BY <1>7, <3>3, <3>4, <3>5 DEF InSync, ConfOwn
  <2>2. CASE f \notin Apps
    <3>1. f \in {"renewal", "webadmin", "request"}
      BY <2>2, CertNames
    <3>2. ToReload'
      BY <1>5, <3>1 DEF ToReload
    <3> QED BY <3>2 DEF InSync
  <2> QED BY <2>1, <2>2
<1>11. ASSUME NEW s \in Sites, Current(s)
       PROVE  ServedWell(s)'
  <2>1. ServedWell(s) /\ Own(s) \in Names
    BY <1>1, <1>8, <1>11 DEF SiteFits
  <2> QED BY <1>7, <2>1 DEF ServedWell
<1>12. InstallsGood'
  <2> SUFFICES ASSUME NEW a \in Apps, flow'[a].step = "reload", ConfOwn(a)'
               PROVE  cert'[Own(a)].left >= 2
    BY <1>7, CertNames DEF InstallsGood
  <2>1. a \in Sites /\ a \in Flows
    BY CertNames
  <2>2. CASE a = s0
    BY <1>3, <1>7, <2>1, <2>2 DEF ConfOwn
  <2>3. CASE a # s0
    <3>1. flow[a].step = "reload" /\ ConfOwn(a)
      BY <1>3, <1>4, <1>7, <2>1, <2>3 DEF ConfOwn
    <3>2. FlowRight(a, flow[a])
      BY <2>1 DEF Shape, FlowsRight
    <3>3. Own(a) \in Names
      BY <3>1, <3>2, CertNames DEF FlowRight, Pending, Shape, AppsApart, Own
    <3>4. cert[Own(a)].left >= 2
      BY <1>1, <3>1 DEF InstallsGood
    <3>5. /\ cert[Own(a)].left \in 0..3 /\ cert'[Own(a)].left \in 0..3
          /\ cert'[Own(a)].left >= cert[Own(a)].left
      BY <1>6, <3>3
    <3> QED BY <3>4, <3>5
  <2> QED BY <2>2, <2>3
<1> QED BY <1>7, <1>9, <1>10, <1>11, <1>12 DEF SiteFits

-----------------------------------------------------------------------------
(* The files. *)

\* A configuration as one can be written.
ConfOf(d, p) == [domain |-> d, pair |-> p]

LEMMA ConfTyped ==
    ASSUME CertTypes, NEW s \in Sites
    PROVE  /\ conf[s] \in Confs
           /\ conf[s].pair \in {"none", "user", "auto", "host"}
           /\ conf[s].pair # "none" => conf[s].domain \in Names
           /\ conf[s].domain \in Names \cup {NoDomain}
BY DEF CertTypes, CertTypeOK, Confs, NoConf

LEMMA ConfWritten ==
    ASSUME Shape, NEW s \in Sites, NEW d \in Names, NEW p \in {"user", "auto", "host"}, Belongs(s, d),
           Configure(s, d, p)
    PROVE  /\ conf' \in [Sites -> Confs]
           /\ conf'[s] = ConfOf(d, p) /\ ConfOf(d, p).domain = d /\ ConfOf(d, p).pair = p
           /\ \A t \in Sites : t # s => conf'[t] = conf[t]
           /\ conf'[Admin].domain \in {Admin, NoDomain}
<1>1. conf \in [Sites -> Confs]
  BY DEF Shape, CertTypes, CertTypeOK
<1>2. ConfOf(d, p) \in Confs /\ ConfOf(d, p).domain = d /\ ConfOf(d, p).pair = p
  BY DEF Confs, ConfOf
<1>3. conf' = [conf EXCEPT ![s] = ConfOf(d, p)]
  BY DEF Configure, ConfOf
<1>4. /\ conf' \in [Sites -> Confs] /\ conf'[s] = ConfOf(d, p)
      /\ \A t \in Sites : t # s => conf'[t] = conf[t]
  BY <1>1, <1>2, <1>3
<1>5. conf'[Admin].domain \in {Admin, NoDomain}
  BY <1>2, <1>4, CertNames DEF Belongs, Shape, AdminAtHome
<1> QED BY <1>2, <1>4, <1>5

(* The files of ours that nginx loads are there, whoever makes keys. *)
LEMMA FilesKept ==
    ASSUME Shape, FilesFit, UNCHANGED <<user, host, cert, conf>>, mishap => mishap',
           \A d \in Names : key[d] = 1 => key'[d] = 1
    PROVE  FilesFit'
<1> SUFFICES ASSUME ~mishap', NEW s \in Sites PROVE Loads(conf[s])'
  BY DEF FilesFit
<1>1. Loads(conf[s])
  BY DEF FilesFit
<1>2. /\ conf[s].pair \in {"none", "user", "auto", "host"}
      /\ conf[s].pair # "none" => conf[s].domain \in Names
  BY ConfTyped DEF Shape
<1>3. CASE conf[s].pair = "auto"
  <2>1. key[conf[s].domain] = 1 /\ cert[conf[s].domain].key = 1 /\ conf[s].domain \in Names
    BY <1>1, <1>2, <1>3 DEF Loads, Shape, KeysFit
  <2> QED BY <1>3, <2>1 DEF Loads
<1>4. CASE conf[s].pair # "auto"
  BY <1>1, <1>2, <1>4 DEF Loads
<1> QED BY <1>3, <1>4

(* What is written can be loaded, and what was can still be. *)
LEMMA FilesWritten ==
    ASSUME Shape, FilesFit, UNCHANGED <<user, host, key, mishap, late>>,
           NEW s0 \in Sites, NEW d, NEW p, conf'[s0] = ConfOf(d, p), ~mishap => Loads(ConfOf(d, p))',
           \A s \in Sites : s # s0 => conf'[s] = conf[s],
           \A e \in Names : cert'[e] = cert[e] \/ cert'[e].key = key[e]
    PROVE  FilesFit'
<1> SUFFICES ASSUME ~mishap, NEW s \in Sites PROVE Loads(conf[s])'
  BY DEF FilesFit
<1>1. Loads(conf[s])
  BY DEF FilesFit
<1>2. CASE s = s0
  BY <1>2 DEF Loads
<1>3. CASE s # s0
  <2>1. /\ conf[s].pair \in {"none", "user", "auto", "host"} /\ conf'[s] = conf[s]
        /\ conf[s].pair # "none" => conf[s].domain \in Names
    BY <1>3, ConfTyped DEF Shape
  <2> QED BY <1>1, <2>1 DEF Loads
<1> QED BY <1>2, <1>3

(* nginx serves what is configured once it has been told to reload. *)
LEMMA ReloadServes ==
    ASSUME Shape, FilesFit, ~mishap, Reloaded, UNCHANGED <<user, cert, conf>>, NEW s \in Sites,
           Own(s) \in Names, Good(s), Own(s)' = Own(s)
    PROVE  InSync(s)' /\ ServedWell(s)'
<1>1. reload
  BY DEF FilesFit, reload
<1>2. loaded' = [t \in Sites |-> [domain |-> conf[t].domain, pair |-> conf[t].pair, left |-> Left(conf[t])]]
  BY <1>1 DEF Reloaded
<1>3. loaded'[s] = [domain |-> conf[s].domain, pair |-> conf[s].pair, left |-> Left(conf[s])]
  BY <1>2
<1>4. loaded'[s].domain = conf[s].domain /\ loaded'[s].pair = conf[s].pair /\ loaded'[s].left = Left(conf[s])
  BY <1>3
<1>5. InSync(s)'
  BY <1>4 DEF InSync, ConfOwn, Left
<1>6. ServedWell(s)'
  <2> SUFFICES ASSUME loaded'[s].pair = "auto", loaded'[s].domain = Own(s), ~UserPairExists(Own(s))
               PROVE  loaded'[s].left # Expired
    BY DEF ServedWell, UserPairExists
  <2>1. ConfOwn(s) /\ loaded'[s].left = cert[Own(s)].left
    BY <1>4 DEF ConfOwn, Left
  <2>2. cert[Own(s)].left >= 1 /\ cert[Own(s)].left \in 0..3
    BY <2>1 DEF Good, Shape, CertTypes, CertTypeOK, Expired, Month
  <2> QED BY <2>1, <2>2 DEF Expired
<1> QED BY <1>5, <1>6

(* Reloading keeps the types. *)
LEMMA ReloadTypes ==
    ASSUME Shape, Reloaded, UNCHANGED conf
    PROVE  /\ loaded' \in [Sites -> Served]
           /\ loaded'[Admin].domain \in {Admin, NoDomain}
           /\ loaded'[Admin].pair # "none" => loaded'[Admin].domain = Admin
<1>1. CASE reload
  <2>1. loaded' = [s \in Sites |-> [domain |-> conf[s].domain, pair |-> conf[s].pair, left |-> Left(conf[s])]]
    BY <1>1 DEF Reloaded
  <2>2. ASSUME NEW s \in Sites
        PROVE  [domain |-> conf[s].domain, pair |-> conf[s].pair, left |-> Left(conf[s])] \in Served
    <3>1. conf[s].pair \in {"none", "user", "auto", "host"} /\ conf[s].domain \in Names \cup {NoDomain}
      BY ConfTyped DEF Shape
    <3>2. Left(conf[s]) \in Expired..Month
      BY ConfTyped DEF Shape, CertTypes, CertTypeOK, Left, Expired, Month
    <3> QED BY <3>1, <3>2 DEF Served
  <2>3. loaded' \in [Sites -> Served]
    BY <2>1, <2>2
  <2>4. loaded'[Admin].domain = conf[Admin].domain /\ loaded'[Admin].pair = conf[Admin].pair
    BY <2>1, CertNames
  <2>5. conf[Admin].pair # "none" => conf[Admin].domain # NoDomain
    BY CertNames, ConfTyped DEF Shape
  <2> QED BY <2>3, <2>4, <2>5 DEF Shape, AdminAtHome
<1>2. CASE ~reload
  BY <1>2 DEF Reloaded, Shape, CertTypes, AdminAtHome
<1> QED BY <1>1, <1>2

-----------------------------------------------------------------------------
(* Each action keeps the invariant. *)

(* A flow goes on, and nothing else changes but a key that is made. *)
LEMMA GoesKeeps ==
    ASSUME CertInv, NEW f \in Flows, NEW r \in CertFlow, Put(f, r), FlowRight(f, r)',
           r.step # "reload", f = "request" => flow[f].step = "idle",
           \A s \in Sites : ToLookAt(s) => ToLookAt(s)',
           f = "webadmin" /\ r.step \in {"idle", "hung"} => flow[f].step \in {"idle", "hung"},
           f = "renewal" => flow[f].step # "reload",
           UNCHANGED <<provider, user, host, cert, app, conf, loaded, renewed, mishap, late>>,
           key' \in [Names -> 0..1], \A d \in Names : key[d] = 1 => key'[d] = 1
    PROVE  CertInv'
<1>0. Shape /\ FilesFit /\ Serving
  BY DEF CertInv
<1>1. FlowsRight' /\ \A g \in Flows : flow'[g] = IF g = f THEN r ELSE flow[g]
  BY <1>0, FlowsPut DEF Shape
<1>2. CertTypes' /\ AppsApart' /\ AdminAtHome'
  BY <1>0 DEF Shape, CertTypes, CertTypeOK, AppsApart, AdminAtHome
<1>3. KeysFit'
  BY <1>0 DEF Shape, KeysFit
<1>4. FilesFit'
  BY <1>0, FilesKept
<1>5. Serving'
  <2>1. ToReload => ToReload'
    BY <1>1, CertNames DEF ToReload
  <2>2. \A a \in Apps : flow'[a].step = "reload" => flow[a].step = "reload"
    BY <1>1, CertNames
  <2> QED BY <1>0, <2>1, <2>2, ServingStays
<1> QED BY <1>1, <1>2, <1>3, <1>4, <1>5 DEF CertInv, Shape

(* The renewal is still to look at what it asks for. *)
LEMMA AsksLooking ==
    ASSUME Shape, NEW f \in Flows, NEW r \in CertFlow, Put(f, r), UNCHANGED app,
           r.step \in Asking, r.site = flow[f].site, r.domain = flow[f].domain,
           r.rows = flow[f].rows, f = "renewal" => flow[f].step \in Asking
    PROVE  \A s \in Sites : ToLookAt(s) => ToLookAt(s)'
<1>1. flow' \in [Flows -> CertFlow] /\ \A g \in Flows : flow'[g] = IF g = f THEN r ELSE flow[g]
  BY DEF Put, Shape, FlowsRight
<1> TAKE s \in Sites
<1>2. Own(s)' = Own(s)
  BY DEF Own
<1>3. CASE f = "renewal"
  BY <1>1, <1>2, <1>3 DEF ToLookAt, Asking
<1>4. CASE f # "renewal"
  <2>1. flow'["renewal"] = flow["renewal"]
    BY <1>1, <1>4, CertNames
  <2> QED BY <1>2, <2>1 DEF ToLookAt
<1> QED BY <1>3, <1>4

(* A flow that asks for a certificate goes on asking. *)
LEMMA AskingKeeps ==
    ASSUME CertInv, NEW f \in Flows, NEW from \in Asking \cup {"ensure"}, NEW to \in Asking, to # "sign",
           At(f, from), Step(f, to),
           UNCHANGED <<provider, user, host, key, cert, app, conf, loaded, renewed, mishap, late>>
    PROVE  CertInv'
<1>0. Shape
  BY DEF CertInv
<1>1. PICK q \in CertFlow : q = flow[f]
  BY <1>0, FlowKnows
<1>2. FlowRight(f, q) /\ f # "request" /\ (from = "ensure" => f # "renewal") /\ q.step = from
  BY <1>0, <1>1, FlowKnows DEF At
<1>3. PICK r \in CertFlow : r = [q EXCEPT !.step = to]
  BY DEF CertFlow, CertSteps, Asking
<1>4. r.step = to /\ r.site = q.site /\ r.domain = q.domain /\ r.rows = q.rows
  BY <1>3 DEF CertFlow
<1>5. Put(f, r)
  BY <1>1, <1>3 DEF Step
<1>6. FlowRight(f, r)'
  <2>1. q.step \in Asking \cup {"ensure"} /\ (q.step = "ensure" => f # "renewal") /\ UNCHANGED app
    BY <1>2
  <2>2. r.step \in Asking \cup {"reload"} /\ r.step # "sign"
    BY <1>4
  <2> QED BY <1>2, <1>4, <2>1, <2>2, RightAfter
<1>7. \A s \in Sites : ToLookAt(s) => ToLookAt(s)'
  BY <1>0, <1>1, <1>2, <1>4, <1>5, AsksLooking
<1>8. r.step \notin {"reload", "idle", "hung"} /\ flow[f].step # "reload"
  BY <1>1, <1>2, <1>4 DEF Asking
<1>9. key' \in [Names -> 0..1] /\ \A d \in Names : key[d] = 1 => key'[d] = 1
  BY <1>0 DEF Shape, CertTypes, CertTypeOK, KeysFit
<1> QED BY <1>2, <1>5, <1>6, <1>7, <1>8, <1>9, GoesKeeps

LEMMA AsksForCertificateKeeps ==
    ASSUME CertInv, NEW f \in Flows, AsksForCertificate(f)
    PROVE  CertInv'
BY AskingKeeps DEF AsksForCertificate, Asking, files, serving

LEMMA StartsAcmeKeeps ==
    ASSUME CertInv, NEW f \in Flows, StartsAcme(f)
    PROVE  CertInv'
BY AskingKeeps DEF StartsAcme, Asking, files, serving

LEMMA RegisterKeepsCert ==
    ASSUME CertInv, NEW f \in Flows, Register(f)
    PROVE  CertInv'
BY AskingKeeps DEF Register, Goes, Asking, files, serving

LEMMA CreateKeyKeeps ==
    ASSUME CertInv, NEW f \in Flows, CreateKeyAndCsr(f)
    PROVE  CertInv'
<1>0. Shape
  BY DEF CertInv
<1>1. PICK q \in CertFlow : q = flow[f]
  BY <1>0, FlowKnows
<1>2. /\ q.step = "wait" /\ key' = [key EXCEPT ![q.domain] = KeyFor(q.domain)]
      /\ Put(f, [q EXCEPT !.step = "sign"])
      /\ UNCHANGED <<provider, user, host, cert, app, conf, loaded, renewed, mishap, late>>
  BY <1>1 DEF CreateKeyAndCsr, At, Step, serving
<1>3. FlowRight(f, q) /\ f # "request" /\ q.domain \in Names
  BY <1>0, <1>1, <1>2, FlowKnows DEF Asking
<1>4. /\ key \in [Names -> 0..1] /\ KeyFor(q.domain) = 1
      /\ key' \in [Names -> 0..1] /\ key'[q.domain] = 1
      /\ \A e \in Names : key[e] = 1 => key'[e] = 1
  <2>1. key \in [Names -> 0..1]
    BY <1>0 DEF Shape, CertTypes, CertTypeOK, KeysFit
  <2>2. KeyFor(q.domain) = 1
    BY <1>3, <2>1 DEF KeyFor
  <2> QED BY <1>2, <1>3, <2>1, <2>2
<1>5. PICK r \in CertFlow : r = [q EXCEPT !.step = "sign"]
  BY DEF CertFlow, CertSteps
<1>6. r.step = "sign" /\ r.site = q.site /\ r.domain = q.domain /\ r.rows = q.rows
  BY <1>5 DEF CertFlow
<1>7. Put(f, r)
  BY <1>2, <1>4, <1>5
<1>8. FlowRight(f, r)'
  <2>1. q.step \in Asking \cup {"ensure"} /\ q.step # "ensure" /\ UNCHANGED app
    BY <1>2 DEF Asking
  <2>2. r.step \in Asking \cup {"reload"} /\ r.domain \in Names /\ key'[r.domain] = 1
    BY <1>3, <1>4, <1>6 DEF Asking
  <2> QED BY <1>3, <1>6, <2>1, <2>2, RightAfter
<1>9. \A s \in Sites : ToLookAt(s) => ToLookAt(s)'
  BY <1>0, <1>1, <1>2, <1>6, <1>7, AsksLooking DEF Asking
<1>10. r.step \notin {"reload", "idle", "hung"} /\ flow[f].step # "reload"
  BY <1>1, <1>2, <1>6
<1> QED BY <1>2, <1>3, <1>4, <1>7, <1>8, <1>9, <1>10, GoesKeeps

-----------------------------------------------------------------------------
(* A flow has a certificate configured that is good, or the fallback certificate. *)
LEMMA WritesKeeps ==
    ASSUME CertInv, NEW f \in Flows, f # "request", flow[f].step \in Asking \cup {"ensure"},
           NEW p \in {"user", "auto", "host"}, NEW d \in Names, d = flow[f].domain,
           Configure(flow[f].site, d, p), Step(f, "reload"),
           cert' \in [Names -> [key : 0..2, left : Expired..Month]],
           \A e \in Names : \/ cert'[e] = cert[e]
                            \/ e = d /\ cert'[e].key = key[e] /\ cert'[e].left = Month,
           p = "auto" => cert'[d].left >= 2,
           ~mishap => Loads(ConfOf(d, p))',
           UNCHANGED <<provider, user, host, key, app, loaded, renewed, mishap, late>>
    PROVE  CertInv'
<1>0. Shape /\ FilesFit /\ Serving
  BY DEF CertInv
<1>1. PICK q \in CertFlow : q = flow[f]
  BY <1>0, FlowKnows
<1>2. /\ FlowRight(f, q) /\ Belongs(q.site, q.domain) /\ q.site \in Sites /\ q.domain = d
      /\ q.step = "ensure" => f # "renewal"
      /\ f \in Apps => q.site = f /\ Pending(f) /\ q.domain = app[f].domain
  BY <1>0, <1>1, FlowKnows
<1>3. PICK r \in CertFlow : r = [q EXCEPT !.step = "reload"]
  BY DEF CertFlow, CertSteps
<1>4. r.step = "reload" /\ r.site = q.site /\ r.domain = q.domain /\ r.rows = q.rows
  BY <1>3 DEF CertFlow
<1>5. Put(f, r)
  BY <1>1, <1>3 DEF Step
<1>6. FlowRight(f, r)'
  <2>1. q.step \in Asking \cup {"ensure"} /\ UNCHANGED app
    BY <1>1
  <2>2. r.step \in Asking \cup {"reload"} /\ r.step # "sign"
    BY <1>4
  <2> QED BY <1>2, <1>4, <2>1, <2>2, RightAfter
<1>7. FlowsRight'
  BY <1>0, <1>5, <1>6, FlowsPut DEF Shape
<1>8. /\ conf' \in [Sites -> Confs] /\ conf'[q.site] = ConfOf(d, p)
      /\ \A t \in Sites : t # q.site => conf'[t] = conf[t]
      /\ conf'[Admin].domain \in {Admin, NoDomain}
  BY <1>0, <1>1, <1>2, ConfWritten
<1>9. Shape'
  <2>1. CertTypes'
    BY <1>0, <1>8 DEF Shape, CertTypes, CertTypeOK
  <2>2. AppsApart'
    BY <1>0 DEF Shape, AppsApart
  <2>3. KeysFit'
    BY <1>0 DEF Shape, KeysFit
  <2>4. AdminAtHome'
    BY <1>0, <1>8 DEF Shape, AdminAtHome
  <2> QED BY <1>7, <2>1, <2>2, <2>3, <2>4 DEF Shape
<1>10. FilesFit'
  <2>1. \A e \in Names : cert'[e] = cert[e] \/ cert'[e].key = key[e]
    OBVIOUS
  <2>2. UNCHANGED <<user, host, key, mishap, late>>
    OBVIOUS
  <2> QED BY <1>0, <1>2, <1>8, <2>1, <2>2, FilesWritten
<1>11. Serving'
  <2>1. \A e \in Names : cert'[e] = cert[e] \/ (e = d /\ cert'[e].left = Month)
    OBVIOUS
  <2>2. \A e \in Names : UserPairExists(e) => UserPairExists(e)'
    BY DEF UserPairExists
  <2>3. f = "renewal" => q.site = flow[f].site /\ d = flow[f].domain /\ flow[f].step \in Asking
    BY <1>1, <1>2
  <2>4. conf' = [conf EXCEPT ![q.site] = [domain |-> d, pair |-> p]]
    BY <1>1 DEF Configure
  <2>6. f \in Apps => q.site = f /\ Pending(f) /\ d = app[f].domain
    BY <1>2
  <2> QED BY <1>0, <1>2, <2>1, <2>2, <2>3, <2>4, <2>6, ServingWritten
<1> QED BY <1>9, <1>10, <1>11 DEF CertInv

LEMMA CertsTyped ==
    ASSUME CertInv
    PROVE  /\ cert \in [Names -> [key : 0..2, left : Expired..Month]]
           /\ ~mishap => host.used = "pair" /\ \A d \in Names : user[d] \in {"none", "pair"}
           /\ \A d \in Names : key[d] \in 0..1 /\ cert[d].key \in {0, key[d]} /\ cert[d].left \in 0..3
BY DEF CertInv, Shape, CertTypes, CertTypeOK, FilesFit, KeysFit, Expired, Month

LEMMA FallsBackKeeps ==
    ASSUME CertInv, NEW f \in Flows, f # "request", flow[f].step \in Asking,
           UsesFallback(f), Step(f, "reload"),
           UNCHANGED <<provider, user, host, key, cert, app, loaded, renewed, mishap, late>>
    PROVE  CertInv'
<1>1. PICK d \in Names : d = flow[f].domain
  BY FlowKnows DEF CertInv
<1>2. ~mishap => Loads(ConfOf(d, "host"))'
  BY CertsTyped DEF Loads, ConfOf
<1>3. Configure(flow[f].site, d, "host")
  BY <1>1 DEF UsesFallback
<1> QED BY <1>1, <1>2, <1>3, CertsTyped, WritesKeeps

LEMMA UsesFilesKeeps ==
    ASSUME CertInv, NEW f \in Flows, UsesFiles(f)
    PROVE  CertInv'
<1>0. Shape
  BY DEF CertInv
<1>1. f # "request" /\ flow[f].step = "ensure" /\ flow[f].domain \in Names
  BY <1>0, FlowKnows DEF UsesFiles, At
<1>d. PICK d \in Names : d = flow[f].domain
  BY <1>1
<1>2. Step(f, "reload") /\ UNCHANGED <<provider, user, host, key, cert, app, loaded, renewed, mishap, late>>
  BY DEF UsesFiles, files
<1>3. CASE UserPairExists(d) /\ Configure(flow[f].site, d, "user")
  <2>1. ~mishap => Loads(ConfOf(d, "user"))'
    BY <1>1, <1>2, <1>3, CertsTyped DEF Loads, ConfOf, UserPairExists
  <2> QED BY <1>1, <1>2, <1>3, <1>d, <2>1, CertsTyped, WritesKeeps
<1>4. CASE AutoPairExists(d) /\ ~IsExpiring(d, Day) /\ Configure(flow[f].site, d, "auto")
  <2>1. cert[d].left >= 2 /\ key[d] # 0 /\ cert[d].key = key[d]
    BY <1>1, <1>4, CertsTyped DEF AutoPairExists, IsExpiring, Day
  <2>2. ~mishap => Loads(ConfOf(d, "auto"))'
    BY <1>2, <2>1 DEF Loads, ConfOf
  <2> QED BY <1>1, <1>2, <1>4, <1>d, <2>1, <2>2, CertsTyped, WritesKeeps
<1> QED BY <1>3, <1>4, <1>d DEF UsesFiles

LEMMA GetCertificateKeeps ==
    ASSUME CertInv, NEW f \in Flows, getCertificate(f)
    PROVE  CertInv'
<1>1. f # "request" /\ flow[f].step \in Asking
  BY CertNames DEF getCertificate, At, Ensurers, Asking
<1> QED BY <1>1, FallsBackKeeps DEF getCertificate, files

LEMMA AcmeFailsKeeps ==
    ASSUME CertInv, NEW f \in Flows, AcmeFails(f)
    PROVE  CertInv'
<1>1. f # "request" /\ flow[f].step \in Asking
  BY CertNames DEF AcmeFails, AcmeSteps, Ensurers, Asking
<1> QED BY <1>1, FallsBackKeeps DEF AcmeFails, files

LEMMA DownloadCertificateKeeps ==
    ASSUME CertInv, NEW f \in Flows, DownloadCertificate(f)
    PROVE  CertInv'
<1>0. Shape
  BY DEF CertInv
<1>d. PICK d \in Names : d = flow[f].domain
  BY <1>0, FlowKnows DEF DownloadCertificate, At, FlowRight
<1>1. f # "request" /\ flow[f].step = "sign" /\ key[d] = 1
  BY <1>0, <1>d, FlowKnows DEF DownloadCertificate, At, Asking, FlowRight
<1>2. /\ Step(f, "reload") /\ UNCHANGED <<provider, user, host, key, app, loaded, renewed, mishap, late>>
      /\ Configure(flow[f].site, d, "auto")
      /\ cert' = [cert EXCEPT ![d] = [key |-> 1, left |-> Month]]
  BY <1>1, <1>d DEF DownloadCertificate
<1>3. [key |-> 1, left |-> Month] \in [key : 0..2, left : Expired..Month]
  BY DEF Expired, Month
<1>4. /\ cert' \in [Names -> [key : 0..2, left : Expired..Month]]
      /\ cert'[d].key = 1 /\ cert'[d].left = Month /\ \A e \in Names : e # d => cert'[e] = cert[e]
  BY <1>1, <1>2, <1>3, CertsTyped
<1>5. \A e \in Names : \/ cert'[e] = cert[e]
                       \/ e = d /\ cert'[e].key = key[e] /\ cert'[e].left = Month
  BY <1>1, <1>4
<1>6. ~mishap => Loads(ConfOf(d, "auto"))'
  BY <1>1, <1>2, <1>4 DEF Loads, ConfOf
<1>7. cert'[d].left >= 2
  BY <1>4 DEF Month
<1> QED BY <1>1, <1>2, <1>4, <1>5, <1>6, <1>7, <1>d, WritesKeeps DEF Asking

-----------------------------------------------------------------------------
(* The renewal. *)

(* What is served stays well when each site is still good. *)
LEMMA ServingLooked ==
    ASSUME Serving, UNCHANGED <<user, cert, app, conf, loaded, mishap, late>>, ToReload => ToReload',
           \A a \in Apps : flow'[a] = flow[a],
           ~mishap /\ ~late => \A s \in Sites : Current(s) => Good(s)'
    PROVE  Serving'
<1> SUFFICES ASSUME ~mishap, ~late
             PROVE  (\A s \in Sites : SiteFits(s)') /\ InstallsGood'
  BY DEF Serving
<1>1. (\A s \in Sites : SiteFits(s)) /\ InstallsGood
  BY DEF Serving
<1>2. ASSUME NEW s \in Sites
      PROVE  SiteFits(s)'
  <2>1. Own(s)' = Own(s) /\ Current(s)' = Current(s)
    BY DEF Own, Current
  <2> SUFFICES ASSUME Current(s)
               PROVE  Good(s)' /\ InSync(s)' /\ ServedWell(s)'
    BY <2>1 DEF SiteFits
  <2>2. InSync(s) /\ ServedWell(s)
    BY <1>1 DEF SiteFits
  <2>3. InSync(s)'
    BY <2>1, <2>2 DEF InSync, ConfOwn
  <2>4. ServedWell(s)'
    BY <2>1, <2>2 DEF ServedWell, UserPairExists
  <2> QED BY <2>3, <2>4
<1>3. InstallsGood'
  BY <1>1 DEF InstallsGood, ConfOwn, Own
<1> QED BY <1>2, <1>3

(* The renewal goes on with its list, or it is done. *)
LEMMA Continues ==
    ASSUME Shape, Continue, flow["renewal"].step \in Asking \cup {"reload"}, UNCHANGED <<app, key>>
    PROVE  /\ FlowsRight' /\ renewed' \in BOOLEAN
           /\ \A g \in Flows : g # "renewal" => flow'[g] = flow[g]
           /\ \/ flow["renewal"].rows = {} /\ flow'["renewal"].step = "idle"
              \/ /\ flow'["renewal"].step = "next"
                 /\ flow'["renewal"].rows = flow["renewal"].rows /\ renewed' = renewed
<1>1. PICK q \in CertFlow : q = flow["renewal"]
  BY CertNames, FlowKnows
<1>2. FlowRight("renewal", q) /\ "renewal" \in Flows /\ "renewal" \notin Apps
  BY <1>1, CertNames, FlowKnows
<1>3. CASE q.rows = {}
  <2>1. Idle \in CertFlow /\ Idle.step = "idle" /\ Idle.rows = {}
    BY CertNames DEF CertFlow, CertSteps, Idle
  <2>2. Put("renewal", Idle) /\ renewed' = TRUE
    BY <1>1, <1>3 DEF Continue
  <2>3. FlowRight("renewal", Idle)'
    BY <1>2, <2>1 DEF FlowRight
  <2>4. FlowsRight' /\ \A g \in Flows : flow'[g] = IF g = "renewal" THEN Idle ELSE flow[g]
    BY <1>2, <2>1, <2>2, <2>3, FlowsPut DEF Shape
  <2> QED BY <1>1, <1>2, <1>3, <2>1, <2>2, <2>4
<1>4. CASE q.rows # {}
  <2>1. PICK r \in CertFlow : r = [q EXCEPT !.step = "next"]
    BY DEF CertFlow, CertSteps
  <2>2. r.step = "next" /\ r.rows = q.rows
    BY <2>1 DEF CertFlow
  <2>3. Put("renewal", r) /\ renewed' = renewed
    BY <1>1, <1>4, <2>1 DEF Continue, Step
  <2>4. FlowRight("renewal", r)'
    BY <1>2, <2>2 DEF FlowRight, Belongs
  <2>5. FlowsRight' /\ \A g \in Flows : flow'[g] = IF g = "renewal" THEN r ELSE flow[g]
    BY <1>2, <2>1, <2>3, <2>4, FlowsPut DEF Shape
  <2> QED BY <1>1, <1>2, <2>2, <2>3, <2>5 DEF Shape, CertTypes
<1> QED BY <1>3, <1>4

LEMMA GoodContinues ==
    ASSUME Shape, Continue, flow["renewal"].step \in Asking \cup {"reload"},
           UNCHANGED <<user, key, cert, app, conf>>, NEW s \in Sites, Good(s), Current(s),
           \/ flow["renewal"].step = "reload"
           \/ flow["renewal"].domain = Own(s) => cert[Own(s)].left >= 2
    PROVE  Good(s)'
<1>1. /\ Own(s)' = Own(s) /\ ConfOwn(s)' = ConfOwn(s)
      /\ UserPairExists(Own(s))' = UserPairExists(Own(s))
  BY DEF Own, ConfOwn, UserPairExists
<1>2. CASE cert[Own(s)].left >= 2
  BY <1>1, <1>2 DEF Good
<1>3. CASE ~(cert[Own(s)].left >= 2)
  <2> SUFFICES ASSUME ConfOwn(s), ~UserPairExists(Own(s))
               PROVE  cert[Own(s)].left >= 1 /\ ~renewed' /\ ToLookAt(s)'
    BY <1>1 DEF Good
  <2>1. cert[Own(s)].left >= 1 /\ ~renewed /\ ToLookAt(s)
    BY <1>3 DEF Good
  <2>2. [site |-> s, domain |-> Own(s)] \in flow["renewal"].rows
    BY <1>3, <2>1 DEF ToLookAt, Asking
  <2>3. flow'["renewal"].rows = flow["renewal"].rows /\ renewed' = renewed
    BY <2>2, Continues
  <2> QED BY <1>1, <2>1, <2>2, <2>3 DEF ToLookAt
<1> QED BY <1>2, <1>3

LEMMA ShapeStays ==
    ASSUME Shape, UNCHANGED <<provider, user, host, key, cert, app, conf, loaded>>,
           renewed' \in BOOLEAN, mishap' \in BOOLEAN, late' \in BOOLEAN, FlowsRight'
    PROVE  Shape'
BY DEF Shape, CertTypes, CertTypeOK, AppsApart, KeysFit, AdminAtHome

(* A flow that never ends: what an app or the webadmin was at stays as it was, and
   nginx serves what is configured unless somebody else is to tell it. *)
LEMMA AcmeHangsKeeps ==
    ASSUME CertInv, NEW f \in Flows, AcmeHangs(f)
    PROVE  CertInv'
<1>0. Shape /\ FilesFit /\ Serving
  BY DEF CertInv
<1>1. PICK q \in CertFlow : q = flow[f]
  BY <1>0, FlowKnows
<1>2. /\ q.step = "sign" /\ f # "request" /\ FlowRight(f, q)
      /\ UNCHANGED <<provider, user, host, key, cert, app, conf, loaded, renewed, mishap>>
  BY <1>0, <1>1, FlowKnows DEF AcmeHangs, At, Asking, files, serving
<1>3. late' \in BOOLEAN /\ (late => late') /\ (f # "webadmin" => late' = late)
  BY <1>0 DEF AcmeHangs, Shape, CertTypes
<1>4. PICK r \in CertFlow : /\ Put(f, r) /\ FlowRight(f, r)'
                            /\ r.step = IF f = "renewal" THEN "idle" ELSE "hung"
  <2>1. CASE f = "renewal"
    <3>1. FlowRight(f, Idle)'
      BY <2>1, IdleTyped, CertNames DEF FlowRight
    <3> QED BY <2>1, <3>1, IdleTyped DEF AcmeHangs
  <2>2. CASE f # "renewal"
    <3>1. PICK r \in CertFlow : r = [q EXCEPT !.step = "hung"]
      BY DEF CertFlow, CertSteps
    <3>2. r.step = "hung" /\ r.site = q.site /\ r.domain = q.domain
      BY <3>1 DEF CertFlow
    <3>3. Put(f, r)
      BY <1>1, <2>2, <3>1 DEF AcmeHangs, Step
    <3>4. FlowRight(f, r)'
      BY <1>2, <2>2, <3>2, CertNames DEF FlowRight, Pending
    <3> QED BY <2>2, <3>2, <3>3, <3>4
  <2> QED BY <2>1, <2>2
<1>5. FlowsRight' /\ \A g \in Flows : flow'[g] = IF g = f THEN r ELSE flow[g]
  BY <1>0, <1>2, <1>4, FlowsPut DEF Shape
<1>6. Shape'
  BY <1>0, <1>2, <1>3, <1>5, ShapeStays DEF Shape, CertTypes
<1>7. FilesFit'
  BY <1>0, <1>2, FilesKept
<1>8. Serving'
  <2>1. \A s \in Sites : ToLookAt(s) => ToLookAt(s)'
    <3> TAKE s \in Sites
    <3>1. CASE f = "renewal"
      BY <1>4, <1>5, <3>1 DEF ToLookAt
    <3>2. CASE f # "renewal"
      <4>1. flow'["renewal"] = flow["renewal"]
        BY <1>5, <3>2, CertNames
      <4> QED BY <1>2, <4>1 DEF ToLookAt, Own
    <3> QED BY <3>1, <3>2
  <2>2. \A a \in Apps : flow'[a].step = "reload" => flow[a].step = "reload"
    BY <1>4, <1>5, CertNames
  <2>3. CASE f # "webadmin"
    <3>1. ToReload => ToReload'
      BY <1>1, <1>2, <1>5, <2>3, CertNames DEF ToReload
    <3> QED BY <1>0, <1>2, <1>3, <2>1, <2>2, <2>3, <3>1, ServingStays
  <2>4. CASE f = "webadmin"
    <3> SUFFICES ASSUME ~mishap, ~late'
                 PROVE  (\A s \in Sites : SiteFits(s)') /\ InstallsGood'
      BY <1>2 DEF Serving
    <3>1. ~late /\ (\A s \in Sites : SiteFits(s)) /\ InstallsGood
      BY <1>0, <1>3 DEF Serving
    <3>2. ASSUME NEW s \in Sites
          PROVE  SiteFits(s)'
      <4>1. /\ Own(s)' = Own(s) /\ Current(s)' = Current(s) /\ ConfOwn(s)' = ConfOwn(s)
            /\ UserPairExists(Own(s))' = UserPairExists(Own(s))
        BY <1>2 DEF Own, Current, ConfOwn, UserPairExists
      <4> SUFFICES ASSUME Current(s)
                   PROVE  Good(s)' /\ InSync(s)' /\ ServedWell(s)'
        BY <4>1 DEF SiteFits
      <4>2. Good(s) /\ ServedWell(s)
        BY <3>1 DEF SiteFits
      <4>3. UpToDate(s)
        BY <1>3, <2>4 DEF AcmeHangs
      <4>4. InSync(s)'
        BY <1>2, <4>1, <4>3 DEF InSync, UpToDate, Left, ConfOwn
      <4>5. Good(s)'
        BY <1>2, <2>1, <4>1, <4>2 DEF Good
      <4>6. ServedWell(s)'
        BY <1>2, <4>1, <4>2 DEF ServedWell
      <4> QED BY <4>4, <4>5, <4>6
    <3>3. InstallsGood'
      BY <1>2, <2>2, <3>1 DEF InstallsGood, ConfOwn, Own
    <3> QED BY <3>2, <3>3
  <2> QED BY <2>3, <2>4
<1> QED BY <1>6, <1>7, <1>8 DEF CertInv

LEMMA RenewalFailsKeeps ==
    ASSUME CertInv, RenewalFails
    PROVE  CertInv'
<1>0. Shape /\ FilesFit /\ Serving
  BY DEF CertInv
<1> DEFINE d == flow["renewal"].domain
<1>1. /\ flow["renewal"].step \in Asking /\ "renewal" \in Flows /\ "renewal" # "request"
      /\ UNCHANGED <<provider, user, host, key, cert, app, loaded, mishap, late>>
  BY CertNames DEF RenewalFails, AcmeSteps, Asking, files
<1>2. CASE IsExpiring(d, Day)
  BY <1>1, <1>2, FallsBackKeeps DEF RenewalFails, KeepsOrFallsBack
<1>3. CASE ~IsExpiring(d, Day)
  <2>1. Continue /\ UNCHANGED conf
    BY <1>3 DEF RenewalFails, KeepsOrFallsBack
  <2>2. FlowsRight' /\ renewed' \in BOOLEAN /\ \A g \in Flows : g # "renewal" => flow'[g] = flow[g]
    BY <1>0, <1>1, <2>1, Continues
  <2>3. Shape'
    BY <1>0, <1>1, <2>1, <2>2, ShapeStays DEF Shape, CertTypes
  <2>4. FilesFit'
    BY <1>0, <1>1, <2>1, FilesKept
  <2>5. ASSUME ~mishap, ~late, NEW s \in Sites, Current(s)
        PROVE  Good(s)'
    <3>1. Good(s)
      BY <1>0, <2>5 DEF Serving, SiteFits
    <3>2. d \in Names
      BY <1>0, <1>1, FlowKnows
    <3>3. cert[d].left >= 2
      BY <1>3, <3>2, CertsTyped DEF IsExpiring, Day
    <3> QED BY <1>0, <1>1, <2>1, <2>5, <3>1, <3>3, GoodContinues
  <2>6. ToReload => ToReload'
    BY <1>1, <2>2, CertNames DEF ToReload, Asking
  <2>7. \A a \in Apps : flow'[a] = flow[a]
    BY <2>2, CertNames
  <2>8. Serving'
    BY <1>0, <1>1, <2>1, <2>5, <2>6, <2>7, ServingLooked
  <2> QED BY <2>3, <2>4, <2>8 DEF CertInv
<1> QED BY <1>2, <1>3

LEMMA RowsBelong ==
    ASSUME Shape, NEW entry \in Rows
    PROVE  entry \in CertRow /\ Belongs(entry.site, entry.domain)
BY CertNames DEF Rows, CertRow, Belongs, Shape, AppsApart

(* A site that is to be served is among the rows, and if its certificate would expire
   in time on the list. *)
LEMMA CurrentListed ==
    ASSUME Shape, FilesFit, ~mishap, NEW s \in Sites, Current(s), ConfOwn(s), ~UserPairExists(Own(s)),
           cert[Own(s)].left < Month
    PROVE  [site |-> s, domain |-> Own(s)] \in ToRenew
<1>1. [site |-> s, domain |-> Own(s)] \in Rows
  BY CertNames DEF Rows, Own, Current
<1>2. key[Own(s)] # 0 /\ cert[Own(s)].key = key[Own(s)]
  BY DEF FilesFit, Loads, ConfOwn
<1>3. IsExpiring(Own(s), Month - 1)
  <2>1. Own(s) \in Names
    BY CertNames DEF Own, Current, Shape, AppsApart
  <2>2. cert[Own(s)].left \in 0..3
    BY <2>1 DEF Shape, CertTypes, CertTypeOK, Expired, Month
  <2> QED BY <2>2 DEF IsExpiring, Month
<1> QED BY <1>1, <1>2, <1>3 DEF ToRenew

LEMMA GetAllKeeps ==
    ASSUME CertInv, GetAll
    PROVE  CertInv'
<1>0. Shape /\ FilesFit /\ Serving
  BY DEF CertInv
<1>1. /\ flow["renewal"].step = "idle" /\ "renewal" \in Flows /\ "renewal" \notin Apps
      /\ UNCHANGED <<provider, user, host, key, cert, app, conf, loaded, mishap, late>>
  BY CertNames DEF GetAll, At, files, serving
<1>2. ToRenew \subseteq Rows
  BY DEF ToRenew
<1>3. PICK r \in CertFlow :
         /\ Put("renewal", r) /\ FlowRight("renewal", r)' /\ r.step \in {"idle", "next"}
         /\ r.step = "idle" => ToRenew = {} /\ renewed' = TRUE
         /\ r.step = "next" => r.rows = ToRenew /\ renewed' = renewed
  <2>1. Idle \in CertFlow /\ Idle.step = "idle" /\ Idle.rows = {}
    BY CertNames DEF CertFlow, CertSteps, Idle
  <2>2. CASE ToRenew = {}
    <3>1. Put("renewal", Idle) /\ renewed' = TRUE
      BY <2>2 DEF GetAll
    <3>2. FlowRight("renewal", Idle)'
      BY <1>1, <2>1 DEF FlowRight
    <3> QED BY <2>1, <2>2, <3>1, <3>2
  <2>3. CASE ToRenew # {}
    <3>1. ToRenew \in SUBSET CertRow /\ \A entry \in ToRenew : Belongs(entry.site, entry.domain)
      BY <1>0, <1>2, RowsBelong
    <3>2. PICK rows2 : rows2 = ToRenew
      OBVIOUS
    <3>3. [Idle EXCEPT !.step = "next", !.rows = rows2] \in CertFlow
      <4>1. PICK i \in CertFlow : i = Idle
        BY <2>1
      <4>2. [i EXCEPT !.step = "next"] \in CertFlow
        BY DEF CertFlow, CertSteps
      <4>3. rows2 \in SUBSET CertRow
        BY <3>1, <3>2
      <4>4. [i EXCEPT !.step = "next", !.rows = rows2] \in CertFlow
        BY <4>3 DEF CertFlow, CertSteps
      <4> QED BY <4>1, <4>4
    <3>4. PICK r \in CertFlow : r = [Idle EXCEPT !.step = "next", !.rows = rows2]
      BY <3>3
    <3>5. r.step = "next" /\ r.rows = rows2
      BY <2>1, <3>4 DEF CertFlow, Idle
    <3>6. Put("renewal", r) /\ renewed' = renewed
      BY <2>3, <3>2, <3>4 DEF GetAll
    <3>7. \A entry \in r.rows : Belongs(entry.site, entry.domain)
      BY <3>1, <3>2, <3>5
    <3>8. FlowRight("renewal", r)'
      BY <1>1, <3>5, <3>7 DEF FlowRight, Belongs
    <3> QED BY <3>2, <3>5, <3>6, <3>8
  <2> QED BY <2>2, <2>3
<1>4. FlowsRight' /\ \A g \in Flows : flow'[g] = IF g = "renewal" THEN r ELSE flow[g]
  BY <1>0, <1>1, <1>3, FlowsPut DEF Shape
<1>5. Shape'
  BY <1>0, <1>1, <1>3, <1>4, ShapeStays DEF Shape, CertTypes
<1>6. FilesFit'
  BY <1>0, <1>1, FilesKept
<1>7. ASSUME ~mishap, ~late, NEW s \in Sites, Current(s)
      PROVE  Good(s)'
  <2>1. /\ Own(s)' = Own(s) /\ ConfOwn(s)' = ConfOwn(s)
        /\ UserPairExists(Own(s))' = UserPairExists(Own(s))
    BY <1>1 DEF Own, ConfOwn, UserPairExists
  <2> SUFFICES ASSUME ConfOwn(s), ~UserPairExists(Own(s))
               PROVE  \/ cert[Own(s)].left >= 2
                      \/ cert[Own(s)].left >= 1 /\ ~renewed' /\ ToLookAt(s)'
    BY <1>1, <2>1 DEF Good
  <2>2. \/ cert[Own(s)].left >= 2
        \/ cert[Own(s)].left >= 1 /\ ~renewed
    BY <1>0, <1>7 DEF Serving, SiteFits, Good
  <2>3. cert[Own(s)].left \in 0..3
    <3>1. Own(s) \in Names
      BY <1>0, <1>7, CertNames DEF Own, Current, Shape, AppsApart
    <3> QED BY <3>1, CertsTyped
  <2>4. CASE cert[Own(s)].left < Month
    <3>1. [site |-> s, domain |-> Own(s)] \in ToRenew
      BY <1>0, <1>7, <2>4, CurrentListed
    <3>2. r.step = "next" /\ r.rows = ToRenew /\ renewed' = renewed
      BY <1>3, <3>1
    <3>3. flow'["renewal"] = r
      BY <1>1, <1>4
    <3>4. ToLookAt(s)'
      BY <2>1, <3>1, <3>2, <3>3 DEF ToLookAt
    <3> QED BY <2>2, <3>2, <3>4
  <2>5. CASE ~(cert[Own(s)].left < Month)
    BY <2>3, <2>5 DEF Month
  <2> QED BY <2>4, <2>5
<1>8. ToReload => ToReload'
  BY <1>1, <1>4, CertNames DEF ToReload
<1>9. \A a \in Apps : flow'[a] = flow[a]
  BY <1>1, <1>4, CertNames
<1>10. Serving'
  BY <1>0, <1>1, <1>7, <1>8, <1>9, ServingLooked
<1> QED BY <1>5, <1>6, <1>10 DEF CertInv

LEMMA NextSiteKeeps ==
    ASSUME CertInv, NextSite
    PROVE  CertInv'
<1>0. Shape
  BY DEF CertInv
<1>1. /\ flow["renewal"].step = "next" /\ "renewal" \in Flows
      /\ "renewal" \notin Apps /\ "renewal" # "request" /\ "renewal" # "webadmin"
      /\ UNCHANGED <<provider, user, host, key, cert, app, conf, loaded, renewed, mishap, late>>
  BY CertNames DEF NextSite, At, files, serving
<1>2. PICK q \in CertFlow : q = flow["renewal"]
  BY <1>0, <1>1, FlowKnows
<1>3. FlowRight("renewal", q)
  BY <1>0, <1>1, <1>2, FlowKnows
<1>4. PICK entry \in q.rows : Put("renewal", [q EXCEPT !.step = "api", !.site = entry.site,
                                          !.domain = entry.domain, !.rows = @ \ {entry}])
  BY <1>2 DEF NextSite
<1>5. entry \in CertRow /\ Belongs(entry.site, entry.domain) /\ q.rows \subseteq CertRow
  BY <1>1, <1>3 DEF FlowRight, CertFlow
<1>6. PICK s0 \in Sites, d0 \in Names, rows2 \in SUBSET CertRow :
         s0 = entry.site /\ d0 = entry.domain /\ rows2 = q.rows \ {entry}
  BY <1>5 DEF CertRow
<1>7. PICK r : r = [q EXCEPT !.step = "api", !.site = s0, !.domain = d0, !.rows = rows2]
  OBVIOUS
<1>8. /\ r \in CertFlow /\ r.step = "api" /\ r.site = s0 /\ r.domain = d0 /\ r.rows = rows2
  BY <1>7 DEF CertFlow, CertSteps
<1>9. Put("renewal", r)
  BY <1>4, <1>6, <1>7
<1>10. FlowRight("renewal", r)'
  <2>1. \A x \in r.rows : Belongs(x.site, x.domain)
    BY <1>3, <1>6, <1>8 DEF FlowRight
  <2>2. Belongs(r.site, r.domain)
    BY <1>5, <1>6, <1>8
  <2> QED BY <1>1, <1>8, <2>1, <2>2 DEF FlowRight, Belongs, Asking
<1>11. \A s \in Sites : ToLookAt(s) => ToLookAt(s)'
  <2> TAKE s \in Sites
  <2>1. Own(s)' = Own(s)
    BY <1>1 DEF Own
  <2>2. flow'["renewal"] = r
    BY <1>0, <1>1, <1>9 DEF Put, Shape, FlowsRight
  <2>3. CASE entry = [site |-> s, domain |-> Own(s)]
    BY <1>6, <1>8, <2>1, <2>2, <2>3 DEF ToLookAt, Asking
  <2>4. CASE entry # [site |-> s, domain |-> Own(s)]
    BY <1>1, <1>2, <1>6, <1>8, <2>1, <2>2, <2>4 DEF ToLookAt, Asking
  <2> QED BY <2>3, <2>4
<1>12. r.step \notin {"reload", "idle", "hung"} /\ flow["renewal"].step # "reload"
  BY <1>1, <1>8
<1>13. key' \in [Names -> 0..1] /\ \A d \in Names : key[d] = 1 => key'[d] = 1
  BY <1>0, <1>1 DEF Shape, CertTypes, CertTypeOK, KeysFit
<1> QED BY <1>1, <1>8, <1>9, <1>10, <1>11, <1>12, <1>13, GoesKeeps

(* A renewal that is given up is to be started again. *)
LEMMA RenewalGivesUpKeeps ==
    ASSUME CertInv, RenewalGivesUp
    PROVE  CertInv'
<1>0. Shape
  BY DEF CertInv
<1>1. /\ flow["renewal"].step = "api" /\ Put("renewal", Idle)
      /\ UNCHANGED <<provider, user, host, key, cert, app, conf, loaded, renewed, mishap, late>>
      /\ "renewal" \in Flows /\ "renewal" \notin Apps
  BY CertNames DEF RenewalGivesUp, At, files, serving
<1>2. FlowRight("renewal", Idle)'
  BY <1>1, IdleTyped DEF FlowRight
<1>3. \A s \in Sites : ToLookAt(s) => ToLookAt(s)'
  <2>1. flow'["renewal"] = Idle
    BY <1>0, <1>1 DEF Put, Shape, FlowsRight
  <2> QED BY <2>1, IdleTyped DEF ToLookAt
<1>4. key' \in [Names -> 0..1] /\ \A d \in Names : key[d] = 1 => key'[d] = 1
  BY <1>0, <1>1 DEF Shape, CertTypes, CertTypeOK, KeysFit
<1> QED BY <1>1, <1>2, <1>3, <1>4, IdleTyped, GoesKeeps

LEMMA RenewsNothingKeeps ==
    ASSUME CertInv, RenewsNothing
    PROVE  CertInv'
<1>0. Shape
  BY DEF CertInv
<1>1. /\ flow["renewal"].step = "api" /\ "renewal" \in Flows /\ "renewal" # "request"
      /\ Configure(flow["renewal"].site, flow["renewal"].domain, "auto")
      /\ Step("renewal", "reload") /\ mishap' = TRUE
      /\ UNCHANGED <<provider, user, host, key, cert, app, loaded, renewed, late>>
  BY CertNames DEF RenewsNothing, At, files
<1>2. PICK q \in CertFlow : q = flow["renewal"]
  BY <1>0, <1>1, FlowKnows
<1>3. FlowRight("renewal", q) /\ Belongs(q.site, q.domain) /\ q.site \in Sites /\ q.domain \in Names
  BY <1>0, <1>1, <1>2, FlowKnows DEF Asking
<1>4. PICK r \in CertFlow : r = [q EXCEPT !.step = "reload"]
  BY DEF CertFlow, CertSteps
<1>5. r.step = "reload" /\ r.site = q.site /\ r.domain = q.domain /\ r.rows = q.rows
  BY <1>4 DEF CertFlow
<1>6. Put("renewal", r)
  BY <1>1, <1>2, <1>4 DEF Step
<1>7. FlowRight("renewal", r)'
  <2>1. q.step \in Asking \cup {"ensure"} /\ q.step # "ensure" /\ UNCHANGED app
    BY <1>1, <1>2 DEF Asking
  <2>2. r.step \in Asking \cup {"reload"} /\ r.step # "sign"
    BY <1>5
  <2> QED BY <1>1, <1>3, <1>5, <2>1, <2>2, RightAfter
<1>8. FlowsRight'
  BY <1>0, <1>1, <1>6, <1>7, FlowsPut DEF Shape
<1>9. conf' \in [Sites -> Confs] /\ conf'[Admin].domain \in {Admin, NoDomain}
  BY <1>0, <1>1, <1>2, <1>3, ConfWritten
<1>10. Shape'
  BY <1>0, <1>1, <1>8, <1>9 DEF Shape, CertTypes, CertTypeOK, AppsApart, KeysFit, AdminAtHome
<1> QED BY <1>1, <1>10 DEF CertInv, FilesFit, Serving

-----------------------------------------------------------------------------
(* nginx is told to reload. *)

CertAppRow == [state : {"none", "pending", "pending_uninstall", "installed", "error"},
               domain : Domains \cup {NoDomain}]
AppRows == [Apps -> CertAppRow]

\* The row of an app becomes w, its task is at r.
SetsApp(a, w, r) ==
    /\ app' = [app EXCEPT ![a] = w]
    /\ w.state # "none" => \/ w.domain \in Domains /\ w.domain \notin Taken
                           \/ w.domain = app[a].domain /\ app[a].state # "none"
    /\ flow' = [flow EXCEPT ![a] = r]
    /\ r.step \notin {"next", "sign"}
    /\ r.step # "idle" => /\ w.state \in {"pending", "pending_uninstall"}
                          /\ r.site = a /\ r.domain = w.domain

LEMMA ShapeReloaded ==
    ASSUME Shape, Reloaded, UNCHANGED <<provider, user, host, key, cert, conf, mishap, late>>,
           renewed' \in BOOLEAN, app' \in AppRows, AppsApart', FlowsRight'
    PROVE  Shape'
<1>1. /\ loaded' \in [Sites -> Served] /\ loaded'[Admin].domain \in {Admin, NoDomain}
      /\ loaded'[Admin].pair # "none" => loaded'[Admin].domain = Admin
  BY ReloadTypes
<1>2. CertTypes'
  BY <1>1 DEF Shape, CertTypes, CertTypeOK, AppRows, CertAppRow
<1>3. KeysFit' /\ AdminAtHome'
  BY <1>1 DEF Shape, KeysFit, AdminAtHome
<1> QED BY <1>2, <1>3 DEF Shape

(* What nginx serves afterwards is what is configured. *)
LEMMA ServingReloaded ==
    ASSUME Shape, FilesFit, Reloaded, UNCHANGED <<user, host, key, cert, conf, mishap, late>>,
           ~mishap /\ ~late => \A s \in Sites : Current(s)' =>
                         Own(s)' = Own(s) /\ Own(s) \in Names /\ Good(s) /\ Good(s)',
           ~mishap /\ ~late => InstallsGood'
    PROVE  Serving'
<1> SUFFICES ASSUME ~mishap, ~late
             PROVE  (\A s \in Sites : SiteFits(s)') /\ InstallsGood'
  BY DEF Serving
<1>1. ASSUME NEW s \in Sites, Current(s)'
      PROVE  Good(s)' /\ InSync(s)' /\ ServedWell(s)'
  BY <1>1, ReloadServes
<1> QED BY <1>1 DEF SiteFits

LEMMA SitesGood ==
    ASSUME Shape, Serving, ~mishap, ~late
    PROVE  /\ InstallsGood
           /\ \A s \in Sites : Current(s) => Good(s) /\ Own(s) \in Names
BY CertNames DEF Serving, SiteFits, Shape, AppsApart, Own, Current

LEMMA RenewalReloadsKeeps ==
    ASSUME CertInv, RenewalReloads
    PROVE  CertInv'
<1>0. Shape /\ FilesFit /\ Serving
  BY DEF CertInv
<1>1. /\ flow["renewal"].step = "reload" /\ "renewal" \in Flows /\ Reloaded /\ Continue
      /\ UNCHANGED <<provider, user, host, key, cert, app, conf, mishap, late>>
  BY CertNames DEF RenewalReloads, At, files
<1>2. FlowsRight' /\ renewed' \in BOOLEAN /\ \A g \in Flows : g # "renewal" => flow'[g] = flow[g]
  BY <1>0, <1>1, Continues
<1>3. Shape'
  <2>1. app' \in AppRows /\ AppsApart'
    BY <1>0, <1>1 DEF AppRows, CertAppRow, Shape, CertTypes, CertTypeOK, AppsApart
  <2> QED BY <1>0, <1>1, <1>2, <2>1, ShapeReloaded
<1>4. FilesFit'
  BY <1>0, <1>1, FilesKept
<1>5. ASSUME ~mishap, ~late, NEW s \in Sites, Current(s)'
      PROVE  Own(s)' = Own(s) /\ Own(s) \in Names /\ Good(s) /\ Good(s)'
  <2>1. Own(s)' = Own(s) /\ Current(s)
    BY <1>1, <1>5 DEF Own, Current
  <2>2. Good(s) /\ Own(s) \in Names
    BY <1>0, <1>5, <2>1, SitesGood
  <2> QED BY <1>0, <1>1, <2>1, <2>2, GoodContinues
<1>6. ~mishap /\ ~late => InstallsGood'
  <2>1. \A a \in Apps : flow'[a] = flow[a]
    BY <1>2, CertNames
  <2> QED BY <1>0, <1>1, <2>1, SitesGood DEF InstallsGood, ConfOwn, Own
<1>7. Serving'
  BY <1>0, <1>1, <1>5, <1>6, ServingReloaded
<1> QED BY <1>3, <1>4, <1>7 DEF CertInv

(* Someone else than the renewal and the tasks is done. *)
LEMMA OtherReloads ==
    ASSUME CertInv, NEW f \in {"webadmin", "request"}, Reloaded, Put(f, Idle),
           UNCHANGED <<provider, user, host, key, cert, app, conf, renewed, mishap, late>>
    PROVE  CertInv'
<1>0. Shape /\ FilesFit /\ Serving
  BY DEF CertInv
<1>1. f \in Flows /\ f \notin Apps /\ f # "renewal"
  BY CertNames
<1>2. Idle \in CertFlow /\ Idle.step = "idle"
  BY CertNames DEF CertFlow, CertSteps, Idle
<1>3. FlowRight(f, Idle)'
  BY <1>1, <1>2 DEF FlowRight
<1>4. FlowsRight' /\ \A g \in Flows : flow'[g] = IF g = f THEN Idle ELSE flow[g]
  BY <1>0, <1>1, <1>2, <1>3, FlowsPut DEF Shape
<1>5. Shape'
  <2>1. app' \in AppRows /\ AppsApart' /\ renewed' \in BOOLEAN
    BY <1>0 DEF AppRows, CertAppRow, Shape, CertTypes, CertTypeOK, AppsApart
  <2> QED BY <1>0, <1>4, <2>1, ShapeReloaded
<1>6. FilesFit'
  BY <1>0, FilesKept
<1>7. ASSUME ~mishap, ~late, NEW s \in Sites, Current(s)'
      PROVE  Own(s)' = Own(s) /\ Own(s) \in Names /\ Good(s) /\ Good(s)'
  <2>1. Own(s)' = Own(s) /\ Current(s)
    BY <1>7 DEF Own, Current
  <2>2. Good(s) /\ Own(s) \in Names
    BY <1>0, <1>7, <2>1, SitesGood
  <2>3. flow'["renewal"] = flow["renewal"]
    BY <1>1, <1>4, CertNames
  <2>4. Good(s)'
    BY <2>1, <2>2, <2>3 DEF Good, ConfOwn, UserPairExists, ToLookAt
  <2> QED BY <2>1, <2>2, <2>4
<1>8. ~mishap /\ ~late => InstallsGood'
  <2>1. \A a \in Apps : flow'[a] = flow[a]
    BY <1>1, <1>4, CertNames
  <2> QED BY <1>0, <2>1, SitesGood DEF InstallsGood, ConfOwn, Own
<1>9. Serving'
  BY <1>0, <1>7, <1>8, ServingReloaded
<1> QED BY <1>5, <1>6, <1>9 DEF CertInv

LEMMA WebadminReloadsKeeps ==
    ASSUME CertInv, WebadminReloads
    PROVE  CertInv'
BY OtherReloads DEF WebadminReloads, files

LEMMA RequestReloadsKeeps ==
    ASSUME CertInv, RequestReloads
    PROVE  CertInv'
BY OtherReloads DEF RequestReloads, files

(* The row of an app changes, and its task. *)
LEMMA AppPut ==
    ASSUME Shape, NEW a \in Apps, NEW w \in CertAppRow, NEW r \in CertFlow, SetsApp(a, w, r), UNCHANGED key
    PROVE  /\ app' \in AppRows /\ AppsApart' /\ FlowsRight' /\ app'[a] = w /\ flow'[a] = r
           /\ \A b \in Apps : b # a => app'[b] = app[b]
           /\ \A g \in Flows : g # a => flow'[g] = flow[g]
<1>1. app \in AppRows
  BY DEF Shape, CertTypes, CertTypeOK, AppRows, CertAppRow
<1>2. app' \in AppRows /\ \A b \in Apps : app'[b] = IF b = a THEN w ELSE app[b]
  BY <1>1 DEF AppRows, SetsApp
<1>a. w.state # "none" => \/ w.domain \in Domains /\ w.domain \notin Taken
                          \/ w.domain = app[a].domain /\ app[a].state # "none"
  BY DEF SetsApp
<1>3. AppsApart'
  <2>1. ASSUME NEW b \in Apps, app'[b].state # "none"
        PROVE  app'[b].domain \in Domains
    <3>1. CASE b = a
      <4>1. app'[b] = w
        BY <1>2, <3>1
      <4>2. app[a].state # "none" => app[a].domain \in Domains
        BY DEF Shape, AppsApart
      <4> QED BY <1>a, <2>1, <4>1, <4>2
    <3>2. CASE b # a
      BY <1>2, <2>1, <3>2 DEF Shape, AppsApart
    <3> QED BY <3>1, <3>2
  <2>2. ASSUME NEW b \in Apps, NEW c \in Apps, app'[b].state # "none", app'[c].state # "none",
               app'[b].domain = app'[c].domain
        PROVE  b = c
    <3>1. CASE b = a /\ c # a
      BY <1>2, <1>a, <2>2, <3>1 DEF Shape, AppsApart, Taken
    <3>2. CASE c = a /\ b # a
      BY <1>2, <1>a, <2>2, <3>2 DEF Shape, AppsApart, Taken
    <3>3. CASE b # a /\ c # a
      BY <1>2, <2>2, <3>3 DEF Shape, AppsApart
    <3> QED BY <3>1, <3>2, <3>3
  <2> QED BY <2>1, <2>2 DEF AppsApart
<1>4. a \in Flows /\ a \notin {"renewal", "webadmin", "request"}
  BY CertNames
<1>5. FlowRight(a, r)'
  <2>1. app'[a] = w
    BY <1>2
  <2>2. ASSUME r.step # "idle"
        PROVE  Pending(a)' /\ r.site = a /\ r.domain = app'[a].domain
    <3>1. w.state \in {"pending", "pending_uninstall"} /\ r.site = a /\ r.domain = w.domain
      BY <2>2 DEF SetsApp
    <3>2. app'[a].state = w.state /\ app'[a].domain = w.domain
      BY <2>1
    <3> QED BY <3>1, <3>2 DEF Pending
  <2>3. r.step # "sign" /\ r.step # "next"
    BY DEF SetsApp
  <2> QED BY <1>4, <2>2, <2>3 DEF FlowRight
<1>6. FlowsRight' /\ \A g \in Flows : flow'[g] = IF g = a THEN r ELSE flow[g]
  <2>1. Put(a, r)
    BY DEF Put, SetsApp
  <2>2. \A b \in Apps : b # a => app'[b] = app[b]
    BY <1>2
  <2>3. FlowsRight
    BY DEF Shape
  <2> QED BY <1>4, <1>5, <2>1, <2>2, <2>3, FlowsPut
<1> QED BY <1>2, <1>3, <1>4, <1>6

LEMMA AppKnows ==
    ASSUME Shape, NEW a \in Apps
    PROVE  /\ app[a] \in CertAppRow
           /\ a \in Sites /\ a \in Flows /\ a # Admin /\ flow[a] \in CertFlow
           /\ flow \in [Flows -> CertFlow] /\ app \in AppRows /\ conf \in [Sites -> Confs]
           /\ app[a].state # "none" => app[a].domain \in Domains
           /\ flow[a].step # "idle" => Pending(a) /\ flow[a].site = a /\ flow[a].domain = app[a].domain
           /\ flow[a].step # "next"
<1>1. a \in Flows /\ FlowRight(a, flow[a]) /\ flow[a] \in CertFlow
  BY CertNames DEF Shape, FlowsRight
<1>2. app \in AppRows /\ conf \in [Sites -> Confs] /\ flow \in [Flows -> CertFlow]
  BY DEF Shape, CertTypes, CertTypeOK, AppRows, CertAppRow, FlowsRight
<1> QED BY <1>1, <1>2, CertNames DEF AppRows, FlowRight, Shape, AppsApart

(* The state of an app changes. *)
LEMMA StateWritten ==
    ASSUME Shape, NEW a \in Apps,
           NEW st \in {"none", "pending", "pending_uninstall", "installed", "error"}
    PROVE  \E w \in CertAppRow :
             w.state = st /\ w.domain = app[a].domain /\ w = [app[a] EXCEPT !.state = st]
<1>1. PICK v \in CertAppRow : v = app[a]
  BY AppKnows
<1>2. /\ [v EXCEPT !.state = st] \in CertAppRow
      /\ [v EXCEPT !.state = st].state = st /\ [v EXCEPT !.state = st].domain = v.domain
  BY DEF CertAppRow
<1> QED BY <1>1, <1>2

(* The task of an app is done when nginx has been told. *)
LEMMA TaskReloadsKeeps ==
    ASSUME CertInv, NEW a \in Apps, TaskReloads(a)
    PROVE  CertInv'
<1>0. Shape /\ FilesFit /\ Serving
  BY DEF CertInv
<1>1. /\ flow[a].step = "reload" /\ Reloaded /\ Put(a, Idle)
      /\ app' = [app EXCEPT ![a].state = IF reload THEN "installed" ELSE "error"]
      /\ UNCHANGED <<provider, user, host, key, cert, conf, renewed, mishap, late>>
  BY DEF TaskReloads, At, files
<1>2. Pending(a) /\ app[a].domain \in Domains /\ a \in Sites /\ a # Admin /\ a \in Flows
  BY <1>0, <1>1, AppKnows DEF Pending
<1>3. PICK w \in CertAppRow :
         /\ w.state \in {"installed", "error"} /\ w.domain = app[a].domain
         /\ app' = [app EXCEPT ![a] = w]
  BY <1>0, <1>1, StateWritten
<1>4. /\ app' \in AppRows /\ AppsApart' /\ FlowsRight' /\ app'[a] = w /\ flow'[a] = Idle
      /\ \A b \in Apps : b # a => app'[b] = app[b]
      /\ \A g \in Flows : g # a => flow'[g] = flow[g]
  <2>1. flow' = [flow EXCEPT ![a] = Idle]
    BY <1>1 DEF Put
  <2>2. w.domain = app[a].domain /\ app[a].state # "none"
    BY <1>2, <1>3 DEF Pending
  <2>3. SetsApp(a, w, Idle)
    BY <1>3, <2>1, <2>2, IdleTyped DEF SetsApp
  <2> QED BY <1>0, <1>1, <2>3, IdleTyped, AppPut
<1>5. Shape'
  <2>1. renewed' \in BOOLEAN
    BY <1>0, <1>1 DEF Shape, CertTypes
  <2> QED BY <1>0, <1>1, <1>4, <2>1, ShapeReloaded
<1>6. FilesFit'
  BY <1>0, <1>1, FilesKept
<1>7. \A s \in Sites : Own(s)' = Own(s)
  BY <1>3, <1>4, CertNames DEF Own
<1>8. flow'["renewal"] = flow["renewal"]
  BY <1>4, CertNames
<1>9. ASSUME ~mishap, ~late, NEW s \in Sites, Current(s)'
      PROVE  Own(s)' = Own(s) /\ Own(s) \in Names /\ Good(s) /\ Good(s)'
  <2>1. Good(s) /\ Own(s) \in Names
    <3>1. CASE s = a
      <4>1. Own(a) \in Names
        BY <1>2, CertNames DEF Own
      <4>2. ConfOwn(a) => cert[Own(a)].left >= 2
        BY <1>0, <1>1, <1>9, SitesGood DEF InstallsGood
      <4> QED BY <3>1, <4>1, <4>2 DEF Good
    <3>2. CASE s # a
      <4>1. Current(s)
        BY <1>4, <1>9, <3>2, CertNames DEF Current
      <4> QED BY <1>0, <1>9, <4>1, SitesGood
    <3> QED BY <3>1, <3>2
  <2>2. Good(s)'
    BY <1>1, <1>7, <1>8, <2>1 DEF Good, ConfOwn, UserPairExists, ToLookAt
  <2> QED BY <1>7, <2>1, <2>2
<1>10. ~mishap /\ ~late => InstallsGood'
  <2> SUFFICES ASSUME ~mishap, ~late, NEW b \in Apps, flow'[b].step = "reload", ConfOwn(b)'
               PROVE  cert'[Own(b)'].left >= 2
    BY DEF InstallsGood
  <2>1. b # a /\ b \in Flows /\ b \in Sites
    BY <1>4, IdleTyped, CertNames
  <2>2. flow'[b] = flow[b] /\ Own(b)' = Own(b) /\ (ConfOwn(b)' = ConfOwn(b))
    BY <1>1, <1>4, <1>7, <2>1 DEF ConfOwn
  <2> QED BY <1>0, <1>1, <2>2, SitesGood DEF InstallsGood
<1>11. Serving'
  BY <1>0, <1>1, <1>9, <1>10, ServingReloaded
<1> QED BY <1>5, <1>6, <1>11 DEF CertInv

LEMMA UnconfiguredKeeps ==
    ASSUME CertInv, NEW a \in Apps, Unconfigured(a)
    PROVE  CertInv'
<1>0. Shape /\ FilesFit /\ Serving
  BY DEF CertInv
<1>1. /\ flow[a].step = "unconfigure" /\ Reloaded
      /\ UNCHANGED <<provider, user, host, key, cert, conf, renewed, mishap, late>>
  BY DEF Unconfigured, At, files
<1>2. /\ Pending(a) /\ flow[a].site = a /\ flow[a].domain = app[a].domain /\ app[a].domain \in Domains
      /\ a \in Sites /\ a # Admin /\ a \in Flows
  BY <1>0, <1>1, AppKnows DEF Pending
<1>3. PICK w \in CertAppRow, r \in CertFlow :
         /\ app' = [app EXCEPT ![a] = w] /\ flow' = [flow EXCEPT ![a] = r]
         /\ w.domain = app[a].domain /\ w.state # "none" /\ w.state # "installed"
         /\ reload => w = app[a]
         /\ \/ r.step = "idle"
            \/ w = app[a] /\ r.step = "unconfigured" /\ r.site = a /\ r.domain = app[a].domain
  <2>1. CASE reload
    <3>1. PICK q \in CertFlow : q = flow[a]
      BY <1>0, AppKnows
    <3>2. PICK r \in CertFlow : r = [q EXCEPT !.step = "unconfigured"]
      BY DEF CertFlow, CertSteps
    <3>3. r.step = "unconfigured" /\ r.site = a /\ r.domain = app[a].domain
      BY <1>2, <3>1, <3>2 DEF CertFlow
    <3>4. flow' = [flow EXCEPT ![a] = r] /\ UNCHANGED app
      BY <2>1, <3>1, <3>2 DEF Unconfigured, Step, Put
    <3>5. app = [app EXCEPT ![a] = app[a]]
      BY <1>0, AppKnows DEF AppRows
    <3>6. /\ app[a].state # "none" /\ app[a].state # "installed"
          /\ app[a] \in CertAppRow
      BY <1>0, <1>2, AppKnows DEF Pending
    <3> QED BY <3>3, <3>4, <3>5, <3>6
  <2>2. CASE ~reload
    <3>1. flow' = [flow EXCEPT ![a] = Idle] /\ app' = [app EXCEPT ![a].state = "error"]
      BY <2>2 DEF Unconfigured, Put
    <3>2. PICK w \in CertAppRow :
             w.state = "error" /\ w.domain = app[a].domain /\ w = [app[a] EXCEPT !.state = "error"]
      BY <1>0, StateWritten
    <3>3. app' = [app EXCEPT ![a] = w]
      BY <3>1, <3>2
    <3> QED BY <2>2, <3>1, <3>2, <3>3, IdleTyped
  <2> QED BY <2>1, <2>2
<1>4. /\ app' \in AppRows /\ AppsApart' /\ FlowsRight' /\ app'[a] = w /\ flow'[a] = r
      /\ \A b \in Apps : b # a => app'[b] = app[b]
      /\ \A g \in Flows : g # a => flow'[g] = flow[g]
  <2>1. w.domain = app[a].domain /\ app[a].state # "none"
    BY <1>2, <1>3 DEF Pending
  <2>2. r.step \notin {"next", "sign"}
    BY <1>3
  <2>3. r.step # "idle" => /\ w.state \in {"pending", "pending_uninstall"}
                           /\ r.site = a /\ r.domain = w.domain
    BY <1>2, <1>3 DEF Pending
  <2>4. SetsApp(a, w, r)
    BY <1>3, <2>1, <2>2, <2>3 DEF SetsApp
  <2> QED BY <1>0, <1>1, <2>4, AppPut
<1>5. Shape'
  <2>1. renewed' \in BOOLEAN
    BY <1>0, <1>1 DEF Shape, CertTypes
  <2> QED BY <1>0, <1>1, <1>4, <2>1, ShapeReloaded
<1>6. FilesFit'
  BY <1>0, <1>1, FilesKept
<1>7. \A s \in Sites : Own(s)' = Own(s)
  BY <1>3, <1>4, CertNames DEF Own
<1>8. flow'["renewal"] = flow["renewal"]
  BY <1>4, CertNames
<1>9. ASSUME ~mishap, ~late, NEW s \in Sites, Current(s)'
      PROVE  Own(s)' = Own(s) /\ Own(s) \in Names /\ Good(s) /\ Good(s)'
  <2>1. Current(s)
    BY <1>3, <1>4, <1>9, CertNames DEF Current
  <2>2. Good(s) /\ Own(s) \in Names
    BY <1>0, <1>9, <2>1, SitesGood
  <2>3. Good(s)'
    BY <1>1, <1>7, <1>8, <2>2 DEF Good, ConfOwn, UserPairExists, ToLookAt
  <2> QED BY <1>7, <2>2, <2>3
<1>10. ~mishap /\ ~late => InstallsGood'
  <2> SUFFICES ASSUME ~mishap, ~late, NEW b \in Apps, flow'[b].step = "reload", ConfOwn(b)'
               PROVE  cert'[Own(b)'].left >= 2
    BY DEF InstallsGood
  <2>1. b # a /\ b \in Flows /\ b \in Sites
    BY <1>3, <1>4, CertNames
  <2>2. flow'[b] = flow[b] /\ Own(b)' = Own(b) /\ (ConfOwn(b)' = ConfOwn(b))
    BY <1>1, <1>4, <1>7, <2>1 DEF ConfOwn
  <2> QED BY <1>0, <1>1, <2>2, SitesGood DEF InstallsGood
<1>11. Serving'
  BY <1>0, <1>1, <1>9, <1>10, ServingReloaded
<1> QED BY <1>5, <1>6, <1>11 DEF CertInv

-----------------------------------------------------------------------------
(* Commands and tasks of an app that is not installed afterwards. *)
LEMMA AppKeeps ==
    ASSUME CertInv, NEW a \in Apps,
           NEW w \in CertAppRow, w.state # "installed", NEW r \in CertFlow, r.step # "reload",
           SetsApp(a, w, r),
           UNCHANGED <<provider, host, key, cert, loaded, renewed>>,
           user' \in [Names -> {"none", "pair", "torn", "half"}],
           mishap' \in BOOLEAN, mishap => mishap', late' \in BOOLEAN, late => late',
           conf' \in [Sites -> Confs], \A s \in Sites : s # a => conf'[s] = conf[s],
           conf'[a] \in {conf[a], NoConf},
           ~mishap' => \A d \in Names : user'[d] \in {"none", "pair"},
           ~mishap' => \A s \in Sites : conf[s].pair = "user" => user'[conf[s].domain] = "pair",
           \A s \in Sites : s # a /\ Current(s) /\ UserPairExists(Own(s)) => user'[Own(s)] \in {"pair", "torn"}
    PROVE  CertInv'
<1>0. Shape /\ FilesFit /\ Serving
  BY DEF CertInv
<1>1. /\ app' \in AppRows /\ AppsApart' /\ FlowsRight' /\ app'[a] = w /\ flow'[a] = r
      /\ \A b \in Apps : b # a => app'[b] = app[b]
      /\ \A g \in Flows : g # a => flow'[g] = flow[g]
  <2>1. UNCHANGED key
    OBVIOUS
  <2> QED BY <1>0, <2>1, AppPut
<1>2. Shape'
  <2>1. CertTypes'
    BY <1>0, <1>1 DEF Shape, CertTypes, CertTypeOK, AppRows, CertAppRow
  <2>2. KeysFit'
    BY <1>0 DEF Shape, KeysFit
  <2>3. conf'[Admin] = conf[Admin]
    BY CertNames
  <2>4. AdminAtHome'
    BY <1>0, <2>3 DEF Shape, AdminAtHome
  <2> QED BY <1>1, <2>1, <2>2, <2>4 DEF Shape
<1>3. FilesFit'
  <2> SUFFICES ASSUME ~mishap' PROVE \A s \in Sites : Loads(conf[s])'
    BY <1>0 DEF FilesFit
  <2> TAKE s \in Sites
  <2>1. Loads(conf[s])
    BY <1>0 DEF FilesFit
  <2>2. CASE conf'[s] = NoConf
    BY <2>2 DEF Loads, NoConf
  <2>3. CASE conf'[s] = conf[s]
    <3>1. conf[s].pair = "user" => user'[conf[s].domain] = "pair"
      OBVIOUS
    <3>2. conf[s].pair \in {"none", "user", "auto", "host"}
      BY <1>0, ConfTyped DEF Shape
    <3> QED BY <2>1, <2>3, <3>1, <3>2 DEF Loads
  <2> QED BY <2>2, <2>3
<1>4. Serving'
  <2>1. app'[a].state # "installed" /\ flow'[a].step # "reload"
    BY <1>1
  <2>2. ASSUME NEW s \in Sites, s # a, Current(s), UserPairExists(Own(s))
        PROVE  UserPairExists(Own(s))'
    <3>1. Own(s)' = Own(s)
      BY <1>1, <2>2, CertNames DEF Own
    <3> QED BY <2>2, <3>1 DEF UserPairExists
  <2>3. UNCHANGED <<cert, loaded, renewed>>
    OBVIOUS
  <2> QED BY <1>0, <1>1, <2>1, <2>2, <2>3, ServingApart
<1> QED BY <1>2, <1>3, <1>4 DEF CertInv

(* Neither the files of the user nor the configurations change. *)
LEMMA RowKeeps ==
    ASSUME CertInv, NEW a \in Apps,
           NEW w \in CertAppRow, w.state # "installed", NEW r \in CertFlow, r.step # "reload",
           SetsApp(a, w, r),
           UNCHANGED <<provider, user, host, key, cert, loaded, renewed, mishap, late>>,
           conf' \in [Sites -> Confs], \A s \in Sites : s # a => conf'[s] = conf[s],
           conf'[a] \in {conf[a], NoConf}
    PROVE  CertInv'
<1>1. user' \in [Names -> {"none", "pair", "torn", "half"}] /\ mishap' \in BOOLEAN
  BY DEF CertInv, Shape, CertTypes, CertTypeOK
<1>2. ~mishap' => \A d \in Names : user'[d] \in {"none", "pair"}
  BY DEF CertInv, FilesFit
<1>3. ~mishap' => \A s \in Sites : conf[s].pair = "user" => user'[conf[s].domain] = "pair"
  BY DEF CertInv, FilesFit, Loads
<1>4. \A s \in Sites : s # a /\ Current(s) /\ UserPairExists(Own(s)) => user'[Own(s)] \in {"pair", "torn"}
  BY DEF UserPairExists
<1>5. /\ UNCHANGED <<provider, host, key, cert, loaded, renewed>> /\ (mishap => mishap')
      /\ late' \in BOOLEAN /\ (late => late')
  BY DEF CertInv, Shape, CertTypes
<1> QED BY <1>1, <1>2, <1>3, <1>4, <1>5, AppKeeps

LEMMA InstallKeepsCert ==
    ASSUME CertInv, NEW a \in Apps, NEW d \in Domains, Install(a, d)
    PROVE  CertInv'
<1>0. Shape
  BY DEF CertInv
<1>1. /\ app[a].state = "none" /\ d \notin Taken
      /\ app' = [app EXCEPT ![a] = [state |-> "pending", domain |-> d]]
      /\ UNCHANGED <<provider, user, host, key, cert, conf, loaded, flow, renewed, mishap, late>>
  BY DEF Install, files, serving
<1>2. PICK w \in CertAppRow : w = [state |-> "pending", domain |-> d]
  BY DEF CertAppRow
<1>3. PICK r \in CertFlow : r = flow[a]
  BY <1>0, AppKnows
<1>4. r.step = "idle"
  BY <1>0, <1>1, <1>3, AppKnows DEF Pending
<1>5. flow' = [flow EXCEPT ![a] = r]
  BY <1>0, <1>1, <1>3, AppKnows
<1>6. conf' \in [Sites -> Confs]
  BY <1>0, <1>1, AppKnows
<1>7. SetsApp(a, w, r) /\ w.state # "installed"
  BY <1>1, <1>2, <1>4, <1>5 DEF SetsApp
<1> QED BY <1>1, <1>4, <1>6, <1>7, RowKeeps

LEMMA ConfigureCommandKeeps ==
    ASSUME CertInv, NEW a \in Apps, NEW d \in Domains, ConfigureCommand(a, d)
    PROVE  CertInv'
<1>0. Shape
  BY DEF CertInv
<1>1. /\ app[a].state # "none" /\ (d = app[a].domain \/ d \notin Taken)
      /\ app' = [app EXCEPT ![a] = [state |-> "pending", domain |-> d]]
      /\ flow' = [flow EXCEPT ![a] = Idle]
      /\ UNCHANGED <<provider, user, host, key, cert, conf, loaded, renewed, mishap, late>>
  BY DEF ConfigureCommand, CanConfigure, Put, files, serving
<1>2. PICK w \in CertAppRow : w = [state |-> "pending", domain |-> d]
  BY DEF CertAppRow
<1>3. conf' \in [Sites -> Confs]
  BY <1>0, <1>1, AppKnows
<1>4. w.state = "pending" /\ w.domain = d /\ app' = [app EXCEPT ![a] = w]
  BY <1>1, <1>2
<1>5. (w.domain = app[a].domain /\ app[a].state # "none") \/ w.domain \notin Taken
  BY <1>1, <1>4
<1>6. SetsApp(a, w, Idle)
  BY <1>1, <1>4, <1>5, IdleTyped DEF SetsApp
<1> QED BY <1>1, <1>3, <1>4, <1>6, IdleTyped, RowKeeps

LEMMA UninstallKeepsCert ==
    ASSUME CertInv, NEW a \in Apps, Uninstall(a)
    PROVE  CertInv'
<1>0. Shape
  BY DEF CertInv
<1>1. /\ app[a].state # "none" /\ app' = [app EXCEPT ![a].state = "pending_uninstall"]
      /\ flow' = [flow EXCEPT ![a] = Idle]
      /\ UNCHANGED <<provider, user, host, key, cert, conf, loaded, renewed, mishap, late>>
  BY DEF Uninstall, Put, files, serving
<1>2. PICK w \in CertAppRow :
         /\ w.state = "pending_uninstall" /\ w.domain = app[a].domain
         /\ w = [app[a] EXCEPT !.state = "pending_uninstall"]
  BY <1>0, StateWritten
<1>3. app' = [app EXCEPT ![a] = w]
  BY <1>1, <1>2
<1>4. conf' \in [Sites -> Confs] /\ w.domain \in Domains
  BY <1>0, <1>1, <1>2, AppKnows
<1>5. SetsApp(a, w, Idle)
  BY <1>1, <1>2, <1>3, IdleTyped DEF SetsApp
<1> QED BY <1>1, <1>2, <1>4, <1>5, IdleTyped, RowKeeps

LEMMA UnconfigureKeeps ==
    ASSUME CertInv, NEW a \in Apps, Unconfigure(a)
    PROVE  CertInv'
<1>0. Shape
  BY DEF CertInv
<1>1. /\ Pending(a) /\ conf' = [conf EXCEPT ![a] = NoConf]
      /\ UNCHANGED <<provider, user, host, key, cert, app, loaded, renewed, mishap, late>>
  BY DEF Unconfigure, files
<1>2. PICK w \in CertAppRow : w = app[a]
  BY <1>0, AppKnows
<1>3. app' = [app EXCEPT ![a] = w]
  BY <1>0, <1>1, <1>2, AppKnows DEF AppRows
<1>4. /\ w.state \in {"pending", "pending_uninstall"} /\ w.domain \in Domains
      /\ a \in Sites /\ app[a].state # "none"
  BY <1>0, <1>1, <1>2, AppKnows DEF Pending
<1>5. PICK st \in {"unconfigure", "unconfigured"} :
         flow' = [flow EXCEPT ![a] = [Idle EXCEPT !.step = st, !.site = a, !.domain = app[a].domain]]
  BY DEF Unconfigure, Put
<1>6. PICK d \in Domains : d = app[a].domain
  BY <1>2, <1>4
<1>7. PICK r : r = [Idle EXCEPT !.step = st, !.site = a, !.domain = d]
  OBVIOUS
<1>8. r \in CertFlow /\ r.step = st /\ r.site = a /\ r.domain = d
  <2>1. PICK i \in CertFlow : i = Idle
    BY IdleTyped
  <2>2. r = [i EXCEPT !.step = st, !.site = a, !.domain = d]
    BY <1>7, <2>1
  <2>3. st \in CertSteps /\ a \in Sites /\ d \in Names \cup {NoDomain}
    BY <1>4, CertNames DEF CertSteps
  <2> QED BY <2>2, <2>3 DEF CertFlow
<1>9. flow' = [flow EXCEPT ![a] = r]
  BY <1>5, <1>6, <1>7
<1>10. /\ conf' \in [Sites -> Confs] /\ conf'[a] = NoConf
       /\ \A s \in Sites : s # a => conf'[s] = conf[s]
  <2>1. NoConf \in Confs /\ conf \in [Sites -> Confs]
    BY <1>0, AppKnows DEF Confs
  <2> QED BY <1>1, <1>4, <2>1
<1>11. w.domain = app[a].domain /\ r.domain = w.domain /\ w.state # "installed"
  BY <1>2, <1>4, <1>6, <1>8
<1>12. r.step \notin {"next", "sign", "reload"}
  BY <1>8
<1>13. SetsApp(a, w, r)
  BY <1>3, <1>4, <1>8, <1>9, <1>11, <1>12 DEF SetsApp
<1> QED BY <1>1, <1>8, <1>10, <1>11, <1>12, <1>13, RowKeeps

LEMMA TaskGoesOnKeeps ==
    ASSUME CertInv, NEW a \in Apps, TaskGoesOn(a)
    PROVE  CertInv'
<1>0. Shape
  BY DEF CertInv
<1>1. /\ flow[a].step = "unconfigured"
      /\ UNCHANGED <<provider, user, host, key, cert, conf, loaded, renewed, mishap, late>>
  BY DEF TaskGoesOn, At, files, serving
<1>2. /\ Pending(a) /\ flow[a].site = a /\ flow[a].domain = app[a].domain /\ app[a].domain \in Domains
      /\ app[a].state # "none" /\ app[a].state # "installed" /\ conf' \in [Sites -> Confs]
  BY <1>0, <1>1, AppKnows DEF Pending
<1>3. CASE app[a].state = "pending" /\ Step(a, "ensure") /\ UNCHANGED app
  <2>1. PICK q \in CertFlow : q = flow[a]
    BY <1>0, AppKnows
  <2>2. PICK r \in CertFlow : r = [q EXCEPT !.step = "ensure"]
    BY DEF CertFlow, CertSteps
  <2>3. r.step = "ensure" /\ r.site = a /\ r.domain = app[a].domain
    BY <1>2, <2>1, <2>2 DEF CertFlow
  <2>4. flow' = [flow EXCEPT ![a] = r]
    BY <1>3, <2>1, <2>2 DEF Step, Put
  <2>5. PICK w \in CertAppRow : w = app[a]
    BY <1>0, AppKnows
  <2>6. app' = [app EXCEPT ![a] = w]
    BY <1>0, <1>3, <2>5, AppKnows DEF AppRows
  <2>7. SetsApp(a, w, r)
    BY <1>2, <1>3, <2>3, <2>4, <2>5, <2>6 DEF SetsApp
  <2> QED BY <1>1, <1>2, <2>3, <2>5, <2>7, RowKeeps
<1>4. CASE Put(a, Idle) /\ app' = [app EXCEPT ![a] = [state |-> "none", domain |-> NoDomain]]
  <2>1. PICK w \in CertAppRow : w = [state |-> "none", domain |-> NoDomain]
    BY DEF CertAppRow
  <2>2. flow' = [flow EXCEPT ![a] = Idle]
    BY <1>4 DEF Put
  <2>3. SetsApp(a, w, Idle)
    BY <1>4, <2>1, <2>2, IdleTyped DEF SetsApp
  <2> QED BY <1>1, <1>2, <2>1, <2>3, IdleTyped, RowKeeps
<1>5. CASE Put(a, Idle) /\ app' = [app EXCEPT ![a].state = "error"]
  <2>1. PICK w \in CertAppRow :
           w.state = "error" /\ w.domain = app[a].domain /\ w = [app[a] EXCEPT !.state = "error"]
    BY <1>0, StateWritten
  <2>2. app' = [app EXCEPT ![a] = w] /\ flow' = [flow EXCEPT ![a] = Idle]
    BY <1>5, <2>1 DEF Put
  <2>3. SetsApp(a, w, Idle)
    BY <1>2, <2>1, <2>2, IdleTyped DEF SetsApp
  <2> QED BY <1>1, <1>2, <2>1, <2>3, IdleTyped, RowKeeps
<1> QED BY <1>3, <1>4, <1>5 DEF TaskGoesOn

-----------------------------------------------------------------------------
(* The files of the user. *)

LEMMA MishapKeeps ==
    ASSUME Shape, mishap' = TRUE, user' \in [Names -> {"none", "pair", "torn", "half"}],
           host' \in [kept : {"pair", "torn"}, used : {"pair", "torn"}],
           late' \in BOOLEAN, UNCHANGED <<provider, key, cert, app, conf, loaded, flow, renewed>>
    PROVE  CertInv'
<1>1. FlowsRight'
  BY DEF Shape, FlowsRight, FlowRight, Belongs, Pending
<1>2. Shape'
  BY <1>1 DEF Shape, CertTypes, CertTypeOK, AppsApart, KeysFit, AdminAtHome
<1> QED BY <1>2 DEF CertInv, FilesFit, Serving

LEMMA UserFiles ==
    ASSUME CertInv, NEW d \in Names, NEW files2 \in {"none", "pair", "torn", "half"},
           user' = [user EXCEPT ![d] = files2]
    PROVE  /\ user' \in [Names -> {"none", "pair", "torn", "half"}]
           /\ user'[d] = files2 /\ \A e \in Names : e # d => user'[e] = user[e]
           /\ ~mishap => \A e \in Names : user[e] \in {"none", "pair"}
           /\ \A s \in Sites : conf[s].pair = "user" =>
                /\ conf[s].domain \in Names
                /\ ~mishap => user[conf[s].domain] = "pair"
<1>1. user \in [Names -> {"none", "pair", "torn", "half"}]
  BY DEF CertInv, Shape, CertTypes, CertTypeOK
<1>2. ~mishap => \A e \in Names : user[e] \in {"none", "pair"}
  BY DEF CertInv, FilesFit
<1>3. \A s \in Sites : conf[s].pair = "user" =>
        /\ conf[s].domain \in Names
        /\ ~mishap => user[conf[s].domain] = "pair"
  BY ConfTyped DEF CertInv, Shape, FilesFit, Loads
<1> QED BY <1>1, <1>2, <1>3

(* Files are written or go, and nothing else happens. *)
LEMMA FilesChange ==
    ASSUME CertInv, user' \in [Names -> {"none", "pair", "torn", "half"}],
           mishap' \in BOOLEAN, mishap => mishap', late' \in BOOLEAN, late => late',
           UNCHANGED <<provider, host, key, cert, app, conf, loaded, flow, renewed>>,
           ~mishap' => \A d \in Names : user'[d] \in {"none", "pair"},
           ~mishap' => \A s \in Sites : conf[s].pair = "user" => user'[conf[s].domain] = "pair",
           ~late' => \A s \in Sites : Current(s) /\ UserPairExists(Own(s)) =>
                        user'[Own(s)] \in {"pair", "torn"} \/ ~Uncovers(s, Own(s))
    PROVE  CertInv'
<1>0. Shape /\ FilesFit /\ Serving
  BY DEF CertInv
<1>1. FlowsRight'
  BY <1>0 DEF Shape, FlowsRight, FlowRight, Belongs, Pending
<1>2. Shape'
  BY <1>0, <1>1 DEF Shape, CertTypes, CertTypeOK, AppsApart, KeysFit, AdminAtHome
<1>3. FilesFit'
  <2> SUFFICES ASSUME ~mishap', NEW s \in Sites PROVE Loads(conf[s])'
    BY <1>0 DEF FilesFit
  <2>1. Loads(conf[s])
    BY <1>0 DEF FilesFit
  <2>2. conf[s].pair \in {"none", "user", "auto", "host"}
    BY <1>0, ConfTyped DEF Shape
  <2> QED BY <2>1, <2>2 DEF Loads
<1>4. Serving'
  <2> SUFFICES ASSUME ~mishap', ~late'
               PROVE  (\A s \in Sites : SiteFits(s)') /\ InstallsGood'
    BY DEF Serving
  <2>1. (\A s \in Sites : SiteFits(s)) /\ InstallsGood
    BY <1>0 DEF Serving
  <2>2. ASSUME NEW s \in Sites
        PROVE  SiteFits(s)'
    <3>1. /\ Own(s)' = Own(s) /\ Current(s)' = Current(s) /\ ConfOwn(s)' = ConfOwn(s)
          /\ ToLookAt(s)' = ToLookAt(s) /\ ToReload' = ToReload
      BY DEF Own, Current, ConfOwn, ToLookAt, ToReload
    <3> SUFFICES ASSUME Current(s)
                 PROVE  Good(s)' /\ InSync(s)' /\ ServedWell(s)'
      BY <3>1 DEF SiteFits
    <3>2. Good(s) /\ InSync(s) /\ ServedWell(s) /\ Own(s) \in Names
      BY <1>0, <2>1, CertNames DEF SiteFits, Shape, AppsApart, Own, Current
    <3>3. UserPairExists(Own(s)) => UserPairExists(Own(s))' \/ ~Uncovers(s, Own(s))
      BY <3>1 DEF UserPairExists
    <3>4. Good(s)'
      <4> SUFFICES ASSUME ConfOwn(s), ~UserPairExists(Own(s))', UserPairExists(Own(s))
                   PROVE  cert[Own(s)].left >= 2
        BY <3>1, <3>2 DEF Good
      <4>1. conf[s] \in [domain : Names, pair : {"user", "auto", "host"}]
        BY <1>0 DEF ConfOwn, Shape, CertTypes, CertTypeOK, Confs, NoConf
      <4>2. conf[s] = [domain |-> Own(s), pair |-> "auto"]
        BY <4>1 DEF ConfOwn
      <4>3. ~IsExpiring(Own(s), Day)
        BY <3>3, <4>2 DEF Uncovers
      <4>4. cert[Own(s)].left \in 0..3
        BY <3>2, CertsTyped
      <4> QED BY <4>3, <4>4 DEF IsExpiring, Day
    <3>5. InSync(s)'
      BY <3>1, <3>2 DEF InSync
    <3>6. ServedWell(s)'
      <4> SUFFICES ASSUME loaded[s].pair = "auto", loaded[s].domain = Own(s),
                          ~UserPairExists(Own(s))', UserPairExists(Own(s))
                   PROVE  loaded[s].left # Expired
        BY <3>1, <3>2 DEF ServedWell
      <4>1. ~(loaded[s].left <= Day)
        BY <3>3 DEF Uncovers
      <4> QED BY <4>1 DEF Day, Expired
    <3> QED BY <3>4, <3>5, <3>6
  <2>3. InstallsGood'
    BY <2>1 DEF InstallsGood, ConfOwn, Own
  <2> QED BY <2>2, <2>3
<1> QED BY <1>2, <1>3, <1>4 DEF CertInv

(* A command that brings files, or takes them away, is accepted. *)
LEMMA AcceptsKeeps ==
    ASSUME CertInv, NEW a \in Apps, NEW l \in Domains, NEW d \in Domains, AcceptsFiles(a, l, d),
           NEW files2 \in {"none", "pair", "torn", "half"}, user' = [user EXCEPT ![l] = files2],
           UNCHANGED <<provider, host, key, cert, conf, loaded, renewed>>,
           mishap' \in BOOLEAN, mishap => mishap', late' \in BOOLEAN, late => late',
           ~mishap' => files2 \in {"none", "pair"},
           ~mishap' => \A s \in Sites : conf[s].pair = "user" => user'[conf[s].domain] = "pair"
    PROVE  CertInv'
<1>0. Shape
  BY DEF CertInv
<1>1. /\ app[a].state # "none" /\ flow' = [flow EXCEPT ![a] = Idle]
      /\ app' = [app EXCEPT ![a] = [state |-> "pending", domain |-> d]]
      /\ \A b \in Apps \ {a} : app[b].state # "none" => app[b].domain \notin {l, d}
  BY DEF AcceptsFiles, CanConfigure, Put
<1>2. PICK w \in CertAppRow : w = [state |-> "pending", domain |-> d]
  BY DEF CertAppRow
<1>3. w.state = "pending" /\ w.domain = d /\ app' = [app EXCEPT ![a] = w]
  BY <1>1, <1>2
<1>4. (w.domain = app[a].domain /\ app[a].state # "none") \/ w.domain \notin Taken
  BY <1>1, <1>3 DEF Taken
<1>5. SetsApp(a, w, Idle)
  BY <1>1, <1>3, <1>4, IdleTyped DEF SetsApp
<1>6. l \in Names /\ l # Admin
  BY CertNames
<1>7. /\ user' \in [Names -> {"none", "pair", "torn", "half"}]
      /\ \A e \in Names : e # l => user'[e] = user[e]
      /\ ~mishap' => \A e \in Names : user'[e] \in {"none", "pair"}
  BY <1>6, UserFiles
<1>8. ASSUME NEW s \in Sites, s # a, Current(s), UserPairExists(Own(s))
      PROVE  user'[Own(s)] \in {"pair", "torn"}
  <2>1. Own(s) # l /\ Own(s) \in Names
    BY <1>0, <1>1, <1>6, <1>8, CertNames DEF Own, Current, Shape, AppsApart
  <2> QED BY <1>7, <1>8, <2>1 DEF UserPairExists
<1>9. conf' \in [Sites -> Confs] /\ UNCHANGED conf
  BY <1>0, AppKnows
<1> QED BY <1>3, <1>5, <1>7, <1>8, <1>9, IdleTyped, AppKeeps

LEMMA SetUserPairKeeps ==
    ASSUME CertInv, NEW a \in Apps, NEW l \in Domains, NEW d \in Domains, SetUserPair(a, l, d)
    PROVE  CertInv'
<1>0. Shape
  BY DEF CertInv
<1>1. l \in Names
  BY CertNames
<1>2. PICK files2 \in {"none", "pair", "torn", "half"} :
         /\ user' = [user EXCEPT ![l] = files2]
         /\ mishap' = (mishap \/ files2 # "pair")
         /\ RefusesFiles \/ (files2 = "pair" /\ AcceptsFiles(a, l, d))
         /\ UNCHANGED <<provider, host, key, cert, conf, loaded, renewed, late>>
  BY DEF SetUserPair, Written, serving
<1>3. /\ user' \in [Names -> {"none", "pair", "torn", "half"}]
      /\ ~mishap' => files2 = "pair" /\ \A e \in Names : user'[e] \in {"none", "pair"}
      /\ ~mishap' => \A s \in Sites : conf[s].pair = "user" => user'[conf[s].domain] = "pair"
      /\ files2 = "pair" => \A e \in Names : user[e] \in {"pair", "torn"} => user'[e] \in {"pair", "torn"}
  BY <1>1, <1>2, UserFiles
<1>4. mishap' \in BOOLEAN /\ (mishap => mishap') /\ late' \in BOOLEAN /\ (late => late')
  BY <1>0, <1>2 DEF Shape, CertTypes
<1>5. CASE files2 # "pair"
  <2>1. mishap' = TRUE /\ UNCHANGED <<app, flow>>
    BY <1>2, <1>4, <1>5 DEF RefusesFiles
  <2>2. host' \in [kept : {"pair", "torn"}, used : {"pair", "torn"}]
    BY <1>0, <1>2 DEF Shape, CertTypes, CertTypeOK
  <2> QED BY <1>0, <1>2, <1>3, <1>4, <2>1, <2>2, MishapKeeps
<1>6. CASE files2 = "pair" /\ RefusesFiles
  <2>1. \A s \in Sites : Current(s) /\ UserPairExists(Own(s)) => user'[Own(s)] \in {"pair", "torn"}
    BY <1>0, <1>3, <1>6, CertNames DEF UserPairExists, Own, Current, Shape, AppsApart
  <2>2. UNCHANGED <<app, flow>>
    BY <1>6 DEF RefusesFiles
  <2> QED BY <1>2, <1>3, <1>4, <2>1, <2>2, FilesChange
<1>7. CASE files2 = "pair" /\ AcceptsFiles(a, l, d)
  BY <1>2, <1>3, <1>4, <1>7, AcceptsKeeps
<1> QED BY <1>2, <1>5, <1>6, <1>7

LEMMA RemoveUserPairKeeps ==
    ASSUME CertInv, NEW a \in Apps, NEW l \in Domains, NEW d \in Domains, RemoveUserPair(a, l, d)
    PROVE  CertInv'
<1>0. Shape
  BY DEF CertInv
<1>1. l \in Names
  BY CertNames
<1>2. /\ user' = [user EXCEPT ![l] = "none"]
      /\ mishap' = (mishap \/ \E s \in Sites : conf[s].pair = "user" /\ conf[s].domain = l)
      /\ late' = (late \/ \E s \in Sites : Current(s) /\ Own(s) = l /\ Uncovers(s, l))
      /\ RefusesFiles \/ AcceptsFiles(a, l, d)
      /\ UNCHANGED <<provider, host, key, cert, conf, loaded, renewed>>
  BY DEF RemoveUserPair, serving
<1>3. mishap' \in BOOLEAN /\ (mishap => mishap') /\ late' \in BOOLEAN /\ (late => late')
  BY <1>0, <1>2 DEF Shape, CertTypes
<1>4. /\ user' \in [Names -> {"none", "pair", "torn", "half"}]
      /\ \A e \in Names : e # l => user'[e] = user[e]
      /\ ~mishap' => \A e \in Names : user'[e] \in {"none", "pair"}
      /\ ~mishap' => \A s \in Sites : conf[s].pair = "user" => user'[conf[s].domain] = "pair"
  BY <1>1, <1>2, <1>3, UserFiles
<1>5. CASE RefusesFiles
  <2>1. ASSUME ~late', NEW s \in Sites, Current(s), UserPairExists(Own(s))
        PROVE  user'[Own(s)] \in {"pair", "torn"} \/ ~Uncovers(s, Own(s))
    <3>1. CASE Own(s) = l
      BY <1>2, <1>3, <2>1, <3>1
    <3>2. CASE Own(s) # l
      <4>1. Own(s) \in Names
        BY <1>0, <2>1, CertNames DEF Own, Current, Shape, AppsApart
      <4> QED BY <1>4, <2>1, <3>2, <4>1 DEF UserPairExists
    <3> QED BY <3>1, <3>2
  <2>2. UNCHANGED <<app, flow>>
    BY <1>5 DEF RefusesFiles
  <2> QED BY <1>2, <1>3, <1>4, <2>1, <2>2, FilesChange
<1>6. CASE AcceptsFiles(a, l, d)
  BY <1>2, <1>3, <1>4, <1>6, AcceptsKeeps
<1> QED BY <1>2, <1>5, <1>6

(* A request has gone on to its reload. *)
LEMMA RequestGoes ==
    ASSUME Shape, Step("request", "reload"), UNCHANGED <<app, key>>
    PROVE  /\ FlowsRight' /\ flow'["request"].step = "reload"
           /\ \A g \in Flows : g # "request" => flow'[g] = flow[g]
<1>1. PICK q \in CertFlow : q = flow["request"]
  BY CertNames, FlowKnows
<1>2. PICK r \in CertFlow : r = [q EXCEPT !.step = "reload"]
  BY DEF CertFlow, CertSteps
<1>3. r.step = "reload"
  BY <1>2 DEF CertFlow
<1>4. Put("request", r)
  BY <1>1, <1>2 DEF Step
<1>5. FlowRight("request", r)'
  BY <1>3, CertNames DEF FlowRight
<1> QED BY <1>3, <1>4, <1>5, CertNames, FlowsPut DEF Shape

LEMMA SetAdminCertificateKeeps ==
    ASSUME CertInv, SetAdminCertificate
    PROVE  CertInv'
<1>0. Shape /\ FilesFit /\ Serving
  BY DEF CertInv
<1>1. PICK files2 \in {"none", "pair", "torn", "half"} :
         /\ user' = [user EXCEPT ![Admin] = files2]
         /\ mishap' = (mishap \/ files2 # "pair")
         /\ IF files2 = "pair" THEN Configure(Admin, Admin, "user") /\ Step("request", "reload")
                               ELSE UNCHANGED <<conf, flow>>
         /\ UNCHANGED <<provider, host, key, cert, app, loaded, renewed, late>>
  BY DEF SetAdminCertificate, Written
<1>2. Admin \in Names /\ Admin \in Sites /\ Belongs(Admin, Admin)
  BY CertNames DEF Belongs
<1>3. CASE files2 # "pair"
  <2>1. mishap' = TRUE /\ late' \in BOOLEAN
    BY <1>0, <1>1, <1>3 DEF Shape, CertTypes
  <2>2. host' \in [kept : {"pair", "torn"}, used : {"pair", "torn"}]
    BY <1>0, <1>1 DEF Shape, CertTypes, CertTypeOK
  <2> QED BY <1>0, <1>1, <1>2, <1>3, <2>1, <2>2, UserFiles, MishapKeeps
<1>4. CASE files2 = "pair"
  <2>1. mishap' = mishap
    BY <1>0, <1>1, <1>4 DEF Shape, CertTypes
  <2>2. FlowsRight' /\ flow'["request"].step = "reload"
    BY <1>0, <1>1, <1>4, RequestGoes
  <2>3. /\ conf' \in [Sites -> Confs] /\ conf'[Admin] = ConfOf(Admin, "user")
        /\ ConfOf(Admin, "user").domain = Admin /\ ConfOf(Admin, "user").pair = "user"
        /\ \A t \in Sites : t # Admin => conf'[t] = conf[t]
        /\ conf'[Admin].domain \in {Admin, NoDomain}
    BY <1>0, <1>1, <1>2, <1>4, ConfWritten
  <2>4. /\ user' \in [Names -> {"none", "pair", "torn", "half"}] /\ user'[Admin] = "pair"
        /\ \A e \in Names : e # Admin => user'[e] = user[e]
        /\ ~mishap => \A e \in Names : user'[e] \in {"none", "pair"}
        /\ ~mishap => \A s \in Sites : conf[s].pair = "user" => user'[conf[s].domain] = "pair"
    BY <1>1, <1>2, <1>4, UserFiles
  <2>5. Shape'
    BY <1>0, <1>1, <2>1, <2>2, <2>3, <2>4 DEF Shape, CertTypes, CertTypeOK, AppsApart, KeysFit, AdminAtHome
  <2>6. FilesFit'
    <3> SUFFICES ASSUME ~mishap, NEW s \in Sites
                 PROVE  Loads(conf[s])'
      BY <1>0, <1>1, <2>1, <2>4 DEF FilesFit
    <3>1. CASE s = Admin
      BY <2>3, <2>4, <3>1 DEF Loads
    <3>2. CASE s # Admin
      <4>1. conf[s].pair \in {"none", "user", "auto", "host"} /\ conf'[s] = conf[s]
        BY <1>0, <2>3, <3>2, ConfTyped DEF Shape
      <4>2. Loads(conf[s])
        BY <1>0 DEF FilesFit
      <4> QED BY <1>1, <2>4, <4>1, <4>2 DEF Loads
    <3> QED BY <3>1, <3>2
  <2>7. Serving'
    <3>1. conf' = [conf EXCEPT ![Admin] = [domain |-> Admin, pair |-> "user"]] /\ Step("request", "reload")
      BY <1>1, <1>4 DEF Configure
    <3>2. \A e \in Names : UserPairExists(e) => UserPairExists(e)'
      BY <2>4 DEF UserPairExists
    <3>3. \A e \in Names : cert'[e] = cert[e] \/ (e = Admin /\ cert'[e].left = Month)
      BY <1>1
    <3>4. UNCHANGED <<loaded, app, renewed, mishap, late>>
      BY <1>1, <2>1
    <3>5. "request" \in Flows /\ "request" \notin Apps
      BY CertNames
    <3> QED BY <1>0, <1>2, <3>1, <3>2, <3>3, <3>4, <3>5, ServingWritten
  <2> QED BY <2>5, <2>6, <2>7 DEF CertInv
<1> QED BY <1>3, <1>4

LEMMA SetFallbackCertificateKeeps ==
    ASSUME CertInv, SetFallbackCertificate
    PROVE  CertInv'
<1>0. Shape /\ FilesFit /\ Serving
  BY DEF CertInv
<1>1. PICK host2 : /\ host' = host2
                   /\ host2 \in {[kept |-> "torn", used |-> host.used], [kept |-> "pair", used |-> "torn"],
                                [kept |-> "pair", used |-> "pair"]}
                   /\ IF host2.kept = "pair" /\ host2.used = "pair"
                      THEN Step("request", "reload") /\ UNCHANGED mishap
                      ELSE mishap' = TRUE /\ UNCHANGED flow
  BY DEF SetFallbackCertificate
<1>2. UNCHANGED <<provider, user, key, cert, app, conf, loaded, renewed, late>> /\ late \in BOOLEAN
  BY <1>0 DEF SetFallbackCertificate, serving, Shape, CertTypes
<1>3. host' \in [kept : {"pair", "torn"}, used : {"pair", "torn"}]
  BY <1>0, <1>1 DEF Shape, CertTypes, CertTypeOK
<1>4. user' \in [Names -> {"none", "pair", "torn", "half"}]
  BY <1>0, <1>2 DEF Shape, CertTypes, CertTypeOK
<1>5. CASE mishap' = TRUE /\ UNCHANGED flow
  BY <1>0, <1>2, <1>3, <1>4, <1>5, MishapKeeps
<1>6. CASE host2.kept = "pair" /\ host2.used = "pair" /\ Step("request", "reload") /\ UNCHANGED mishap
  <2>1. /\ FlowsRight' /\ flow'["request"].step = "reload"
        /\ \A g \in Flows : g # "request" => flow'[g] = flow[g]
    BY <1>0, <1>2, <1>6, RequestGoes
  <2>2. Shape'
    BY <1>0, <1>2, <1>3, <1>4, <1>6, <2>1 DEF Shape, CertTypes, CertTypeOK, AppsApart, KeysFit, AdminAtHome
  <2>3. FilesFit'
    <3>1. CASE mishap
      BY <1>6, <3>1 DEF FilesFit
    <3>2. CASE ~mishap
      <4>1. host' = [kept |-> "pair", used |-> "pair"]
        BY <1>1, <1>6
      <4>2. UNCHANGED host
        BY <1>0, <3>2, <4>1 DEF FilesFit
      <4> QED BY <1>0, <1>2, <1>6, <4>2, FilesKept
    <3> QED BY <3>1, <3>2
  <2>4. \A s \in Sites : ToLookAt(s) => ToLookAt(s)'
    BY <1>2, <2>1, CertNames DEF ToLookAt, Own
  <2>5. ToReload'
    BY <2>1 DEF ToReload
  <2>6. \A a \in Apps : flow'[a].step = "reload" => flow[a].step = "reload"
    BY <2>1, CertNames
  <2>7. Serving'
    BY <1>0, <1>2, <1>6, <2>4, <2>5, <2>6, ServingStays
  <2> QED BY <2>2, <2>3, <2>7 DEF CertInv
<1> QED BY <1>1, <1>5, <1>6

(* Where the configuration of the webadmin starts. *)
LEMMA EnsureTyped ==
    \E r \in CertFlow : /\ r = [Idle EXCEPT !.step = "ensure", !.domain = Admin]
                        /\ r.step = "ensure" /\ r.site = Admin /\ r.domain = Admin
<1>1. PICK i \in CertFlow : i = Idle
  BY IdleTyped
<1>2. i.site = Admin
  BY <1>1 DEF Idle
<1>3. "ensure" \in CertSteps /\ Admin \in Names \cup {NoDomain}
  BY CertNames DEF CertSteps
<1>4. PICK r : r = [i EXCEPT !.step = "ensure", !.domain = Admin]
  OBVIOUS
<1>5. r \in CertFlow /\ r.step = "ensure" /\ r.site = Admin /\ r.domain = Admin
  BY <1>2, <1>3, <1>4 DEF CertFlow
<1> QED BY <1>1, <1>4, <1>5

LEMMA ConfigureWebadminKeepsCert ==
    ASSUME CertInv, ConfigureWebadmin
    PROVE  CertInv'
<1>0. Shape
  BY DEF CertInv
<1>1. /\ flow["webadmin"].step = "idle" /\ "webadmin" \in Flows /\ "webadmin" \notin Apps
      /\ Put("webadmin", [Idle EXCEPT !.step = "ensure", !.domain = Admin])
      /\ UNCHANGED <<provider, user, host, key, cert, app, conf, loaded, renewed, mishap, late>>
  BY CertNames DEF ConfigureWebadmin, At, files, serving
<1>2. PICK r \in CertFlow : /\ r = [Idle EXCEPT !.step = "ensure", !.domain = Admin]
                            /\ r.step = "ensure" /\ r.site = Admin /\ r.domain = Admin
  BY EnsureTyped
<1>3. Put("webadmin", r)
  BY <1>1, <1>2
<1>4. FlowRight("webadmin", r)'
  BY <1>1, <1>2 DEF FlowRight
<1>5. \A s \in Sites : ToLookAt(s) => ToLookAt(s)'
  <2>1. flow'["renewal"] = flow["renewal"]
    BY <1>0, <1>3, CertNames DEF Put, Shape, FlowsRight
  <2> QED BY <1>1, <2>1 DEF ToLookAt, Own
<1>6. key' \in [Names -> 0..1] /\ \A d \in Names : key[d] = 1 => key'[d] = 1
  BY <1>0, <1>1 DEF Shape, CertTypes, CertTypeOK, KeysFit
<1> QED BY <1>1, <1>2, <1>3, <1>4, <1>5, <1>6, GoesKeeps

LEMMA RestartKeepsCert ==
    ASSUME CertInv, Restart
    PROVE  CertInv'
<1>0. Shape /\ FilesFit /\ Serving
  BY DEF CertInv
<1>1. /\ provider' \in {"le", "caas", "fallback"} /\ host' = [host EXCEPT !.used = host.kept]
      /\ UNCHANGED <<user, key, cert, app, conf, loaded, renewed, mishap, late>>
  BY DEF Restart, serving
<1>2. PICK r \in CertFlow : /\ r = [Idle EXCEPT !.step = "ensure", !.domain = Admin]
                            /\ r.step = "ensure" /\ r.site = Admin /\ r.domain = Admin
  BY EnsureTyped
<1>3. flow' = [f \in Flows |-> IF f = "webadmin" THEN r ELSE Idle]
  BY <1>2 DEF Restart
<1>4. FlowsRight'
  <2>1. flow' \in [Flows -> CertFlow] /\ \A f \in Flows : flow'[f] = IF f = "webadmin" THEN r ELSE Idle
    BY <1>3, IdleTyped
  <2>2. ASSUME NEW f \in Flows
        PROVE  FlowRight(f, flow[f])'
    <3>1. CASE f = "webadmin"
      BY <1>2, <2>1, <3>1, CertNames DEF FlowRight
    <3>2. CASE f # "webadmin"
      BY <2>1, <3>2, IdleTyped DEF FlowRight
    <3> QED BY <3>1, <3>2
  <2> QED BY <2>1, <2>2 DEF FlowsRight
<1>5. host' \in [kept : {"pair", "torn"}, used : {"pair", "torn"}]
  BY <1>0, <1>1 DEF Shape, CertTypes, CertTypeOK
<1>6. Shape'
  BY <1>0, <1>1, <1>4, <1>5 DEF Shape, CertTypes, CertTypeOK, AppsApart, KeysFit, AdminAtHome
<1>7. FilesFit'
  <2>1. CASE mishap
    BY <1>1, <2>1 DEF FilesFit
  <2>2. CASE ~mishap
    <3>1. UNCHANGED host
      BY <1>0, <1>1, <2>2 DEF FilesFit
    <3> QED BY <1>0, <1>1, <3>1, FilesKept
  <2> QED BY <2>1, <2>2
<1>8. Serving'
  <2>1. /\ flow'["renewal"].step = "idle" /\ flow'["webadmin"].step = "ensure"
        /\ \A a \in Apps : flow'[a].step = "idle"
    BY <1>2, <1>3, IdleTyped, CertNames
  <2>2. (\A s \in Sites : ToLookAt(s) => ToLookAt(s)') /\ ToReload'
    BY <2>1 DEF ToLookAt, ToReload
  <2>3. \A a \in Apps : flow'[a].step = "reload" => flow[a].step = "reload"
    BY <2>1
  <2> QED BY <1>0, <1>1, <2>2, <2>3, ServingStays
<1> QED BY <1>6, <1>7, <1>8 DEF CertInv

LEMMA TickKeeps ==
    ASSUME CertInv, Tick
    PROVE  CertInv'
<1>0. Shape /\ FilesFit /\ Serving
  BY DEF CertInv
<1>1. /\ renewed' = FALSE /\ late' = (late \/ ~renewed)
      /\ UNCHANGED <<provider, user, host, key, app, conf, flow, mishap>>
      /\ \A f \in Flows : flow[f].step \in {"idle", "hung"}
  BY DEF Tick, At
<1>2. /\ cert \in [Names -> [key : 0..2, left : 0..3]]
      /\ loaded \in [Sites -> Served]
  BY <1>0 DEF Shape, CertTypes, CertTypeOK, Expired, Month
<1>3. ASSUME NEW d \in Names
      PROVE  /\ cert'[d] \in [key : 0..2, left : 0..3] /\ cert'[d].key = cert[d].key
             /\ cert'[d].left = IF cert[d].left = 0 THEN 0 ELSE cert[d].left - 1
  <2>1. PICK c \in [key : 0..2, left : 0..3] : c = cert[d]
    BY <1>2
  <2>2. PICK l \in 0..3 : l = IF c.left = 0 THEN 0 ELSE c.left - 1
    <3>1. c.left \in 0..3
      OBVIOUS
    <3> QED BY <3>1
  <2>3. cert'[d] = [c EXCEPT !.left = l]
    BY <2>1, <2>2 DEF Tick, Expired
  <2>4. [c EXCEPT !.left = l] \in [key : 0..2, left : 0..3]
    OBVIOUS
  <2> QED BY <2>1, <2>2, <2>3, <2>4
<1>4. ASSUME NEW s \in Sites
      PROVE  /\ loaded'[s] \in Served
             /\ loaded'[s].domain = loaded[s].domain /\ loaded'[s].pair = loaded[s].pair
             /\ loaded'[s].left = IF loaded[s].pair # "auto" \/ loaded[s].left = 0
                                  THEN loaded[s].left ELSE loaded[s].left - 1
  <2>1. PICK c \in Served : c = loaded[s]
    BY <1>2
  <2>2. PICK l \in 0..3 : l = IF c.pair # "auto" \/ c.left = 0 THEN c.left ELSE c.left - 1
    <3>1. c.left \in 0..3
      BY DEF Served, Expired, Month
    <3> QED BY <3>1
  <2>3. loaded'[s] = [c EXCEPT !.left = l]
    BY <2>1, <2>2 DEF Tick, Expired
  <2>4. [c EXCEPT !.left = l] \in Served
    BY DEF Served, Expired, Month
  <2> QED BY <2>1, <2>2, <2>3, <2>4 DEF Served
<1>5. /\ cert' \in [Names -> [key : 0..2, left : Expired..Month]]
      /\ loaded' \in [Sites -> Served]
  <2>1. cert' = [d \in Names |-> cert'[d]]
    BY DEF Tick
  <2>2. loaded' = [s \in Sites |-> loaded'[s]]
    BY DEF Tick
  <2> QED BY <1>3, <1>4, <2>1, <2>2 DEF Expired, Month
<1>6. FlowsRight'
  BY <1>0, <1>1 DEF Shape, FlowsRight, FlowRight, Belongs, Pending
<1>7. Shape'
  <2>1. CertTypes'
    BY <1>0, <1>1, <1>5 DEF Shape, CertTypes, CertTypeOK
  <2>2. AppsApart'
    BY <1>0, <1>1 DEF Shape, AppsApart
  <2>3. KeysFit'
    BY <1>0, <1>1, <1>3 DEF Shape, KeysFit
  <2>4. AdminAtHome'
    BY <1>0, <1>1, <1>4, CertNames DEF Shape, AdminAtHome
  <2> QED BY <1>6, <2>1, <2>2, <2>3, <2>4 DEF Shape
<1>8. FilesFit'
  <2> SUFFICES ASSUME ~mishap, NEW s \in Sites
               PROVE  Loads(conf[s])'
    BY <1>0, <1>1 DEF FilesFit
  <2>1. Loads(conf[s])
    BY <1>0 DEF FilesFit
  <2>2. /\ conf[s].pair \in {"none", "user", "auto", "host"}
        /\ conf[s].pair # "none" => conf[s].domain \in Names
    BY <1>0, ConfTyped DEF Shape
  <2> QED BY <1>1, <1>3, <2>1, <2>2 DEF Loads
<1>9. Serving'
  <2> SUFFICES ASSUME ~mishap, ~late, renewed
               PROVE  (\A s \in Sites : SiteFits(s)') /\ InstallsGood'
    BY <1>0, <1>1 DEF Serving, Shape, CertTypes
  <2>1. InstallsGood'
    BY <1>1, CertNames DEF InstallsGood
  <2>2. ASSUME NEW s \in Sites, Current(s)
        PROVE  Good(s)' /\ InSync(s)' /\ ServedWell(s)'
    <3>1. Own(s) \in Names /\ Good(s) /\ InSync(s)
      BY <1>0, <2>2, SitesGood DEF Serving, SiteFits
    <3>2. /\ loaded[s].domain = conf[s].domain /\ loaded[s].pair = conf[s].pair
          /\ ConfOwn(s) => loaded[s].left = cert[Own(s)].left
      BY <1>1, <3>1, CertNames DEF InSync, ToReload
    <3>3. /\ Own(s)' = Own(s) /\ ConfOwn(s)' = ConfOwn(s)
          /\ UserPairExists(Own(s))' = UserPairExists(Own(s))
      BY <1>1 DEF Own, ConfOwn, UserPairExists
    <3>4. ConfOwn(s) /\ ~UserPairExists(Own(s)) => cert[Own(s)].left >= 2
      BY <1>1, <3>1 DEF Good
    <3>5. cert[Own(s)].left \in 0..3
      BY <1>2, <3>1
    <3>6. cert'[Own(s)].left = IF cert[Own(s)].left = 0 THEN 0 ELSE cert[Own(s)].left - 1
      BY <1>3, <3>1
    <3>7. Good(s)'
      <4>1. ToLookAt(s)'
        BY <1>0, <1>1, CertNames DEF ToLookAt, Shape, FlowsRight, FlowRight, Asking
      <4>2. ConfOwn(s) /\ ~UserPairExists(Own(s)) => cert'[Own(s)].left >= 1
        BY <3>4, <3>5, <3>6
      <4> QED BY <1>1, <3>3, <4>1, <4>2 DEF Good
    <3>8. ConfOwn(s) => loaded'[s].left = cert'[Own(s)].left
      BY <1>4, <3>2, <3>6 DEF ConfOwn
    <3>9. InSync(s)'
      BY <1>1, <1>4, <3>2, <3>3, <3>8 DEF InSync
    <3>10. ServedWell(s)'
      <4> SUFFICES ASSUME loaded'[s].pair = "auto", loaded'[s].domain = Own(s), ~UserPairExists(Own(s))
                   PROVE  loaded'[s].left # Expired
        BY <3>3 DEF ServedWell
      <4>1. ConfOwn(s)
        BY <1>4, <3>2 DEF ConfOwn
      <4> QED BY <3>4, <3>5, <3>6, <3>8, <4>1 DEF Expired
    <3> QED BY <3>7, <3>9, <3>10
  <2>3. \A s \in Sites : Current(s)' = Current(s)
    BY <1>1 DEF Current
  <2> QED BY <2>1, <2>2, <2>3 DEF SiteFits
<1> QED BY <1>7, <1>8, <1>9 DEF CertInv

-----------------------------------------------------------------------------
LEMMA CertInitFits == CertInit => CertInv
<1> SUFFICES ASSUME CertInit PROVE CertInv
  OBVIOUS
<1>1. /\ user = [d \in Names |-> "none"] /\ host = [kept |-> "pair", used |-> "pair"]
      /\ flow = [f \in Flows |-> Idle] /\ renewed = FALSE /\ mishap = FALSE /\ late = FALSE
  BY DEF CertInit
<1>2. FlowsRight
  BY <1>1, IdleTyped DEF FlowsRight, FlowRight
<1>3. flow["renewal"].step = "idle" /\ \A f \in Flows : flow[f].step # "reload"
  BY <1>1, IdleTyped, CertNames
<1>4. (\A d \in Names : user[d] = "none") /\ host.used = "pair"
  BY <1>1
<1>5. CASE FreshBox
  <2>1. /\ provider \in {"le", "caas"} /\ key = [d \in Names |-> 0] /\ cert = [d \in Names |-> NoCert]
        /\ app = [a \in Apps |-> [state |-> "none", domain |-> NoDomain]]
        /\ conf = [s \in Sites |-> NoConf] /\ loaded = [s \in Sites |-> NotServed]
    BY <1>5 DEF FreshBox
  <2>2. CertTypes
    <3>1. NoConf \in Confs /\ NotServed \in Served /\ NoCert \in [key : 0..2, left : Expired..Month]
      BY DEF Confs, NotServed, Served, NoCert, Expired, Month
    <3>2. cert \in [Names -> [key : 0..2, left : Expired..Month]] /\ loaded \in [Sites -> Served]
      BY <2>1, <3>1
    <3>3. key \in [Names -> 0..2] /\ conf \in [Sites -> Confs]
      BY <2>1, <3>1
    <3>4. app \in [Apps -> [state : {"none", "pending", "pending_uninstall", "installed", "error"},
                          domain : Domains \cup {NoDomain}]]
      BY <2>1
    <3> QED BY <1>1, <2>1, <3>2, <3>3, <3>4 DEF CertTypes, CertTypeOK
  <2>3. AppsApart /\ KeysFit /\ AdminAtHome
    BY <2>1, CertNames DEF AppsApart, KeysFit, NoCert, AdminAtHome, NoConf, NotServed
  <2>4. FilesFit
    BY <1>1, <1>4, <2>1 DEF FilesFit, Loads, NoConf
  <2>5. Serving
    <3>1. InstallsGood
      BY <1>3, CertNames DEF InstallsGood
    <3>2. ASSUME NEW s \in Sites
          PROVE  Good(s) /\ InSync(s) /\ ServedWell(s)
      BY <2>1 DEF Good, ConfOwn, InSync, ServedWell, NoConf, NotServed
    <3> QED BY <3>1, <3>2 DEF Serving, SiteFits
  <2> QED BY <1>2, <2>2, <2>3, <2>4, <2>5 DEF CertInv, Shape
<1>6. CASE BoxInUse
  <2>1. PICK home \in [Sites -> Names] :
        /\ home[Admin] = Admin
        /\ \A a \in Apps : home[a] \in Domains /\ \A b \in Apps \ {a} : home[b] # home[a]
        /\ key = [d \in Names |-> IF \E s \in Sites : home[s] = d THEN 1 ELSE 0]
        /\ cert = [d \in Names |-> IF key[d] = 1 THEN [key |-> 1, left |-> Month - 1] ELSE NoCert]
        /\ app = [a \in Apps |-> [state |-> "installed", domain |-> home[a]]]
        /\ conf = [s \in Sites |-> [domain |-> home[s], pair |-> "auto"]]
        /\ loaded = [s \in Sites |-> [domain |-> home[s], pair |-> "auto", left |-> Month - 1]]
    BY <1>6 DEF BoxInUse
  <2>2. /\ \A d \in Names : key[d] \in 0..1
        /\ \A d \in Names : (cert[d] = [key |-> 1, left |-> 2] /\ key[d] = 1) \/ cert[d] = [key |-> 0, left |-> 0]
        /\ \A s \in Sites : key[home[s]] = 1 /\ cert[home[s]] = [key |-> 1, left |-> 2]
        /\ \A s \in Sites : loaded[s] = [domain |-> home[s], pair |-> "auto", left |-> 2]
    BY <2>1 DEF NoCert, Month, Expired
  <2>3. CertTypes
    <3>1. \A s \in Sites : [domain |-> home[s], pair |-> "auto"] \in Confs
      BY DEF Confs
    <3>2. ASSUME NEW s \in Sites
          PROVE  loaded[s] \in Served
      <4>1. 2 \in Expired..Month /\ home[s] \in Names
        BY DEF Expired, Month
      <4>2. \A k \in Expired..Month : [domain |-> home[s], pair |-> "auto", left |-> k] \in Served
        BY <4>1 DEF Served
      <4> QED BY <2>2, <4>1, <4>2
    <3>3. \A d \in Names : cert[d] \in [key : 0..2, left : Expired..Month]
      BY <2>2 DEF Expired, Month
    <3>4. cert \in [Names -> [key : 0..2, left : Expired..Month]] /\ loaded \in [Sites -> Served]
      BY <2>1, <3>2, <3>3
    <3>5. key \in [Names -> 0..2] /\ conf \in [Sites -> Confs]
      BY <2>1, <2>2, <3>1
    <3>6. app \in [Apps -> [state : {"none", "pending", "pending_uninstall", "installed", "error"},
                          domain : Domains \cup {NoDomain}]]
      BY <2>1
    <3>7. provider = "le"
      BY <1>6 DEF BoxInUse
    <3> QED BY <1>1, <3>4, <3>5, <3>6, <3>7 DEF CertTypes, CertTypeOK
  <2>4. AppsApart
    BY <2>1 DEF AppsApart
  <2>5. KeysFit
    BY <2>2 DEF KeysFit
  <2>6. AdminAtHome
    BY <2>1, CertNames DEF AdminAtHome
  <2>7. FilesFit
    <3>1. ASSUME NEW s \in Sites
          PROVE  Loads(conf[s])
      <4>1. conf[s].domain = home[s] /\ conf[s].pair = "auto"
        BY <2>1
      <4>2. key[home[s]] = 1 /\ cert[home[s]].key = 1
        BY <2>2
      <4> QED BY <4>1, <4>2 DEF Loads
    <3> QED BY <1>1, <1>4, <3>1 DEF FilesFit
  <2>8. \A s \in Sites : Own(s) = home[s]
    BY <2>1, CertNames DEF Own
  <2>9. Serving
    <3>1. InstallsGood
      BY <1>3, CertNames DEF InstallsGood
    <3>2. ASSUME NEW s \in Sites
          PROVE  Good(s) /\ InSync(s) /\ ServedWell(s)
      BY <2>1, <2>2, <2>8 DEF Good, ConfOwn, InSync, ServedWell, Expired
    <3> QED BY <3>1, <3>2 DEF Serving, SiteFits
  <2> QED BY <1>2, <2>3, <2>4, <2>5, <2>6, <2>7, <2>9 DEF CertInv, Shape
<1> QED BY <1>5, <1>6 DEF CertInit

LEMMA CertUnchanged == CertInv /\ UNCHANGED certVars => CertInv'
<1> SUFFICES ASSUME CertInv, UNCHANGED certVars PROVE CertInv'
  OBVIOUS
<1>1. UNCHANGED <<provider, user, host, key, cert, app, conf, loaded, flow, renewed, mishap, late>>
  BY DEF certVars
<1>2. FlowsRight'
  BY <1>1 DEF CertInv, Shape, FlowsRight, FlowRight, Belongs, Pending
<1>3. Shape'
  BY <1>1, <1>2, ShapeStays DEF CertInv, Shape, CertTypes
<1>4. FilesFit'
  BY <1>1, FilesKept DEF CertInv
<1>5. Serving'
  BY <1>1, ServingStays DEF CertInv, ToLookAt, Own, ToReload
<1> QED BY <1>3, <1>4, <1>5 DEF CertInv

LEMMA CertNextKeeps == CertInv /\ [CertNext]_certVars => CertInv'
<1> SUFFICES ASSUME CertInv, CertNext PROVE CertInv'
  BY CertUnchanged
<1>1. CASE \E f \in Flows : AcmeStep(f) \/ EnsureStep(f)
  BY <1>1, StartsAcmeKeeps, RegisterKeepsCert, CreateKeyKeeps, DownloadCertificateKeeps, UsesFilesKeeps,
     AsksForCertificateKeeps, GetCertificateKeeps, AcmeFailsKeeps, AcmeHangsKeeps DEF AcmeStep, EnsureStep
<1>2. CASE RenewalStep
  BY <1>2, GetAllKeeps, NextSiteKeeps, RenewsNothingKeeps, RenewalFailsKeeps, RenewalReloadsKeeps,
     RenewalGivesUpKeeps DEF RenewalStep
<1>3. CASE \E a \in Apps : TaskStep(a)
  BY <1>3, InstallKeepsCert, ConfigureCommandKeeps, UninstallKeepsCert, UnconfigureKeeps, UnconfiguredKeeps,
     TaskGoesOnKeeps, TaskReloadsKeeps, SetUserPairKeeps, RemoveUserPairKeeps DEF TaskStep
<1>4. CASE ConfigureWebadmin \/ WebadminReloads
  BY <1>4, ConfigureWebadminKeepsCert, WebadminReloadsKeeps
<1>5. CASE SetAdminCertificate \/ SetFallbackCertificate \/ RequestReloads
  BY <1>5, SetAdminCertificateKeeps, SetFallbackCertificateKeeps, RequestReloadsKeeps
<1>6. CASE Restart \/ Tick
  BY <1>6, RestartKeepsCert, TickKeeps
<1> QED BY <1>1, <1>2, <1>3, <1>4, <1>5, <1>6 DEF CertNext

(* Every reachable state of the certificates satisfies the inductive invariant. *)
THEOREM CertInvariance == CertSpec => []CertInv
BY CertInitFits, CertNextKeeps, PTL DEF CertSpec

(* Every variable keeps a value the code can give it. *)
THEOREM CertTypeCorrect == CertSpec => []CertTypeOK
<1>1. CertInv => CertTypeOK
  BY DEF CertInv, Shape, CertTypes
<1> QED BY <1>1, CertInvariance, PTL

(* nginx can be told to reload whatever step of a renewal, of a task or of the webadmin
   failed or was cut short, as long as nothing happened to the files of the user. *)
THEOREM ReloadsCorrect == CertSpec => []NginxReloads
<1>1. CertInv => NginxReloads
  BY DEF CertInv, FilesFit, NginxReloads, reload
<1> QED BY <1>1, CertInvariance, PTL

(* The webadmin and an installed app are never served with a certificate of ours that
   has expired, as long as a renewal comes to its end in each step of time. *)
THEOREM ServedCorrect == CertSpec => []ServesNoExpired
<1>1. ASSUME CertInv PROVE ServesNoExpired
  <2> SUFFICES ASSUME ~mishap, ~late, NEW s \in Sites, Current(s), Own(s) = loaded[s].domain,
                      loaded[s].pair = "auto", ~UserPairExists(loaded[s].domain)
               PROVE  loaded[s].left # Expired
    BY DEF ServesNoExpired
  <2>1. ServedWell(s)
    BY <1>1 DEF CertInv, Serving, SiteFits
  <2> QED BY <2>1 DEF ServedWell
<1> QED BY <1>1, CertInvariance, PTL
=============================================================================
