-------------------------------- MODULE Dns --------------------------------
(***************************************************************************)
(* The records the box keeps in the zone of its domain: the addresses of   *)
(* the webadmin and of each app, and its part of the TXT records of the    *)
(* domain, which the user has records of his own in (src/src/subdomains.js *)
(* and its backends in src/src/dns, addDnsRecords, configureWebadmin and   *)
(* refreshDNS of cloudron.js, setDnsConfig of settings.js, registerSub-    *)
(* domain and unregisterSubdomain of apptask.js).                          *)
(*                                                                         *)
(* Each of these reads the public address once, asks the backend what is   *)
(* there, and writes; other writers, a new address, a failure or an answer *)
(* that is lost come in between.  Some backends replace all records of a   *)
(* name at once, others are given one record after the other.              *)
(***************************************************************************)
EXTENDS Box, Naturals, Sequences, FiniteSets

CONSTANTS
    Subdomains,   \* locations an app can have
    UserHas,      \* those of them at which the user has a record of his own
    Admin, Txt,   \* the names of the webadmin's address and of the TXT records
    Ips,          \* public addresses of the server
    NoLocation,   \* not a location
    MaxRecords,   \* bound: records of a name, of which a backend accepts no more
    MaxChanges,   \* bound: commands, settings and changes of the address
    MaxFailures   \* bound: requests to a backend that fail

ASSUME DnsAssumption ==
    /\ IsFiniteSet(Apps) /\ IsFiniteSet(Subdomains) /\ IsFiniteSet(Ips) /\ Ips # {}
    /\ Apps \cap {"webadmin", "refresh", "request"} = {}
    /\ UserHas \subseteq Subdomains
    /\ Admin # Txt /\ {Admin, Txt} \cap Subdomains = {} /\ NoLocation \notin Subdomains
    /\ MaxRecords \in Nat /\ MaxRecords > 1 /\ MaxChanges \in Nat /\ MaxFailures \in Nat

VARIABLES
    backend, \* the DNS backend: "caas", "route53", "records" for cloudflare and
             \* digitalocean, or "none" for manual and noop
    zone,    \* zone[k]: the records of a name, the oldest first; Deleted for one that is gone
    ip,      \* the public address
    app,     \* app[a]: what the row says of an app
    flow,    \* flow[f]: how far each writer is
    booted,  \* the webadmin was configured at the start of the box
    changes, failures

dnsVars == <<backend, zone, ip, app, flow, booted, changes, failures>>

Keys == Subdomains \cup {Admin, Txt}
System == {"webadmin", "refresh"}
Flows == Apps \cup System \cup {"request"}

\* Values: a TXT record of the user, his SPF record, ours, and his with ours in it; an
\* address he gave.
TheirText == "foreign"
TheirSpf == "their spf"
OurSpf == "our spf"
BothSpf == "both spf"
Theirs == "theirs"
Deleted == "gone"

\* Backends that replace all records of a name; the others write one after the other.
Replacing == {"caas", "route53"}

isCustomDomain == backend # "caas"

Resting(address) ==
    [step |-> "idle", ip |-> address, todo |-> <<>>, late |-> <<>>, apps |-> FALSE, left |-> {},
     ids |-> <<>>, n |-> 1]

DnsInit ==
    /\ backend \in Replacing \cup {"records", "none"}
    /\ \E txt \in {<<TheirText>>, <<TheirSpf, TheirText>>} :
         zone = [k \in Keys |-> CASE k = Txt -> txt
                                  [] k \in UserHas -> <<Theirs>>
                                  [] OTHER -> <<>>]
    /\ ip = CHOOSE i \in Ips : TRUE
    /\ app = [a \in Apps |-> [state |-> "none", at |-> NoLocation, old |-> NoLocation]]
    /\ flow = [f \in Flows |-> Resting(ip)]
    /\ booted = FALSE
    /\ changes = 0
    /\ failures = 0

Change == changes < MaxChanges /\ changes' = changes + 1
Failure == failures < MaxFailures /\ failures' = failures + 1

At(f, step) == flow[f].step = step
Put(f, r) == flow' = [flow EXCEPT ![f] = r]
Step(f, step) == Put(f, [flow[f] EXCEPT !.step = step])

-----------------------------------------------------------------------------
\* The backends.

\* The records of a name, by position and by value.  A backend that is none says there
\* are none; one that replaces has no positions.
There(k) == {i \in DOMAIN zone[k] : zone[k][i] # Deleted}
Before(k, i) == {j \in 1..(i - 1) : zone[k][j] # Deleted}
Listed(k) ==
    [n \in 1..Cardinality(There(k)) |-> CHOOSE i \in There(k) : Cardinality(Before(k, i)) = n - 1]
get(k) ==
    CASE backend = "none" -> <<>>
      [] backend = "records" -> LET ids == Listed(k) IN [n \in DOMAIN ids |-> zone[k][ids[n]]]
      [] OTHER -> zone[k]

\* What is to be written next.
Key(f) == Head(flow[f].todo).key
Values(f) == Head(flow[f].todo).values

GoOn(f) == Put(f, [flow[f] EXCEPT !.step = "write", !.todo = Tail(@), !.ids = <<>>, !.n = 1])

\* All records of the name are replaced; or nothing is done, and called done.
ReplaceRecords(f) ==
    zone' = IF backend = "none" THEN zone ELSE [zone EXCEPT ![Key(f)] = Values(f)]

\* A record that was listed is changed, or one is added; one that is gone is an error.
Accepts(f) ==
    IF flow[f].n <= Len(flow[f].ids)
    THEN zone[Key(f)][flow[f].ids[flow[f].n]] # Deleted
    ELSE Len(zone[Key(f)]) < MaxRecords

PutOrPost(f) ==
    LET v == Values(f)[flow[f].n]
    IN IF flow[f].n <= Len(flow[f].ids)
       THEN zone' = [zone EXCEPT ![Key(f)][flow[f].ids[flow[f].n]] = v]
       ELSE zone' = [zone EXCEPT ![Key(f)] = Append(@, v)]

Replace(f) ==
    /\ At(f, "write") /\ flow[f].todo # <<>>
    /\ backend # "records"
    /\ ReplaceRecords(f)
    /\ GoOn(f)
    /\ UNCHANGED <<backend, ip, app, booted, changes, failures>>

List(f) ==
    /\ At(f, "write") /\ flow[f].todo # <<>>
    /\ backend = "records"
    /\ Put(f, [flow[f] EXCEPT !.step = "put", !.ids = Listed(Key(f)), !.n = 1])
    /\ UNCHANGED <<backend, zone, ip, app, booted, changes, failures>>

WriteOne(f) ==
    /\ At(f, "put")
    /\ Accepts(f)
    /\ PutOrPost(f)
    /\ IF flow[f].n = Len(Values(f)) THEN GoOn(f) ELSE Put(f, [flow[f] EXCEPT !.n = @ + 1])
    /\ UNCHANGED <<backend, ip, app, booted, changes, failures>>

upsert(f) == Replace(f) \/ List(f) \/ WriteOne(f)

\* A record of the address is removed: if it is all the name has, or the first of several.
Removed(k, i) ==
    LET First == {j \in 1..Len(zone[k]) : zone[k][j] = i /\ \A h \in 1..(j - 1) : zone[k][h] # i}
    IN CASE backend \in Replacing -> IF get(k) = <<i>> THEN <<>> ELSE zone[k]
         [] backend = "records" -> [j \in 1..Len(zone[k]) |-> IF j \in First THEN Deleted ELSE zone[k][j]]
         [] OTHER -> zone[k]

-----------------------------------------------------------------------------
\* addDnsRecords, of the webadmin and of the refresh.

\* A mutant: the address is asked once.
StartWithOldAddress(f) == Put(f, [Resting(flow[f].ip) EXCEPT !.step = "txt"])

\* The address is asked first.
Start(f) == Put(f, [Resting(ip) EXCEPT !.step = "txt"])

\* When the box starts; not while it is at work.
ConfigureWebadmin ==
    /\ ~booted /\ booted' = TRUE
    /\ At("webadmin", "idle")
    /\ Start("webadmin")
    /\ UNCHANGED <<backend, zone, ip, app, changes, failures>>

\* cron has all records refreshed every ten minutes (with dynamic DNS, enabled here).
RefreshDNS ==
    /\ At("refresh", "idle")
    /\ Start("refresh")
    /\ UNCHANGED <<backend, zone, ip, app, booted, changes, failures>>

IsSpf(v) == v \in {TheirSpf, OurSpf, BothSpf}
HasSpf(txt) == \E i \in DOMAIN txt : IsSpf(txt[i])
FirstSpf(txt) == CHOOSE i \in DOMAIN txt : IsSpf(txt[i]) /\ \A j \in 1..(i - 1) : ~IsSpf(txt[j])

\* A mutant: our record is put before the others.
SpfFirst(txt) ==
    IF ~HasSpf(txt) THEN << <<OurSpf>> \o txt >>
    ELSE IF txt[FirstSpf(txt)] # TheirSpf THEN <<>>
    ELSE << [txt EXCEPT ![FirstSpf(txt)] = BothSpf] >>

\* The TXT records with ours, as a sequence of at most one list to write: the first SPF
\* record names the webadmin already, or it is made to, or one is added at the end.
txtRecordsWithSpf(txt) ==
    IF ~HasSpf(txt) THEN << Append(txt, OurSpf) >>
    ELSE IF txt[FirstSpf(txt)] # TheirSpf THEN <<>>
    ELSE << [txt EXCEPT ![FirstSpf(txt)] = BothSpf] >>

\* What an attempt that failed would have written is written again, before what is
\* found to be missing now.
ReadTxt(f) ==
    /\ f \in System /\ At(f, "txt")
    /\ LET late == flow[f].late \o txtRecordsWithSpf(get(Txt))
       IN Put(f, [flow[f] EXCEPT
             !.step = "write", !.late = late,
             !.todo = <<[key |-> Admin, values |-> <<flow[f].ip>>]>>
                        \o [i \in 1..Len(late) |-> [key |-> Txt, values |-> late[i]]]])
    /\ UNCHANGED <<backend, zone, ip, app, booted, changes, failures>>

Written(f) == At(f, "write") /\ flow[f].todo = <<>>

\* The webadmin goes on with its certificate.
WebadminWritten ==
    /\ Written("webadmin")
    /\ Put("webadmin", Resting(flow["webadmin"].ip))
    /\ UNCHANGED <<backend, zone, ip, app, booted, changes, failures>>

\* The refresh goes on with the apps that are installed by now.
RefreshApps ==
    /\ Written("refresh") /\ ~flow["refresh"].apps
    /\ Put("refresh", [flow["refresh"] EXCEPT
           !.apps = TRUE, !.late = <<>>,
           !.left = {app[a].at : a \in {b \in Apps : app[b].state = "installed"}}])
    /\ UNCHANGED <<backend, zone, ip, app, booted, changes, failures>>

\* Their records are written, one or the other first.
RefreshApp(l) ==
    LET r == flow["refresh"]
    IN /\ Written("refresh") /\ r.apps /\ l \in r.left
       /\ Put("refresh", [r EXCEPT !.left = @ \ {l},
                                   !.todo = <<[key |-> l, values |-> <<r.ip>>]>>])
       /\ UNCHANGED <<backend, zone, ip, app, booted, changes, failures>>

RefreshEnds ==
    /\ Written("refresh") /\ flow["refresh"].apps /\ flow["refresh"].left = {}
    /\ Put("refresh", Resting(flow["refresh"].ip))
    /\ UNCHANGED <<backend, zone, ip, app, booted, changes, failures>>

-----------------------------------------------------------------------------
\* Settings.

\* verifyDnsConfig writes the address of the webadmin to see that it can, but on caas.
Probe == IF backend = "caas" THEN <<>> ELSE <<[key |-> Admin, values |-> <<ip>>]>>

SetDnsConfig ==
    /\ Change
    /\ At("request", "idle")
    /\ Put("request", [Resting(ip) EXCEPT !.step = "write", !.todo = Probe])
    /\ UNCHANGED <<backend, zone, ip, app, booted, failures>>

\* The settings are saved; the webadmin is configured unless it is at work.
DnsConfigSet ==
    /\ Written("request")
    /\ flow' = [flow EXCEPT !["request"] = Resting(@.ip),
                            !["webadmin"] = IF @.step = "idle" THEN [Resting(ip) EXCEPT !.step = "txt"] ELSE @]
    /\ UNCHANGED <<backend, zone, ip, app, booted, changes, failures>>

-----------------------------------------------------------------------------
\* The tasks of apps.

Pending(a) == app[a].state \in {"pending_install", "pending_configure", "pending_uninstall"}
Taken == {app[a].at : a \in {b \in Apps : app[b].state # "none"}}

\* Commands; a task at work is killed.
InstallApp(a, l) ==
    /\ Change
    /\ app[a].state = "none" /\ l \notin Taken
    /\ app' = [app EXCEPT ![a] = [state |-> "pending_install", at |-> l, old |-> NoLocation]]
    /\ UNCHANGED <<backend, zone, ip, flow, booted, failures>>

ConfigureApp(a, l) ==
    /\ Change
    /\ app[a].state \in {"installed", "error", "pending_configure"}
    /\ l = app[a].at \/ l \notin Taken
    /\ app' = [app EXCEPT ![a] = [state |-> "pending_configure", at |-> l, old |-> app[a].at]]
    /\ Put(a, Resting(flow[a].ip))
    /\ UNCHANGED <<backend, zone, ip, booted, failures>>

Uninstall(a) ==
    /\ Change
    /\ app[a].state # "none"
    /\ app' = [app EXCEPT ![a].state = "pending_uninstall"]
    /\ Put(a, Resting(flow[a].ip))
    /\ UNCHANGED <<backend, zone, ip, booted, failures>>

\* The location whose record a task removes.
Leaves(a) ==
    CASE app[a].state = "pending_uninstall" -> app[a].at
      [] app[a].state = "pending_configure" /\ app[a].old # app[a].at -> app[a].old
      [] OTHER -> NoLocation

\* The task asks for the address as it gets to the record.
BeginTask(a) ==
    /\ Pending(a) /\ At(a, "idle")
    /\ Put(a, [Resting(ip) EXCEPT !.step = IF Leaves(a) = NoLocation THEN "get" ELSE "del"])
    /\ UNCHANGED <<backend, zone, ip, app, booted, changes, failures>>

\* registerSubdomain: an install does not take a name that has records already.
registerSubdomain(a) ==
    LET l == app[a].at
        overwrite == app[a].state = "pending_configure"
    IN /\ At(a, "get")
       /\ IF isCustomDomain /\ get(l) # <<>> /\ ~overwrite
          THEN Put(a, Resting(flow[a].ip)) /\ app' = [app EXCEPT ![a].state = "error"]
          ELSE /\ Put(a, [flow[a] EXCEPT !.step = "write",
                              !.todo = <<[key |-> l, values |-> <<flow[a].ip>>]>>])
               /\ UNCHANGED app
       /\ UNCHANGED <<backend, zone, ip, booted, changes, failures>>

HasAddress(k) == \E i \in DOMAIN zone[k] : zone[k][i] = ip

\* The address, asked again, is seen in the zone, or was waited for in vain.
waitForDns(a) ==
    /\ Written(a)
    /\ Put(a, Resting(flow[a].ip))
    /\ \E state \in {"installed", "error"} :
         /\ state = "installed" /\ backend # "none" => HasAddress(app[a].at)
         /\ app' = [app EXCEPT ![a].state = state]
    /\ UNCHANGED <<backend, zone, ip, booted, changes, failures>>

\* A mutant: the row of an app that is gone keeps its location.
KeepsLocation(a) == [app[a] EXCEPT !.state = "none"]

WithoutRecord(a) ==
    IF app[a].state = "pending_uninstall"
    THEN [state |-> "none", at |-> NoLocation, old |-> NoLocation]
    ELSE app[a]

\* unregisterSubdomain.  One backend removes the first record only, another takes the
\* answer of each removal for an error, and is asked again.
unregisterSubdomain(a) ==
    LET l == Leaves(a)
    IN /\ At(a, "del")
       /\ zone' = [zone EXCEPT ![l] = Removed(l, flow[a].ip)]
       /\ \/ /\ app' = [app EXCEPT ![a] = WithoutRecord(a)]
             /\ Put(a, IF app[a].state = "pending_uninstall" THEN Resting(flow[a].ip)
                                                         ELSE [Resting(ip) EXCEPT !.step = "get"])
          \/ /\ backend = "records" /\ zone' # zone
             /\ UNCHANGED <<app, flow>>
       /\ UNCHANGED <<backend, ip, booted, changes, failures>>

-----------------------------------------------------------------------------
\* Failures, and a new address.

\* What the error leads to: the records of the system are read again, or given up; one of
\* an app that is refreshed is left to the next refresh; a task begins again with what is
\* there, or ends.
AfterError(f) ==
    \/ /\ f \in System /\ ~flow[f].apps
       /\ \/ Put(f, [flow[f] EXCEPT !.step = "txt", !.todo = <<>>, !.ids = <<>>, !.n = 1])
          \/ Put(f, Resting(flow[f].ip))
       /\ UNCHANGED app
    \/ f = "refresh" /\ flow[f].apps /\ GoOn(f) /\ UNCHANGED app
    \/ f = "request" /\ Put(f, Resting(flow[f].ip)) /\ UNCHANGED app
    \/ /\ f \in Apps
       /\ \/ /\ Put(f, [flow[f] EXCEPT !.step = IF @ = "del" THEN @ ELSE "get",
                                        !.todo = <<>>, !.ids = <<>>, !.n = 1])
             /\ UNCHANGED app
          \/ Put(f, Resting(flow[f].ip)) /\ app' = [app EXCEPT ![f].state = "error"]

Asks(f) == flow[f].step \in {"txt", "get", "del", "put"} \/ (At(f, "write") /\ flow[f].todo # <<>>)

\* A request to the backend fails.
Fails(f) ==
    /\ Failure
    /\ Asks(f) /\ backend # "none"
    /\ AfterError(f)
    /\ UNCHANGED <<backend, zone, ip, booted, changes>>

\* It is carried out, but its answer is lost.
AnswerLost(f) ==
    /\ Failure
    /\ \/ At(f, "write") /\ flow[f].todo # <<>> /\ backend \in Replacing /\ ReplaceRecords(f)
       \/ At(f, "put") /\ Accepts(f) /\ PutOrPost(f)
    /\ AfterError(f)
    /\ UNCHANGED <<backend, ip, booted, changes>>

\* A record that was listed is gone, or there are too many.
Refused(f) ==
    /\ At(f, "put") /\ ~Accepts(f)
    /\ AfterError(f)
    /\ UNCHANGED <<backend, zone, ip, booted, changes, failures>>

NewAddress ==
    /\ Change
    /\ \E i \in Ips \ {ip} : ip' = i
    /\ UNCHANGED <<backend, zone, app, flow, booted, failures>>

SystemStep ==
    \/ ConfigureWebadmin \/ WebadminWritten \/ DnsConfigSet
    \/ RefreshDNS \/ RefreshApps \/ (\E l \in Subdomains : RefreshApp(l)) \/ RefreshEnds

TaskStep(a) ==
    BeginTask(a) \/ registerSubdomain(a) \/ waitForDns(a) \/ unregisterSubdomain(a)

Command ==
    \/ SetDnsConfig \/ NewAddress
    \/ \E a \in Apps : Uninstall(a) \/ \E l \in Subdomains : InstallApp(a, l) \/ ConfigureApp(a, l)

FlowStep(f) == upsert(f) \/ ReadTxt(f) \/ Refused(f)

DnsNext ==
    \/ SystemStep \/ Command
    \/ \E a \in Apps : TaskStep(a)
    \/ \E f \in Flows : FlowStep(f) \/ Fails(f) \/ AnswerLost(f)

\* What runs comes to its next step, and cron starts the refresh again.
Fairness ==
    /\ WF_dnsVars(SystemStep)
    /\ \A f \in Flows : WF_dnsVars(FlowStep(f))
    /\ \A a \in Apps : WF_dnsVars(TaskStep(a))

DnsSpec == DnsInit /\ [][DnsNext]_dnsVars /\ Fairness

-----------------------------------------------------------------------------
Addresses == Ips \cup {Theirs}
Texts == {TheirText, TheirSpf, OurSpf, BothSpf}

\* Every record is of its kind, and an app has a location exactly while it exists.
DnsTypeOK ==
    /\ \A k \in Keys :
         /\ Len(zone[k]) <= MaxRecords
         /\ \A i \in DOMAIN zone[k] : zone[k][i] \in {Deleted} \cup (IF k = Txt THEN Texts ELSE Addresses)
    /\ \A a \in Apps :
         /\ app[a].state \in {"none", "pending_install", "pending_configure", "pending_uninstall",
                              "installed", "error"}
         /\ app[a].at = NoLocation <=> app[a].state = "none"

(***************************************************************************)
(* No step loses a TXT record of the user, and his SPF record stays, with  *)
(* or without ours in it: between records that are written one after the   *)
(* other, after failures and lost answers, when a late list is written     *)
(* again, and with the webadmin and the refresh at it at once.  (As long   *)
(* as he does not change them himself.)                                    *)
(***************************************************************************)
Has(txt, v) == \E i \in DOMAIN txt : txt[i] = v
UserTextsKept ==
    [][/\ Has(zone[Txt], TheirText) => Has(zone'[Txt], TheirText)
       /\ Has(zone[Txt], TheirSpf) \/ Has(zone[Txt], BothSpf)
            => Has(zone'[Txt], TheirSpf) \/ Has(zone'[Txt], BothSpf)]_zone

(***************************************************************************)
(* When the address does not change any more, the webadmin and every app   *)
(* that is installed are in the zone with it in the end, whatever was      *)
(* under way with the old address and whatever failed.                     *)
(***************************************************************************)
RecordsFollowAddress ==
    <>[](backend # "none" =>
           HasAddress(Admin) /\ \A a \in Apps : app[a].state = "installed" => HasAddress(app[a].at))

-----------------------------------------------------------------------------
(***************************************************************************)
(* What one would expect and the code does not do; each of these fails.    *)
(***************************************************************************)

\* There can only be one SPF record; two writers at once add two, one by one.
OneSpf == Cardinality({i \in DOMAIN zone[Txt] : IsSpf(zone[Txt][i])}) <= 1

\* A record that we did not create is not updated; a configure updates it.
TheirsKept == \A l \in UserHas : zone[l] = <<Theirs>>

\* An app that is gone has no record; a refresh that read its row writes it again, and one
\* with an old address stays.
GoneHasNoRecord ==
    \A l \in Subdomains \ UserHas :
        (\A a \in Apps : app[a].at # l /\ app[a].old # l) => get(l) = <<>>
=============================================================================
