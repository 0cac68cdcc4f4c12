---------------------------- MODULE Certificates ----------------------------
(***************************************************************************)
(* Certificates: how each site of the box (its webadmin and its apps) gets *)
(* a certificate, how it is renewed before it expires, and what nginx is   *)
(* told to serve (src/src/certificates.js, cert/acme.js, cert/caas.js,     *)
(* cert/fallback.js, nginx.js, and what apptask.js, cloudron.js and        *)
(* apps.js do with them).                                                  *)
(*                                                                         *)
(* The renewal (a job of cron) and the configuration of the webadmin run   *)
(* in the box, the task of each app in a process of its own.  They share   *)
(* the files of the certificates, the configuration of nginx, and nginx,   *)
(* which refuses to load anything when one file is missing or one key does *)
(* not fit its certificate.                                                *)
(***************************************************************************)
EXTENDS Box, Naturals, FiniteSets

CONSTANTS
    Domains,      \* domains an app can have
    External,     \* those of them that are external domains of apps
    Admin,        \* the webadmin, and the name of its domain
    NoDomain,     \* not a domain
    MaxEvents,    \* bound: commands, settings, kills and crashes
    MaxTicks,     \* bound: steps of time
    MaxBoth       \* bound: these events and steps of time together

ASSUME CertificatesAssumption ==
    /\ IsFiniteSet(Apps) /\ IsFiniteSet(Domains)
    /\ Apps \cap {"renewal", "webadmin", "request"} = {}
    /\ External \subseteq Domains
    /\ Admin \notin Apps /\ Admin \notin Domains
    /\ NoDomain \notin Domains \cup {Admin}
    /\ MaxEvents \in Nat /\ MaxTicks \in Nat /\ MaxBoth \in Nat

VARIABLES
    provider, \* the provider of certificates: "le", "caas" or "fallback"
    user,     \* user[d]: the files the user gave: "none", "pair", "torn" or "half"
    host,     \* the fallback certificate of all domains, as kept and as nginx has it:
              \* "pair" or "torn" each
    key,      \* key[d]: the key in d.key, 0 for none
    cert,     \* cert[d]: what d.cert certifies and how long it is valid
    app,      \* app[a]: the row of an app
    conf,     \* conf[s]: the configuration file of a site
    loaded,   \* loaded[s]: what nginx serves for a site
    flow,     \* flow[f]: how far the renewal, the webadmin, a request and each task are
    renewed,  \* all certificates were looked at since time went on
    mishap,   \* something happened after which nginx may not load its files
    late,     \* time went on without a renewal, or a reload that was owed never came
    changes, ticks

certVars == <<provider, user, host, key, cert, app, conf, loaded, flow, renewed, mishap, late, changes, ticks>>

Sites == Apps \cup {Admin}
Names == Domains \cup {Admin}
Flows == Apps \cup {"renewal", "webadmin", "request"}

\* A certificate is valid for more than a month, more than a day, less than a day,
\* or not any more.
Month == 3
Day == 1
Expired == 0

NoCert == [key |-> 0, left |-> Expired]
NoConf == [domain |-> NoDomain, pair |-> "none"]
NotServed == [domain |-> NoDomain, pair |-> "none", left |-> Expired]
Idle == [step |-> "idle", site |-> Admin, domain |-> NoDomain, rows |-> {}]

\* A box that has just been set up, without apps.
FreshBox ==
    /\ provider \in {"le", "caas"}
    /\ key = [d \in Names |-> 0]
    /\ cert = [d \in Names |-> NoCert]
    /\ app = [a \in Apps |-> [state |-> "none", domain |-> NoDomain]]
    /\ conf = [s \in Sites |-> NoConf]
    /\ loaded = [s \in Sites |-> NotServed]

\* A box whose sites have had their certificates for two months.
BoxInUse ==
    /\ provider = "le"
    /\ \E at \in [Sites -> Names] :
        /\ at[Admin] = Admin
        /\ \A a \in Apps : at[a] \in Domains /\ \A b \in Apps \ {a} : at[b] # at[a]
        /\ key = [d \in Names |-> IF \E s \in Sites : at[s] = d THEN 1 ELSE 0]
        /\ cert = [d \in Names |-> IF key[d] = 1 THEN [key |-> 1, left |-> Month - 1] ELSE NoCert]
        /\ app = [a \in Apps |-> [state |-> "installed", domain |-> at[a]]]
        /\ conf = [s \in Sites |-> [domain |-> at[s], pair |-> "auto"]]
        /\ loaded = [s \in Sites |-> [domain |-> at[s], pair |-> "auto", left |-> Month - 1]]

CertInit ==
    /\ FreshBox \/ BoxInUse
    /\ user = [d \in Names |-> "none"]
    /\ host = [kept |-> "pair", used |-> "pair"]
    /\ flow = [f \in Flows |-> Idle]
    /\ renewed = FALSE
    /\ mishap = FALSE
    /\ late = FALSE
    /\ changes = 0
    /\ ticks = 0

files == <<user, host, key, cert>>
serving == <<conf, loaded>>
bounds == <<changes, ticks>>

Change ==
    /\ changes < MaxEvents /\ changes + ticks < MaxBoth
    /\ changes' = changes + 1

At(f, step) == flow[f].step = step
Put(f, r) == flow' = [flow EXCEPT ![f] = r]
Step(f, step) == Put(f, [flow[f] EXCEPT !.step = step])

-----------------------------------------------------------------------------
\* The files, and nginx.

UserPairExists(d) == user[d] \in {"pair", "torn"}
AutoPairExists(d) == key[d] # 0 /\ cert[d].key # 0

\* isExpiringSync, which also holds when there is no certificate.
IsExpiring(d, left) == cert[d].key = 0 \/ cert[d].left <= left

\* nginx can load this configuration file.
Loads(c) ==
    CASE c.pair = "none" -> TRUE
      [] c.pair = "user" -> user[c.domain] = "pair"
      [] c.pair = "auto" -> key[c.domain] # 0 /\ cert[c.domain].key = key[c.domain]
      [] c.pair = "host" -> host.used = "pair"

Left(c) == IF c.pair = "auto" THEN cert[c.domain].left ELSE Month

reload == \A s \in Sites : Loads(conf[s])

\* What nginx serves once it has been told to reload.
Reloaded ==
    IF reload
    THEN loaded' = [s \in Sites |->
             [domain |-> conf[s].domain, pair |-> conf[s].pair, left |-> Left(conf[s])]]
    ELSE UNCHANGED loaded

\* nginx serves a site as it is configured.
UpToDate(s) ==
    /\ loaded[s].domain = conf[s].domain /\ loaded[s].pair = conf[s].pair
    /\ conf[s].pair = "auto" => loaded[s].left = Left(conf[s])

\* A site that is to be served, and its domain.
Current(s) == s = Admin \/ (s \in Apps /\ app[s].state = "installed")
Own(s) == IF s = Admin THEN Admin ELSE app[s].domain

\* configureApp and configureAdmin write the file and then wait for the reload.
Configure(s, d, pair) == conf' = [conf EXCEPT ![s] = [domain |-> d, pair |-> pair]]

-----------------------------------------------------------------------------
\* ensureCertificate, for the task of an app or the webadmin.

Ensurers == Apps \cup {"webadmin"}

\* There is a certificate that is good for a day.
UsesFiles(f) ==
    LET d == flow[f].domain
    IN /\ f \in Ensurers /\ At(f, "ensure")
       /\ \/ UserPairExists(d) /\ Configure(flow[f].site, d, "user")
          \/ /\ ~UserPairExists(d)
             /\ AutoPairExists(d) /\ ~IsExpiring(d, Day)
             /\ Configure(flow[f].site, d, "auto")
       /\ Step(f, "reload")
       /\ UNCHANGED <<provider, files, app, loaded, renewed, mishap, late, bounds>>

AsksForCertificate(f) ==
    LET d == flow[f].domain
    IN /\ f \in Ensurers /\ At(f, "ensure")
       /\ ~UserPairExists(d)
       /\ ~AutoPairExists(d) \/ IsExpiring(d, Day)
       /\ Step(f, "api")
       /\ UNCHANGED <<provider, files, app, serving, renewed, mishap, late, bounds>>

\* getApi: external domains get theirs from the authority unless it is never asked.
UsesAcme(d) == provider # "fallback" /\ (provider # "caas" \/ d \in External)

StartsAcme(f) ==
    /\ At(f, "api")
    /\ UsesAcme(flow[f].domain)
    /\ Step(f, "register")
    /\ UNCHANGED <<provider, files, app, serving, renewed, mishap, late, bounds>>

\* A mutant: the files of the domain are used, whether there are any or not.
UsesOwnFiles(f) == Configure(flow[f].site, flow[f].domain, "auto")

\* The certificate of all domains is used.
UsesFallback(f) == Configure(flow[f].site, flow[f].domain, "host")

\* The other providers make no certificate: they name the fallback certificate, which
\* ensureCertificate uses.
getCertificate(f) ==
    /\ f \in Ensurers /\ At(f, "api")
    /\ ~UsesAcme(flow[f].domain)
    /\ UsesFallback(f)
    /\ Step(f, "reload")
    /\ UNCHANGED <<provider, files, app, loaded, renewed, mishap, late, bounds>>

-----------------------------------------------------------------------------
\* The flow of ACME: each step asks the authority and waits for its answer.

Goes(f, from, to) ==
    /\ At(f, from)
    /\ Step(f, to)
    /\ UNCHANGED <<provider, files, app, serving, renewed, mishap, late, bounds>>

\* The account is registered or its contact updated; the authority says how it will see
\* that the domain is ours, by a file under it, which is written before it is told to look.
Register(f) == Goes(f, "register", "wait")

\* The key that is there is used again.
KeyFor(d) == IF key[d] = 0 THEN 1 ELSE key[d]

\* The challenge is valid; a key is made unless there is one, and what is to be signed.
CreateKeyAndCsr(f) ==
    LET d == flow[f].domain
    IN /\ At(f, "wait")
       /\ key' = [key EXCEPT ![d] = KeyFor(d)]
       /\ Step(f, "sign")
       /\ UNCHANGED <<provider, user, host, cert, app, serving, renewed, mishap, late, bounds>>

\* The authority signs it, for the key that is there, as keys are never replaced; the
\* certificate and its chain are downloaded, and the caller has them configured.
DownloadCertificate(f) ==
    LET d == flow[f].domain
    IN /\ At(f, "sign")
       /\ cert' = [cert EXCEPT ![d] = [key |-> key[d], left |-> Month]]
       /\ Configure(flow[f].site, d, "auto")
       /\ Step(f, "reload")
       /\ UNCHANGED <<provider, user, host, key, app, loaded, renewed, mishap, late, bounds>>

AcmeSteps == {"register", "wait", "sign"}

\* An error, an answer that was not expected or ten waits in vain: ensureCertificate
\* uses the fallback certificate.
AcmeFails(f) ==
    /\ f \in Ensurers /\ flow[f].step \in AcmeSteps
    /\ UsesFallback(f)
    /\ Step(f, "reload")
    /\ UNCHANGED <<provider, files, app, loaded, renewed, mishap, late, bounds>>

\* The certificate comes without the address of its chain: the error is returned to
\* nobody and the flow never ends.  A task stays at it until it is killed, the webadmin
\* until the box is started again; the renewal looks at none of the sites that are left,
\* and the next one starts over.
AcmeHangs(f) ==
    /\ At(f, "sign")
    /\ IF f = "renewal" THEN Put(f, Idle) ELSE Step(f, "hung")
    /\ late' = (late \/ (f = "webadmin" /\ \E s \in Sites : Current(s) /\ ~UpToDate(s)))
    /\ UNCHANGED <<provider, files, app, serving, renewed, mishap, bounds>>

-----------------------------------------------------------------------------
\* renewAll.

\* The sites and their domains, by the rows of now.
Rows == {[site |-> a, domain |-> app[a].domain] : a \in {b \in Apps : app[b].state # "none"}}
            \cup {[site |-> Admin, domain |-> Admin]}

\* Those with a key of ours and a certificate that expires within a month, or none.
ToRenew == {r \in Rows : ~UserPairExists(r.domain) /\ key[r.domain] # 0
                            /\ IsExpiring(r.domain, Month - 1)}

GetAll ==
    /\ At("renewal", "idle")
    /\ IF ToRenew = {}
       THEN Put("renewal", Idle) /\ renewed' = TRUE
       ELSE /\ Put("renewal", [Idle EXCEPT !.step = "next", !.rows = ToRenew])
            /\ UNCHANGED renewed
    /\ UNCHANGED <<provider, files, app, serving, mishap, late, bounds>>

NextSite ==
    /\ At("renewal", "next")
    /\ \E r \in flow["renewal"].rows :
         Put("renewal", [flow["renewal"] EXCEPT !.step = "api", !.site = r.site,
                                                !.domain = r.domain, !.rows = @ \ {r}])
    /\ UNCHANGED <<provider, files, app, serving, renewed, mishap, late, bounds>>

\* The list is done, or goes on with the next site.
Continue ==
    IF flow["renewal"].rows = {}
    THEN Put("renewal", Idle) /\ renewed' = TRUE
    ELSE Step("renewal", "next") /\ UNCHANGED renewed

\* The provider makes no certificate and says so to nobody: the files of the domain
\* are configured as if they were new.
RenewsNothing ==
    LET f == "renewal"
    IN /\ At(f, "api")
       /\ ~UsesAcme(flow[f].domain)
       /\ Configure(flow[f].site, flow[f].domain, "auto")
       /\ Step(f, "reload")
       /\ mishap' = TRUE
       /\ UNCHANGED <<provider, files, app, loaded, renewed, late, bounds>>

\* The settings of the provider cannot be read: the renewal ends.
RenewalGivesUp ==
    /\ At("renewal", "api")
    /\ Put("renewal", Idle)
    /\ UNCHANGED <<provider, files, app, serving, renewed, mishap, late, bounds>>

\* A mutant: the certificate is kept until the next try.
KeepsCertificate ==
    /\ Continue
    /\ UNCHANGED conf

\* The certificate is good for another day, or the fallback certificate is used.
KeepsOrFallsBack ==
    LET f == "renewal"
    IN IF IsExpiring(flow[f].domain, Day)
       THEN UsesFallback(f) /\ Step(f, "reload") /\ UNCHANGED renewed
       ELSE Continue /\ UNCHANGED conf

RenewalFails ==
    /\ flow["renewal"].step \in AcmeSteps
    /\ KeepsOrFallsBack
    /\ UNCHANGED <<provider, files, app, loaded, mishap, late, bounds>>

\* nginx was told; whether it could reload is not asked.
RenewalReloads ==
    /\ At("renewal", "reload")
    /\ Reloaded
    /\ Continue
    /\ UNCHANGED <<provider, files, app, conf, mishap, late, bounds>>

-----------------------------------------------------------------------------
\* The webadmin.

\* configureWebadmin, once its DNS record is seen; not while it is at work.
ConfigureWebadmin ==
    /\ Change
    /\ At("webadmin", "idle")
    /\ Put("webadmin", [Idle EXCEPT !.step = "ensure", !.domain = Admin])
    /\ UNCHANGED <<provider, files, app, serving, renewed, mishap, late, ticks>>

WebadminReloads ==
    /\ At("webadmin", "reload")
    /\ Reloaded
    /\ Put("webadmin", Idle)
    /\ UNCHANGED <<provider, files, app, conf, renewed, mishap, late, bounds>>

-----------------------------------------------------------------------------
\* Tasks of apps.

CanConfigure(a) == app[a].state \in {"installed", "error", "pending"}
Pending(a) == app[a].state \in {"pending", "pending_uninstall"}

Taken == {app[a].domain : a \in {b \in Apps : app[b].state # "none"}}

\* install and configure: the row has the new domain before the task starts.  A task
\* at work is killed.
Install(a, d) ==
    /\ Change
    /\ app[a].state = "none" /\ d \notin Taken
    /\ app' = [app EXCEPT ![a] = [state |-> "pending", domain |-> d]]
    /\ UNCHANGED <<provider, files, serving, flow, renewed, mishap, late, ticks>>

ConfigureCommand(a, d) ==
    /\ Change
    /\ CanConfigure(a)
    /\ d = app[a].domain \/ d \notin Taken
    /\ app' = [app EXCEPT ![a] = [state |-> "pending", domain |-> d]]
    /\ Put(a, Idle)
    /\ UNCHANGED <<provider, files, serving, renewed, mishap, late, ticks>>

Uninstall(a) ==
    /\ Change
    /\ app[a].state # "none"
    /\ app' = [app EXCEPT ![a].state = "pending_uninstall"]
    /\ Put(a, Idle)
    /\ UNCHANGED <<provider, files, serving, renewed, mishap, late, ticks>>

\* The configuration of nginx goes first.
Unconfigure(a) ==
    /\ At(a, "idle") /\ Pending(a)
    /\ conf' = [conf EXCEPT ![a] = NoConf]
    /\ Put(a, [Idle EXCEPT !.step = IF conf[a] = NoConf THEN "unconfigured" ELSE "unconfigure",
                           !.site = a, !.domain = app[a].domain])
    /\ UNCHANGED <<provider, files, app, loaded, renewed, mishap, late, bounds>>

\* nginx was told; an error ends the task.
Unconfigured(a) ==
    /\ At(a, "unconfigure")
    /\ Reloaded
    /\ IF reload THEN Step(a, "unconfigured") /\ UNCHANGED app
                 ELSE Put(a, Idle) /\ app' = [app EXCEPT ![a].state = "error"]
    /\ UNCHANGED <<provider, files, conf, renewed, mishap, late, bounds>>

\* The other steps of the task are done, or one of them failed.
TaskGoesOn(a) ==
    /\ At(a, "unconfigured")
    /\ \/ /\ app[a].state = "pending"
          /\ Step(a, "ensure")
          /\ UNCHANGED app
       \/ /\ app[a].state = "pending_uninstall"
          /\ Put(a, Idle)
          /\ app' = [app EXCEPT ![a] = [state |-> "none", domain |-> NoDomain]]
       \/ /\ Put(a, Idle)
          /\ app' = [app EXCEPT ![a].state = "error"]
    /\ UNCHANGED <<provider, files, serving, renewed, mishap, late, bounds>>

TaskReloads(a) ==
    /\ At(a, "reload")
    /\ Reloaded
    /\ Put(a, Idle)
    /\ app' = [app EXCEPT ![a].state = IF reload THEN "installed" ELSE "error"]
    /\ UNCHANGED <<provider, files, conf, renewed, mishap, late, bounds>>

-----------------------------------------------------------------------------
\* The files of the user, and a new start.

\* Both files of a pair are written, or only the certificate is.
Written(old) == {"pair", IF old \in {"none", "half"} THEN "half" ELSE "torn"}

\* A command to configure the app at location l comes with files, which are for the
\* domain of the box at that location, whatever other domain the app has.  They are
\* there before the command is accepted, and stay when it is not; a task at work is
\* killed once it is.
BringsFiles(a, l) == app[a].state # "none" /\ l \in Domains \ External

AcceptsFiles(a, l, d) ==
    /\ CanConfigure(a)
    /\ d = l \/ d \in External
    /\ \A b \in Apps \ {a} : app[b].state # "none" => app[b].domain \notin {l, d}
    /\ app' = [app EXCEPT ![a] = [state |-> "pending", domain |-> d]]
    /\ Put(a, Idle)

RefusesFiles == UNCHANGED <<app, flow>>

SetUserPair(a, l, d) ==
    /\ Change
    /\ BringsFiles(a, l)
    /\ \E files2 \in Written(user[l]) :
         /\ user' = [user EXCEPT ![l] = files2]
         /\ mishap' = (mishap \/ files2 # "pair")
         /\ RefusesFiles \/ (files2 = "pair" /\ AcceptsFiles(a, l, d))
    /\ UNCHANGED <<provider, host, key, cert, serving, renewed, late, ticks>>

\* A site would be served with a certificate of ours that no renewal looked at while
\* the user's files were there.
Uncovers(s, d) ==
    \/ conf[s] = [domain |-> d, pair |-> "auto"] /\ IsExpiring(d, Day)
    \/ loaded[s].domain = d /\ loaded[s].pair = "auto" /\ loaded[s].left <= Day

\* The files are gone before the task of an app has nginx use others.
RemoveUserPair(a, l, d) ==
    /\ Change
    /\ BringsFiles(a, l)
    /\ user[l] # "none"
    /\ user' = [user EXCEPT ![l] = "none"]
    /\ mishap' = (mishap \/ \E s \in Sites : conf[s].pair = "user" /\ conf[s].domain = l)
    /\ late' = (late \/ \E s \in Sites : Current(s) /\ Own(s) = l /\ Uncovers(s, l))
    /\ RefusesFiles \/ AcceptsFiles(a, l, d)
    /\ UNCHANGED <<provider, host, key, cert, serving, renewed, ticks>>

\* The webadmin is configured with it in the same turn.
SetAdminCertificate ==
    /\ Change
    /\ At("request", "idle")
    /\ \E files2 \in Written(user[Admin]) :
         /\ user' = [user EXCEPT ![Admin] = files2]
         /\ mishap' = (mishap \/ files2 # "pair")
         /\ IF files2 = "pair" THEN Configure(Admin, Admin, "user") /\ Step("request", "reload")
                               ELSE UNCHANGED <<conf, flow>>
    /\ UNCHANGED <<provider, host, key, cert, app, loaded, renewed, late, ticks>>

\* Four files: the pair that is kept, then its copy for nginx.
SetFallbackCertificate ==
    /\ Change
    /\ At("request", "idle")
    /\ \E host2 \in {[kept |-> "torn", used |-> host.used], [kept |-> "pair", used |-> "torn"],
                      [kept |-> "pair", used |-> "pair"]} :
         /\ host' = host2
         /\ IF host2.kept = "pair" /\ host2.used = "pair"
            THEN Step("request", "reload") /\ UNCHANGED mishap
            ELSE mishap' = TRUE /\ UNCHANGED flow
    /\ UNCHANGED <<provider, user, key, cert, app, serving, renewed, late, ticks>>

\* The reload at the end of these two requests.
RequestReloads ==
    /\ At("request", "reload")
    /\ Reloaded
    /\ Put("request", Idle)
    /\ UNCHANGED <<provider, files, app, conf, renewed, mishap, late, bounds>>

\* The box is started again: it copies the fallback certificate for nginx and has the
\* webadmin configured.  Tasks start from the beginning.  When it was the host that was
\* set up again, it may have been given another provider.
Restart ==
    /\ Change
    /\ provider' \in {"le", "caas", "fallback"}
    /\ host' = [host EXCEPT !.used = host.kept]
    /\ flow' = [f \in Flows |-> IF f = "webadmin" THEN [Idle EXCEPT !.step = "ensure", !.domain = Admin]
                                                  ELSE Idle]
    /\ UNCHANGED <<user, key, cert, app, serving, renewed, mishap, late, ticks>>

-----------------------------------------------------------------------------
\* Time goes on: certificates are valid for weeks, while the renewal is started twice a
\* day and no flow that is still alive takes as long as that.
Tick ==
    /\ ticks < MaxTicks /\ changes + ticks < MaxBoth
    /\ \A f \in Flows : At(f, "idle") \/ At(f, "hung")
    /\ cert' = [d \in Names |-> [cert[d] EXCEPT !.left = IF @ = Expired THEN @ ELSE @ - 1]]
    /\ loaded' = [s \in Sites |-> [loaded[s] EXCEPT !.left =
                     IF loaded[s].pair # "auto" \/ @ = Expired THEN @ ELSE @ - 1]]
    /\ late' = (late \/ ~renewed)
    /\ renewed' = FALSE
    /\ ticks' = ticks + 1
    /\ UNCHANGED <<provider, user, host, key, app, conf, flow, mishap, changes>>

AcmeStep(f) ==
    \/ StartsAcme(f) \/ Register(f) \/ CreateKeyAndCsr(f) \/ DownloadCertificate(f)
    \/ AcmeHangs(f)

EnsureStep(f) == UsesFiles(f) \/ AsksForCertificate(f) \/ getCertificate(f) \/ AcmeFails(f)

RenewalStep ==
    GetAll \/ NextSite \/ RenewsNothing \/ RenewalFails \/ RenewalReloads \/ RenewalGivesUp

TaskStep(a) ==
    \/ \E d \in Domains : Install(a, d) \/ ConfigureCommand(a, d)
    \/ Uninstall(a) \/ Unconfigure(a) \/ Unconfigured(a) \/ TaskGoesOn(a) \/ TaskReloads(a)
    \/ \E l, d \in Domains : SetUserPair(a, l, d) \/ RemoveUserPair(a, l, d)

CertNext ==
    \/ \E f \in Flows : AcmeStep(f) \/ EnsureStep(f)
    \/ RenewalStep
    \/ ConfigureWebadmin \/ WebadminReloads
    \/ \E a \in Apps : TaskStep(a)
    \/ SetAdminCertificate \/ SetFallbackCertificate \/ RequestReloads
    \/ Restart \/ Tick

CertSpec == CertInit /\ [][CertNext]_certVars

-----------------------------------------------------------------------------
Confs == {NoConf} \cup [domain : Names, pair : {"user", "auto", "host"}]

\* Every variable holds a value the code can give it.
CertTypeOK ==
    /\ provider \in {"le", "caas", "fallback"}
    /\ user \in [Names -> {"none", "pair", "torn", "half"}]
    /\ host \in [kept : {"pair", "torn"}, used : {"pair", "torn"}]
    /\ key \in [Names -> 0..2]
    /\ cert \in [Names -> [key : 0..2, left : Expired..Month]]
    /\ app \in [Apps -> [state : {"none", "pending", "pending_uninstall", "installed", "error"},
                         domain : Domains \cup {NoDomain}]]
    /\ conf \in [Sites -> Confs]

(***************************************************************************)
(* nginx can always be told to reload: each configuration file names files *)
(* that are there and a key that fits its certificate, whatever step of a  *)
(* renewal, of a task or of the webadmin failed or was cut short.  If not, *)
(* the tasks of all other apps would fail.  (Excepted is what `mishap'     *)
(* notes: a certificate of the user that is taken back while nginx uses it *)
(* or was written by half, and a renewal by a provider that makes none.)   *)
(***************************************************************************)
NginxReloads == mishap \/ reload

(***************************************************************************)
(* The webadmin and an app that is installed are never served with an      *)
(* expired certificate of ours as long as some renewal comes to its end in *)
(* each step of time, however many others were given up or never ended:    *)
(* it gets a new one or falls back in time, whatever tasks of apps fail,   *)
(* hang or configure meanwhile.  (Excepted, with what `mishap' and `late'  *)
(* note, are a site the user gave files for and one the renewal has put    *)
(* back to the domain it moved from.)                                      *)
(***************************************************************************)
ServesNoExpired ==
    mishap \/ late \/ \A s \in Sites :
        /\ Current(s) /\ Own(s) = loaded[s].domain
        /\ loaded[s].pair = "auto" /\ ~UserPairExists(loaded[s].domain)
        => loaded[s].left # Expired

-----------------------------------------------------------------------------
(***************************************************************************)
(* What one would expect and the code does not do; each of these fails.    *)
(***************************************************************************)

\* An app that is gone is not configured; the renewal configures the apps it read.
GoneIsNotServed == \A a \in Apps : app[a].state = "none" => conf[a] = NoConf

\* An app is configured for the domain it has.
ServedAtItsDomain ==
    \A a \in Apps : app[a].state = "installed" => conf[a].domain = app[a].domain

\* The certificate of the user is served once he gave it: one that was being obtained
\* when he did is configured over it, and never renewed.
UserCertificateServed == \A s \in Sites : loaded[s].left = Expired => loaded[s].pair # "auto"

\* The renewal always falls back in time: one that never ends or is given up does not,
\* nor does it look at the sites after the one it was at.
NeverServesExpired ==
    \A s \in Sites :
        /\ Current(s) /\ Own(s) = loaded[s].domain
        /\ loaded[s].pair = "auto" /\ ~UserPairExists(loaded[s].domain)
        => loaded[s].left # Expired

\* nginx can be told to reload whatever the administrator did.
NginxAlwaysReloads == reload
=============================================================================
