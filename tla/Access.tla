------------------------------- MODULE Access -------------------------------
(***************************************************************************)
(* Who is let in: OAuth clients, auth codes and tokens, the login of the   *)
(* users of an app through OAuth and LDAP, and the credentials an app gets *)
(* for it (src/src/clients.js, clientdb.js, tokendb.js, authcodedb.js,     *)
(* auth.js, developer.js, ldap.js, the oauth addon of addons.js).          *)
(*                                                                         *)
(* Requests and the task of an app run at the same time, one database      *)
(* query each in turn.  The task may be killed, fail or lose the box in    *)
(* between; its command stays in the database and it starts over.          *)
(* Ids of users, clients, tokens and codes are random and never come back, *)
(* so that something that was removed stays distinct from what is new.     *)
(*                                                                         *)
(* Passwords and client secrets are right or there is no request; the      *)
(* session of a browser is the user it is of.                              *)
(***************************************************************************)
EXTENDS Naturals, FiniteSets

CONSTANTS
    Users,        \* user ids
    Apps,         \* apps that use the oauth addon
    Group,        \* a group of users an app can be restricted to
    Everyone,     \* what the row of an app names that has no restriction (null)
    Restrictions, \* the access restrictions: sets of users, Group and Everyone
    BuiltIn,      \* cid-webadmin, cid-sdk or cid-cli: always there and here all alike
    None,         \* no client, no app, no user
    Requests,     \* requests at work at once
    MaxRequests,  \* bound: requests
    MaxClients,   \* bound: clients that are added
    MaxTokens,    \* bound: tokens
    MaxCodes,     \* bound: auth codes
    MaxEvents     \* bound: kills, failures, commands, removals, expiries and other changes

ASSUME AccessAssumption ==
    /\ MaxClients \in Nat /\ MaxTokens \in Nat \ {0} /\ MaxCodes \in Nat \ {0}
    /\ MaxRequests \in Nat /\ MaxEvents \in Nat
    /\ IsFiniteSet(Apps) /\ Cardinality(Apps) <= MaxClients
    /\ {BuiltIn, None} \cap (1..MaxClients) = {}
    /\ None # BuiltIn
    /\ None \notin Users \cup Apps
    /\ Group \notin Users
    /\ Everyone \notin Users \cup {Group}
    /\ Restrictions \subseteq SUBSET (Users \cup {Group, Everyone})
    /\ {Everyone} \in Restrictions

VARIABLES
    users,      \* users that are there
    members,    \* members of Group
    developer,  \* developer mode
    client,     \* client[c]: the row of a client
    token,      \* token[t]: the row of a token
    code,       \* code[k]: the row of an auth code, and how many tokens it was exchanged for
    app,        \* app[a]: its row, its oauth addon, its container and its task
    request,    \* request[r]: how far a request is and what it has read
    requests,   \* requests so far
    events      \* kills, failures and changes so far

dbVars == <<users, members, developer, client, token, code>>
vars == <<dbVars, app, request, requests, events>>

Tokens == 1..MaxTokens
Codes == 1..MaxCodes
Clients == (1..MaxClients) \cup {BuiltIn}

\* Scopes, as far as the routes of clients tell them apart: "settings" stands for
\* every list with that scope or *, "profile" for a list without.
Scopes == {"profile", "settings"}

NoClient == [type |-> "none", app |-> None, scope |-> "profile"]
NoToken == [state |-> "none", user |-> None, client |-> None, scope |-> "profile"]
NoCode == [state |-> "none", user |-> None, client |-> None, spent |-> 0]

NewToken(u, c, scope) == [state |-> "live", user |-> u, client |-> c, scope |-> scope]
NewCode(u, c) == [state |-> "live", user |-> u, client |-> c, spent |-> 0]
OauthClient(a) == [type |-> "addon-oauth", app |-> a, scope |-> "profile"]
ExternalClient(scope) == [type |-> "external", app |-> None, scope |-> scope]

DefaultClient ==
    [type |-> "built-in", app |-> None, scope |-> "settings"]

\* An installed app: config is the client its addon config names, env the client
\* its container was made with, found the one its task works on.
Installed(c) == [row |-> "here", command |-> "none", step |-> "containers",
                 restriction |-> {Everyone}, config |-> c, env |-> c, found |-> None]

\* barred: the user was removed before the request came in.
Idle == [kind |-> "none", step |-> "idle", user |-> None, client |-> None, scope |-> "profile",
         token |-> 0, code |-> 0, app |-> None, barred |-> FALSE]

\* A Cloudron in use: the apps are installed, a user is logged in to the webadmin
\* and is about to be logged in to an app.
Init ==
    /\ users = Users
    /\ members \in SUBSET Users
    /\ developer = TRUE
    /\ \E id \in [Apps -> 1..Cardinality(Apps)], u \in Users, a \in Apps :
         /\ \A b, c \in Apps : b # c => id[b] # id[c]
         /\ client = [c \in Clients |->
                        IF c = BuiltIn THEN DefaultClient
                        ELSE IF \E b \in Apps : id[b] = c THEN OauthClient(CHOOSE b \in Apps : id[b] = c)
                        ELSE NoClient]
         /\ app = [b \in Apps |-> Installed(id[b])]
         /\ token = [t \in Tokens |-> IF t = 1 THEN NewToken(u, BuiltIn, "settings") ELSE NoToken]
         /\ code = [k \in Codes |-> IF k = 1 THEN NewCode(u, id[a]) ELSE NoCode]
    /\ request = [r \in Requests |-> Idle]
    /\ requests = 0
    /\ events = 0

-----------------------------------------------------------------------------
\* Rows.

ClientExists(c) == c \in Clients /\ client[c].type \notin {"none", "gone"}
TokenValid(t) == token[t].state = "live"
CodeValid(k) == code[k].state = "live"

OauthClients(a) == {c \in Clients : client[c].type = "addon-oauth" /\ client[c].app = a}

\* The id a new row gets.
Fresh(f, S) == CHOOSE i \in S : f[i].state = "none"
HasFresh(f, S) == \E i \in S : f[i].state = "none"
FreshClient == CHOOSE i \in 1..MaxClients : client[i].type = "none"
HasFreshClient == \E i \in 1..MaxClients : client[i].type = "none"

\* A mutant: the scope is what addClientTokenByUserId answers for it.
TokensWithClientAsScope(u, c, scope) ==
    [token EXCEPT ![Fresh(token, Tokens)] = NewToken(u, c, c)]

TokensWith(u, c, scope) ==
    [token EXCEPT ![Fresh(token, Tokens)] = NewToken(u, c, scope)]

TokensWithout(S) == [t \in Tokens |-> IF t \in S /\ token[t].state # "none"
                                        THEN [token[t] EXCEPT !.state = "gone"] ELSE token[t]]
DelToken(t) == TokensWithout({t})
DelByClientId(c) == TokensWithout({t \in Tokens : token[t].client = c})
DelByIdentifierAndClientId(u, c) ==
    TokensWithout({t \in Tokens : token[t].user = u /\ token[t].client = c})
DelExpired == TokensWithout({t \in Tokens : token[t].state = "expired"})

CodesWith(u, c) == [code EXCEPT ![Fresh(code, Codes)] = NewCode(u, c)]
CodesWithout(S) == [k \in Codes |-> IF k \in S THEN [code[k] EXCEPT !.state = "gone"] ELSE code[k]]

ClientsWith(row) == [client EXCEPT ![FreshClient] = row]

ClientsWithout(S) == [c \in Clients |-> IF c \in S THEN [client[c] EXCEPT !.type = "gone"] ELSE client[c]]
DelClient(c) == ClientsWithout({c})
DelByAppIdAndType(a) == ClientsWithout(OauthClients(a))

\* What the row says of a user; Group asks the database once more.
NamesUser(restriction, u) == restriction \cap {u, Everyone} # {}
AsksGroup(restriction) == Group \in restriction

-----------------------------------------------------------------------------
\* What is asked.

Ask(r, rec) ==
    /\ request[r] = Idle
    /\ requests < MaxRequests
    /\ requests' = requests + 1
    /\ request' = [request EXCEPT ![r] = rec]
    /\ UNCHANGED <<dbVars, app, events>>

\* A call of the API with a token, that a box of which the token is unknown or
\* expired will refuse.  What changes clients or adds tokens needs developer mode.
AskApi(r, t, kind, c) ==
    /\ token[t].state # "none"
    /\ IF kind = "add client" THEN c = BuiltIn ELSE client[c].type # "none"
    /\ kind \in {"add client", "del client", "add token"} => developer
    /\ Ask(r, [Idle EXCEPT !.kind = kind, !.step = "token", !.token = t, !.client = c,
                           !.barred = token[t].user \notin users])

\* The dialog of OAuth in a browser of a user, for a code or for a token.
AskAuthorization(r, u, c, kind) ==
    /\ client[c].type # "none"
    /\ Ask(r, [Idle EXCEPT !.kind = kind, !.step = "session", !.user = u, !.client = c,
                           !.barred = u \notin users])

\* A client wants a token for a code it has got.
AskExchange(r, c, k) ==
    /\ client[c].type # "none"
    /\ code[k].state # "none"
    /\ Ask(r, [Idle EXCEPT !.kind = "exchange", !.step = "authenticate", !.client = c, !.code = k])

\* The cloudron tool logs in.
AskDeveloperLogin(r, u) ==
    /\ developer
    /\ Ask(r, [Idle EXCEPT !.kind = "login", !.step = "verify", !.user = u, !.client = BuiltIn,
                           !.scope = "settings", !.barred = u \notin users])

\* A user who has set a password is logged in with a token for everything.
AskPassword(r, u) ==
    Ask(r, [Idle EXCEPT !.kind = "password", !.step = "verify", !.user = u, !.client = BuiltIn,
                        !.scope = "settings", !.barred = u \notin users])

\* An app binds as the user who gave it his password.
AskBind(r, u, a) ==
    /\ app[a].env # None
    /\ Ask(r, [Idle EXCEPT !.kind = "bind", !.step = "verify", !.user = u, !.app = a,
                           !.barred = u \notin users])

-----------------------------------------------------------------------------
\* How it is answered.

Go(r, step) == request' = [request EXCEPT ![r].step = step]
Finish(r) == request' = [request EXCEPT ![r] = Idle]
At(r, step) == request[r].step = step
NothingElse == UNCHANGED <<requests, events>>

\* The bearer strategy looks for the token and then for its user.
ReadToken(r) ==
    /\ At(r, "token")
    /\ IF TokenValid(request[r].token)
         THEN request' = [request EXCEPT ![r].user = token[request[r].token].user,
                                         ![r].scope = token[request[r].token].scope,
                                         ![r].step = "user"]
         ELSE Finish(r)
    /\ UNCHANGED <<dbVars, app>> /\ NothingElse

\* The first query of each operation.
FirstStep == [k \in {"add client", "del client", "add token", "del token", "del tokens"} |->
                CASE k = "add client" -> "insert client"
                  [] k = "del tokens" -> "delete tokens"
                  [] OTHER -> "client"]

\* A mutant: the token speaks for itself.
LetInByToken(r) == request[r].scope = "settings"

LetIn(r) == request[r].user \in users /\ request[r].scope = "settings"

ReadUser(r) ==
    /\ At(r, "user")
    /\ IF LetIn(r) THEN Go(r, FirstStep[request[r].kind]) ELSE Finish(r)
    /\ UNCHANGED <<dbVars, app>> /\ NothingElse

\* The user of a session, of a password, or of a bind.
ReadSession(r) ==
    /\ \/ At(r, "session")
       \/ At(r, "verify")
    /\ IF request[r].user \in users
         THEN Go(r, CASE request[r].kind = "bind" -> "container"
                      [] request[r].kind \in {"login", "password"} -> "insert token"
                      [] OTHER -> "client")
         ELSE Finish(r)
    /\ UNCHANGED <<dbVars, app>> /\ NothingElse

\* clients.add, of an external client.
InsertClient(r) ==
    /\ At(r, "insert client")
    /\ HasFreshClient
    /\ \E scope \in Scopes : client' = ClientsWith(ExternalClient(scope))
    /\ Finish(r)
    /\ UNCHANGED <<users, members, developer, token, code, app>> /\ NothingElse

\* What follows when the client is there.
WithClient(r, c) ==
    CASE request[r].kind = "del client" ->
           IF client[c].type = "external" THEN Go(r, "delete client") ELSE Finish(r)
      [] request[r].kind = "add token" ->
           request' = [request EXCEPT ![r].scope = client[c].scope, ![r].step = "insert token"]
      [] request[r].kind = "del token" -> Go(r, "delete token")
      [] OTHER ->
           IF client[c].type = "addon-oauth"
             THEN request' = [request EXCEPT ![r].scope = client[c].scope, ![r].app = client[c].app,
                                             ![r].step = "app"]
             ELSE request' = [request EXCEPT ![r].scope = client[c].scope, ![r].step = "grant"]

GetClient(r) ==
    /\ At(r, "client")
    /\ IF ClientExists(request[r].client) THEN WithClient(r, request[r].client) ELSE Finish(r)
    /\ UNCHANGED <<dbVars, app>> /\ NothingElse

\* clients.del deletes the row and leaves the tokens.
DeleteClient(r) ==
    /\ At(r, "delete client")
    /\ client' = DelClient(request[r].client)
    /\ Finish(r)
    /\ UNCHANGED <<users, members, developer, token, code, app>> /\ NothingElse

\* The last query of each kind of request that makes a token.
InsertToken(r, kind) ==
    /\ request[r].kind = kind
    /\ HasFresh(token, Tokens)
    /\ token' = TokensWith(request[r].user, request[r].client, request[r].scope)
    /\ Finish(r)
    /\ UNCHANGED <<users, members, developer, client, app>> /\ NothingElse

AddClientToken(r) == At(r, "insert token") /\ InsertToken(r, "add token") /\ UNCHANGED code

IssueDeveloperToken(r) == At(r, "insert token") /\ InsertToken(r, "login") /\ UNCHANGED code

AddPasswordToken(r) == At(r, "insert token") /\ InsertToken(r, "password") /\ UNCHANGED code

GrantToken(r) == At(r, "grant") /\ InsertToken(r, "token") /\ UNCHANGED code

ExchangeToken(r) ==
    /\ At(r, "insert token")
    /\ InsertToken(r, "exchange")
    /\ code' = [code EXCEPT ![request[r].code].spent = @ + 1]

\* Any token can be named.
DeleteToken(r, t) ==
    /\ At(r, "delete token")
    /\ token[t].state # "none"
    /\ token' = DelToken(t)
    /\ Finish(r)
    /\ UNCHANGED <<users, members, developer, client, code, app>> /\ NothingElse

DeleteTokens(r) ==
    /\ At(r, "delete tokens")
    /\ token' = DelByIdentifierAndClientId(request[r].user, request[r].client)
    /\ Finish(r)
    /\ UNCHANGED <<users, members, developer, client, code, app>> /\ NothingElse

\* hasAccessTo decides on the row it was given, and asks for the group.
Decide(r, restriction, granted) ==
    IF NamesUser(restriction, request[r].user) THEN Go(r, granted)
    ELSE IF AsksGroup(restriction) THEN Go(r, "member")
    ELSE Finish(r)

Granted(r) == IF request[r].kind = "bind" THEN "accepted" ELSE "grant"

\* The app of the client, or of the container that binds.
GetApp(r) ==
    /\ \/ At(r, "app") /\ app[request[r].app].row = "here"
       \/ At(r, "container") /\ app[request[r].app].env # None /\ app[request[r].app].row = "here"
    /\ Decide(r, app[request[r].app].restriction, Granted(r))
    /\ UNCHANGED <<dbVars, app>> /\ NothingElse

NoApp(r) ==
    /\ \/ At(r, "app") /\ app[request[r].app].row = "gone"
       \/ At(r, "container") /\ app[request[r].app].env = None
    /\ Finish(r)
    /\ UNCHANGED <<dbVars, app>> /\ NothingElse

IsMember(r) ==
    /\ At(r, "member")
    /\ IF request[r].user \in members THEN Go(r, Granted(r)) ELSE Finish(r)
    /\ UNCHANGED <<dbVars, app>> /\ NothingElse

Accept(r) ==
    /\ At(r, "accepted")
    /\ Finish(r)
    /\ UNCHANGED <<dbVars, app>> /\ NothingElse

GrantCode(r) ==
    /\ At(r, "grant") /\ request[r].kind = "code"
    /\ HasFresh(code, Codes)
    /\ code' = CodesWith(request[r].user, request[r].client)
    /\ Finish(r)
    /\ UNCHANGED <<users, members, developer, client, token, app>> /\ NothingElse

-----------------------------------------------------------------------------
\* An exchange: the client, the code, the end of the code, the token.

Authenticate(r) ==
    /\ At(r, "authenticate")
    /\ IF ClientExists(request[r].client)
         THEN request' = [request EXCEPT ![r].scope = client[request[r].client].scope,
                                         ![r].step = "code"]
         ELSE Finish(r)
    /\ UNCHANGED <<dbVars, app>> /\ NothingElse

ReadCode(r) ==
    /\ At(r, "code")
    /\ IF CodeValid(request[r].code) /\ code[request[r].code].client = request[r].client
         THEN request' = [request EXCEPT ![r].user = code[request[r].code].user,
                                         ![r].step = "delete code"]
         ELSE Finish(r)
    /\ UNCHANGED <<dbVars, app>> /\ NothingElse

\* A mutant: it does not matter whether a row was deleted.
DeleteCodeAnyway(r) ==
    /\ At(r, "delete code")
    /\ code' = [code EXCEPT ![request[r].code].state = "gone"]
    /\ Go(r, "insert token")
    /\ UNCHANGED <<users, members, developer, client, token, app>> /\ NothingElse

\* Whoever comes second deletes no row, and is refused.
DeleteCode(r) ==
    /\ At(r, "delete code")
    /\ IF code[request[r].code].state # "gone"
         THEN /\ code' = CodesWithout({request[r].code})
              /\ Go(r, "insert token")
         ELSE /\ Finish(r)
              /\ UNCHANGED code
    /\ UNCHANGED <<users, members, developer, client, token, app>> /\ NothingElse

-----------------------------------------------------------------------------
\* The task of an app: container away, oauth addon, container with what the addon
\* says; or container away, oauth addon away, row away.

Step(a, from, to) ==
    /\ app[a].command \in {"build", "remove"}
    /\ app[a].step = from
    /\ app' = [app EXCEPT ![a].step = to]

TaskOnly == UNCHANGED <<request, requests, events>>

DeleteContainers(a) ==
    /\ app[a].command \in {"build", "remove"}
    /\ app[a].step = "containers"
    /\ app' = [app EXCEPT ![a].env = None, ![a].step = "find"]
    /\ UNCHANGED dbVars /\ TaskOnly

AfterOldClient(a) == IF app[a].command = "build" THEN "add" ELSE "unset"

\* A mutant: the addon config says which client there is.
FindConfiguredClient(a) ==
    /\ app[a].step = "find"
    /\ app' = IF app[a].config # None
                THEN [app EXCEPT ![a].found = app[a].config, ![a].step = "tokens"]
                ELSE [app EXCEPT ![a].step = AfterOldClient(a)]
    /\ UNCHANGED dbVars /\ TaskOnly

FindClient(a) ==
    /\ app[a].step = "find"
    /\ \/ \E c \in OauthClients(a) :
            app' = [app EXCEPT ![a].found = c, ![a].step = "tokens"]
       \/ /\ OauthClients(a) = {}
          /\ app' = [app EXCEPT ![a].step = AfterOldClient(a)]
    /\ UNCHANGED dbVars /\ TaskOnly

DeleteTokensOfClient(a) ==
    /\ Step(a, "tokens", "client")
    /\ token' = DelByClientId(app[a].found)
    /\ UNCHANGED <<users, members, developer, client, code>> /\ TaskOnly

DeleteClientsOfApp(a) ==
    /\ Step(a, "client", AfterOldClient(a))
    /\ client' = DelByAppIdAndType(a)
    /\ UNCHANGED <<users, members, developer, token, code>> /\ TaskOnly

AddClientOfApp(a) ==
    /\ app[a].step = "add"
    /\ HasFreshClient
    /\ client' = ClientsWith(OauthClient(a))
    /\ app' = [app EXCEPT ![a].found = FreshClient, ![a].step = "unset"]
    /\ UNCHANGED <<users, members, developer, token, code>> /\ TaskOnly

UnsetConfig(a) ==
    /\ app[a].step = "unset"
    /\ app' = [app EXCEPT ![a].config = None,
                          ![a].step = IF app[a].command = "build" THEN "config" ELSE "row"]
    /\ UNCHANGED dbVars /\ TaskOnly

SetConfig(a) ==
    /\ app[a].step = "config"
    /\ app' = [app EXCEPT ![a].config = app[a].found, ![a].step = "create"]
    /\ UNCHANGED dbVars /\ TaskOnly

CreateContainer(a) ==
    /\ app[a].step = "create"
    /\ app' = [app EXCEPT ![a].env = app[a].config, ![a].command = "none",
                          ![a].found = None, ![a].step = "containers"]
    /\ UNCHANGED dbVars /\ TaskOnly

DeleteRow(a) ==
    /\ app[a].step = "row"
    /\ app' = [app EXCEPT ![a].row = "gone", ![a].command = "none", ![a].config = None,
                          ![a].found = None, ![a].step = "containers"]
    /\ UNCHANGED dbVars /\ TaskOnly

Event == events < MaxEvents /\ events' = events + 1

\* A command stops the task that is at work and starts another.
Command(a, command) ==
    /\ app[a].row = "here"
    /\ app[a].command = "remove" => command = "remove"
    /\ \E restriction \in Restrictions :
         app' = [app EXCEPT ![a].command = command, ![a].step = "containers", ![a].found = None,
                            ![a].restriction = restriction]
    /\ Event
    /\ UNCHANGED <<dbVars, request, requests>>

\* The box ends with its requests; the task of an app starts over.
Restart ==
    /\ Event
    /\ app' = [a \in Apps |-> [app[a] EXCEPT !.step = "containers", !.found = None]]
    /\ request' = [r \in Requests |-> Idle]
    /\ UNCHANGED <<dbVars, requests>>

TaskFails(a) ==
    /\ app[a].command \in {"build", "remove"}
    /\ app' = [app EXCEPT ![a].command = "error", ![a].step = "containers", ![a].found = None]
    /\ Event
    /\ UNCHANGED <<dbVars, request, requests>>

-----------------------------------------------------------------------------
\* What else changes.

\* A user is removed; his tokens and codes stay (tokendb.delByIdentifier has no caller).
RemoveUser(u) ==
    /\ u \in users
    /\ users' = users \ {u}
    /\ members' = members \ {u}
    /\ Event
    /\ UNCHANGED <<developer, client, token, code, app, request, requests>>

ChangeMember(u) ==
    /\ u \in users
    /\ members' = IF u \in members THEN members \ {u} ELSE members \cup {u}
    /\ Event
    /\ UNCHANGED <<users, developer, client, token, code, app, request, requests>>

SetDeveloperMode ==
    /\ developer' = ~developer
    /\ Event
    /\ UNCHANGED <<users, members, client, token, code, app, request, requests>>

ExpireToken(t) ==
    /\ TokenValid(t)
    /\ token' = [token EXCEPT ![t].state = "expired"]
    /\ Event
    /\ UNCHANGED <<users, members, developer, client, code, app, request, requests>>

ExpireCode(k) ==
    /\ CodeValid(k)
    /\ code' = [code EXCEPT ![k].state = "expired"]
    /\ Event
    /\ UNCHANGED <<users, members, developer, client, token, app, request, requests>>

\* The janitor, every half hour.
CleanupTokens ==
    /\ \E t \in Tokens : token[t].state = "expired"
    /\ token' = DelExpired
    /\ UNCHANGED <<users, members, developer, client, code, app, request, requests, events>>

CleanupCodes ==
    /\ \E k \in Codes : code[k].state = "expired"
    /\ code' = CodesWithout({k \in Codes : code[k].state = "expired"})
    /\ UNCHANGED <<users, members, developer, client, token, app, request, requests, events>>

RequestStep(r) ==
    \/ ReadToken(r) \/ ReadUser(r) \/ ReadSession(r)
    \/ InsertClient(r) \/ GetClient(r) \/ DeleteClient(r)
    \/ AddClientToken(r) \/ IssueDeveloperToken(r) \/ AddPasswordToken(r)
    \/ GrantToken(r) \/ ExchangeToken(r) \/ (\E t \in Tokens : DeleteToken(r, t)) \/ DeleteTokens(r)
    \/ GetApp(r) \/ NoApp(r) \/ IsMember(r) \/ Accept(r) \/ GrantCode(r)
    \/ Authenticate(r) \/ ReadCode(r) \/ DeleteCode(r)

TaskStep(a) ==
    \/ DeleteContainers(a) \/ FindClient(a) \/ DeleteTokensOfClient(a) \/ DeleteClientsOfApp(a)
    \/ AddClientOfApp(a) \/ UnsetConfig(a) \/ SetConfig(a) \/ CreateContainer(a) \/ DeleteRow(a)

Next ==
    \/ \E r \in Requests :
         \/ \E t \in Tokens, c \in Clients :
              \E kind \in {"add client", "del client", "add token", "del token", "del tokens"} :
                AskApi(r, t, kind, c)
         \/ \E u \in Users, c \in Clients, kind \in {"code", "token"} : AskAuthorization(r, u, c, kind)
         \/ \E c \in Clients, k \in Codes : AskExchange(r, c, k)
         \/ \E u \in Users : AskDeveloperLogin(r, u) \/ AskPassword(r, u)
         \/ \E u \in Users, a \in Apps : AskBind(r, u, a)
         \/ RequestStep(r)
    \/ \E a \in Apps :
         \/ TaskStep(a)
         \/ \E command \in {"build", "remove"} : Command(a, command)
         \/ TaskFails(a)
    \/ Restart
    \/ \E u \in Users : RemoveUser(u) \/ ChangeMember(u)
    \/ SetDeveloperMode
    \/ \E t \in Tokens : ExpireToken(t)
    \/ \E k \in Codes : ExpireCode(k)
    \/ CleanupTokens
    \/ CleanupCodes

Spec == Init /\ [][Next]_vars

-----------------------------------------------------------------------------
Kinds == {"none", "add client", "del client", "add token", "del token", "del tokens",
          "code", "token", "exchange", "login", "password", "bind"}

Steps == {"idle", "token", "user", "session", "verify", "client", "insert client", "delete client",
          "insert token", "delete token", "delete tokens", "app", "container", "member", "accepted",
          "grant", "authenticate", "code", "delete code"}

TaskSteps == {"containers", "find", "tokens", "client", "add", "unset", "config", "create", "row"}

MaybeUser == Users \cup {None}
MaybeClient == Clients \cup {None}
MaybeApp == Apps \cup {None}

RowStates == {"none", "live", "expired", "gone"}

ClientRow == [type : {"none", "built-in", "external", "addon-oauth", "gone"}, app : MaybeApp,
              scope : Scopes]
TokenRow == [state : RowStates, user : MaybeUser, client : MaybeClient, scope : Scopes]
CodeRow == [state : RowStates, user : MaybeUser, client : MaybeClient, spent : Nat]
AppRow == [row : {"here", "gone"}, command : {"none", "build", "remove", "error"}, step : TaskSteps,
           restriction : Restrictions, config : MaybeClient, env : MaybeClient, found : MaybeClient]
Request == [kind : Kinds, step : Steps, user : MaybeUser, client : MaybeClient, scope : Scopes,
            token : Nat, code : Nat, app : MaybeApp, barred : BOOLEAN]

\* Every row, task and request holds what the code can give it.
TypeOK ==
    /\ users \subseteq Users
    /\ members \subseteq users
    /\ developer \in BOOLEAN
    /\ client \in [Clients -> ClientRow]
    /\ token \in [Tokens -> TokenRow]
    /\ code \in [Codes -> CodeRow]
    /\ app \in [Apps -> AppRow]
    /\ request \in [Requests -> Request]
    /\ requests \in 0..MaxRequests
    /\ events \in 0..MaxEvents

(***************************************************************************)
(* "An authcode is only good for one such exchange to an accesstoken"      *)
(* (src/src/routes/oauth2.js:474): however many requests offer the same    *)
(* code at once, at most one of them gets a token for it.                  *)
(***************************************************************************)
CodeSpentOnce == \A k \in Codes : code[k].spent <= 1

(***************************************************************************)
(* An app that is installed knows its client: the credentials in its       *)
(* container are those of its addon config, the client is there, and no    *)
(* other client of the app was left behind by a task that was killed       *)
(* between adding a client and remembering it, nor has anybody else        *)
(* removed it.                                                             *)
(***************************************************************************)
AppKnowsItsClient ==
    \A a \in Apps :
       app[a].row = "here" /\ app[a].command = "none" =>
          app[a].env = app[a].config /\ OauthClients(a) = {app[a].config}

(***************************************************************************)
(* Tokens, codes, sessions and mail clients outlive the user they are of.  *)
(* None of them is let in to anything once the user is removed, also not   *)
(* with a token that was issued after the removal.                         *)
(***************************************************************************)
RemovedUsersStayOut ==
    \A r \in Requests :
       request[r].barred => request[r].step \in {"token", "user", "session", "verify"}

(***************************************************************************)
(* What the code says of itself and does not do; each of these fails.      *)
(***************************************************************************)

\* "remove existing creds" (src/src/addons.js:255): a token that is valid is of a
\* client that is there.  An external client is deleted without its tokens, and an
\* exchange or a login under way adds its token after those of the client are gone.
TokensHaveClients == \A t \in Tokens : TokenValid(t) => ClientExists(token[t].client)

\* Whoever is accepted had access at some moment: hasAccessTo looks for membership in
\* the groups of a row read before, which may name the group no longer.
AccessNow ==
    \A r \in Requests :
       request[r].step = "accepted" =>
          \/ NamesUser(app[request[r].app].restriction, request[r].user)
          \/ AsksGroup(app[request[r].app].restriction) /\ request[r].user \in members
=============================================================================
