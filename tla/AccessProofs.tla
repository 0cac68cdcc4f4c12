---------------------------- MODULE AccessProofs ----------------------------
(***************************************************************************)
(* The safety of Access for any users, apps, requests and bounds: what a   *)
(* request has read and what the rows say by now fit, a code is spent      *)
(* once, a task of an app knows the clients of its app, and who is removed *)
(* is not let in.                                                          *)
(***************************************************************************)
EXTENDS Access, FiniteSetTheorems, TLAPS

\* The calls of the API, which come with a token.
ApiKinds == {"add client", "del client", "add token", "del token", "del tokens"}

\* What a request q is about: its token, its code, its client is one there is or was;
\* and who is to stay out will not be found where he is looked for next.
Fits(q) ==
    /\ q.step \in {"token", "user"} => q.kind \in ApiKinds
    /\ q.step = "token" => q.token \in Tokens /\ token[q.token].state # "none"
    /\ q.kind = "exchange" => /\ q.code \in Codes /\ code[q.code].state # "none"
                              /\ q.step \in {"authenticate", "code", "delete code", "insert token"}
    /\ q.step \in {"authenticate", "code", "delete code"} => q.kind = "exchange"
    /\ q.step = "delete client" =>
          q.client \in Clients /\ client[q.client].type \in {"external", "gone"}
    /\ q.barred => /\ q.step \in {"token", "user", "session", "verify"}
                   /\ IF q.step = "token" THEN token[q.token].user \notin users
                                          ELSE q.user \notin users

RequestInv == \A r \in Requests : Fits(request[r])

\* The request has ended the code and is about to add a token for it.
Holds(r, k) ==
    request[r].kind = "exchange" /\ request[r].step = "insert token" /\ request[r].code = k

\* A code that was exchanged or is being exchanged is gone, and only one request has it.
CodeInv ==
    /\ \A k \in Codes :
         /\ code[k].spent <= 1
         /\ code[k].spent > 0 => code[k].state = "gone"
         /\ \A r \in Requests : Holds(r, k) => code[k].state = "gone" /\ code[k].spent = 0
    /\ \A r, s \in Requests : \A k \in Codes : Holds(r, k) /\ Holds(s, k) => r = s

\* What the task of an app has done so far.
TaskFits(a) ==
    /\ app[a].command \in {"none", "error"} => app[a].step = "containers"
    /\ app[a].step = "add" => app[a].command = "build" /\ OauthClients(a) = {}
    /\ app[a].step = "unset" /\ app[a].command = "build" => OauthClients(a) = {app[a].found}
    /\ app[a].step = "config" => app[a].command = "build" /\ OauthClients(a) = {app[a].found}
    /\ app[a].step = "create" => app[a].command = "build" /\ OauthClients(a) = {app[a].config}
    /\ app[a].row = "here" /\ app[a].command = "none" =>
          app[a].env = app[a].config /\ OauthClients(a) = {app[a].config}

TaskInv == \A a \in Apps : TaskFits(a)

\* Rows do not come back and keep the user they are of; users do not come back.
TokensStay == \A t \in Tokens : token[t].state # "none" =>
                                   token'[t].state # "none" /\ token'[t].user = token[t].user
CodesStay == \A k \in Codes : code[k].state # "none" => code'[k].state # "none"
ClientsStay == \A c \in Clients : client[c].type \in {"external", "gone"} =>
                                     client'[c].type \in {"external", "gone"}
Stay == users' \subseteq users /\ TokensStay /\ CodesStay /\ ClientsStay

-----------------------------------------------------------------------------
(* The bounds. *)
LEMMA Bounds ==
    /\ MaxClients \in Nat /\ MaxTokens \in Nat /\ MaxCodes \in Nat /\ MaxRequests \in Nat /\ MaxEvents \in Nat
    /\ 1 \in Tokens /\ 1 \in Codes /\ Tokens \subseteq Nat /\ Codes \subseteq Nat
    /\ BuiltIn \in Clients /\ None \notin Clients /\ 1..MaxClients \subseteq Clients
    /\ BuiltIn \notin 1..MaxClients
    /\ Cardinality(Apps) \in Nat /\ 1..Cardinality(Apps) \subseteq 1..MaxClients
    /\ {Everyone} \in Restrictions
<1>1. Cardinality(Apps) \in Nat
  BY AccessAssumption, FS_CardinalityType DEF AccessAssumption
<1> QED
  BY <1>1, AccessAssumption DEF AccessAssumption, Tokens, Codes, Clients

(* Rows that are added take an id that is free. *)
LEMMA FreshIds ==
    /\ HasFreshClient => FreshClient \in 1..MaxClients /\ client[FreshClient].type = "none"
    /\ HasFresh(token, Tokens) => Fresh(token, Tokens) \in Tokens /\ token[Fresh(token, Tokens)].state = "none"
    /\ HasFresh(code, Codes) => Fresh(code, Codes) \in Codes /\ code[Fresh(code, Codes)].state = "none"
BY DEF HasFreshClient, FreshClient, HasFresh, Fresh

(* The rows that are made have their types. *)
LEMMA RowTypes ==
    ASSUME TypeOK
    PROVE  /\ Idle \in Request
           /\ \A u \in MaybeUser, c \in MaybeClient, scope \in Scopes :
                TokensWith(u, c, scope) \in [Tokens -> TokenRow]
           /\ \A S : TokensWithout(S) \in [Tokens -> TokenRow]
           /\ \A u \in MaybeUser, c \in MaybeClient : CodesWith(u, c) \in [Codes -> CodeRow]
           /\ \A S : CodesWithout(S) \in [Codes -> CodeRow]
           /\ \A row \in ClientRow : ClientsWith(row) \in [Clients -> ClientRow]
           /\ \A S : ClientsWithout(S) \in [Clients -> ClientRow]
<1>1. token \in [Tokens -> TokenRow] /\ code \in [Codes -> CodeRow] /\ client \in [Clients -> ClientRow]
  BY DEF TypeOK
<1>2. Idle \in Request
  BY DEF Idle, Request, Kinds, Steps, MaybeUser, MaybeClient, MaybeApp, Scopes
<1>3. ASSUME NEW u \in MaybeUser, NEW c \in MaybeClient, NEW scope \in Scopes
      PROVE  TokensWith(u, c, scope) \in [Tokens -> TokenRow]
  <2>1. NewToken(u, c, scope) \in TokenRow
    BY DEF NewToken, TokenRow, RowStates
  <2> QED
    BY <1>1, <2>1 DEF TokensWith
<1>4. ASSUME NEW S PROVE TokensWithout(S) \in [Tokens -> TokenRow]
  <2>1. \A t \in Tokens : [token[t] EXCEPT !.state = "gone"] \in TokenRow /\ token[t] \in TokenRow
    BY <1>1 DEF TokenRow, RowStates
  <2> QED
    BY <2>1 DEF TokensWithout
<1>5. ASSUME NEW u \in MaybeUser, NEW c \in MaybeClient PROVE CodesWith(u, c) \in [Codes -> CodeRow]
  <2>1. NewCode(u, c) \in CodeRow
    BY DEF NewCode, CodeRow, RowStates
  <2> QED
    BY <1>1, <2>1 DEF CodesWith
<1>6. ASSUME NEW S PROVE CodesWithout(S) \in [Codes -> CodeRow]
  <2>1. \A k \in Codes : [code[k] EXCEPT !.state = "gone"] \in CodeRow /\ code[k] \in CodeRow
    BY <1>1 DEF CodeRow, RowStates
  <2> QED
    BY <2>1 DEF CodesWithout
<1>7. ASSUME NEW row \in ClientRow PROVE ClientsWith(row) \in [Clients -> ClientRow]
  BY <1>1 DEF ClientsWith
<1>8. ASSUME NEW S PROVE ClientsWithout(S) \in [Clients -> ClientRow]
  <2>1. \A c \in Clients : [client[c] EXCEPT !.type = "gone"] \in ClientRow /\ client[c] \in ClientRow
    BY <1>1 DEF ClientRow
  <2> QED
    BY <2>1 DEF ClientsWithout
<1> QED
  BY <1>2, <1>3, <1>4, <1>5, <1>6, <1>7, <1>8

-----------------------------------------------------------------------------
(* What every step leaves behind. *)
LEMMA TokenChanges ==
    ASSUME TypeOK
    PROVE  /\ UNCHANGED token => TokensStay
           /\ \A u, c, scope : HasFresh(token, Tokens) /\ token' = TokensWith(u, c, scope) => TokensStay
           /\ \A S : token' = TokensWithout(S) => TokensStay
           /\ \A t : token' = [token EXCEPT ![t].state = "expired"] => TokensStay
<1>1. token \in [Tokens -> TokenRow]
  BY DEF TypeOK
<1>2. UNCHANGED token => TokensStay
  BY DEF TokensStay
<1>3. \A u, c, scope : HasFresh(token, Tokens) /\ token' = TokensWith(u, c, scope) => TokensStay
  BY <1>1, FreshIds DEF TokensWith, TokensStay
<1>4. ASSUME NEW S, token' = TokensWithout(S) PROVE TokensStay
  <2>1. \A t \in Tokens : /\ [token[t] EXCEPT !.state = "gone"].state = "gone"
                          /\ [token[t] EXCEPT !.state = "gone"].user = token[t].user
    BY <1>1 DEF TokenRow
  <2> QED
    BY <1>4, <2>1 DEF TokensWithout, TokensStay
<1>5. ASSUME NEW t, token' = [token EXCEPT ![t].state = "expired"] PROVE TokensStay
  BY <1>1, <1>5 DEF TokensStay, TokenRow
<1> QED
  BY <1>2, <1>3, <1>4, <1>5

LEMMA CodeChanges ==
    ASSUME TypeOK
    PROVE  /\ UNCHANGED code => CodesStay
           /\ \A u, c : HasFresh(code, Codes) /\ code' = CodesWith(u, c) => CodesStay
           /\ \A S : code' = CodesWithout(S) => CodesStay
           /\ \A k : code' = [code EXCEPT ![k].state = "expired"] => CodesStay
           /\ \A k : code' = [code EXCEPT ![k].spent = @ + 1] => CodesStay
<1>1. code \in [Codes -> CodeRow]
  BY DEF TypeOK
<1>2. UNCHANGED code => CodesStay
  BY DEF CodesStay
<1>3. \A u, c : HasFresh(code, Codes) /\ code' = CodesWith(u, c) => CodesStay
  BY <1>1, FreshIds DEF CodesWith, CodesStay, NewCode
<1>4. ASSUME NEW S, code' = CodesWithout(S) PROVE CodesStay
  <2>1. \A k \in Codes : [code[k] EXCEPT !.state = "gone"].state = "gone"
    BY <1>1 DEF CodeRow
  <2> QED
    BY <1>4, <2>1 DEF CodesWithout, CodesStay
<1>5. ASSUME NEW k, code' = [code EXCEPT ![k].state = "expired"] PROVE CodesStay
  BY <1>1, <1>5 DEF CodesStay, CodeRow
<1>6. ASSUME NEW k, code' = [code EXCEPT ![k].spent = @ + 1] PROVE CodesStay
  BY <1>1, <1>6 DEF CodesStay, CodeRow
<1> QED
  BY <1>2, <1>3, <1>4, <1>5, <1>6

LEMMA ClientChanges ==
    ASSUME TypeOK
    PROVE  /\ UNCHANGED client => ClientsStay
           /\ \A row : HasFreshClient /\ client' = ClientsWith(row) => ClientsStay
           /\ \A S : client' = ClientsWithout(S) => ClientsStay
<1>1. client \in [Clients -> ClientRow]
  BY DEF TypeOK
<1>2. UNCHANGED client => ClientsStay
  BY DEF ClientsStay
<1>3. \A row : HasFreshClient /\ client' = ClientsWith(row) => ClientsStay
  BY <1>1, FreshIds DEF ClientsWith, ClientsStay
<1>4. ASSUME NEW S, client' = ClientsWithout(S) PROVE ClientsStay
  <2>1. \A c \in Clients : [client[c] EXCEPT !.type = "gone"].type = "gone"
    BY <1>1 DEF ClientRow
  <2> QED
    BY <1>4, <2>1 DEF ClientsWithout, ClientsStay
<1> QED
  BY <1>2, <1>3, <1>4

\* A request is made; only its record changes.
Asks(r) ==
    \/ \E t \in Tokens, c \in Clients, kind \in ApiKinds : AskApi(r, t, kind, c)
    \/ \E u \in Users, c \in Clients, kind \in {"code", "token"} : AskAuthorization(r, u, c, kind)
    \/ \E c \in Clients, k \in Codes : AskExchange(r, c, k)
    \/ \E u \in Users : AskDeveloperLogin(r, u) \/ AskPassword(r, u)
    \/ \E u \in Users, a \in Apps : AskBind(r, u, a)

\* What is neither of a request nor of the task of an app.
OtherStep ==
    \/ \E a \in Apps : (\E command \in {"build", "remove"} : Command(a, command)) \/ TaskFails(a)
    \/ Restart
    \/ \E u \in Users : RemoveUser(u) \/ ChangeMember(u)
    \/ SetDeveloperMode
    \/ \E t \in Tokens : ExpireToken(t)
    \/ \E k \in Codes : ExpireCode(k)
    \/ CleanupTokens
    \/ CleanupCodes

LEMMA NextSplit ==
    Next => \/ \E r \in Requests : Asks(r) \/ RequestStep(r)
            \/ \E a \in Apps : TaskStep(a)
            \/ OtherStep
BY DEF Next, Asks, OtherStep, ApiKinds

LEMMA RequestStepStays ==
    ASSUME TypeOK, NEW r \in Requests, RequestStep(r)
    PROVE  TokensStay /\ CodesStay /\ ClientsStay /\ UNCHANGED <<users, members, developer, app, requests, events>>
<1> USE DEF dbVars, NothingElse
<1>1. CASE \/ ReadToken(r) \/ ReadUser(r) \/ ReadSession(r) \/ GetClient(r) \/ GetApp(r) \/ NoApp(r)
           \/ IsMember(r) \/ Accept(r) \/ Authenticate(r) \/ ReadCode(r)
  BY <1>1, TokenChanges, CodeChanges, ClientChanges
     DEF ReadToken, ReadUser, ReadSession, GetClient, GetApp, NoApp, IsMember, Accept, Authenticate, ReadCode
<1>2. CASE InsertClient(r)
  BY <1>2, TokenChanges, CodeChanges, ClientChanges DEF InsertClient
<1>3. CASE DeleteClient(r)
  BY <1>3, TokenChanges, CodeChanges, ClientChanges DEF DeleteClient, DelClient
<1>4. CASE \/ AddClientToken(r) \/ IssueDeveloperToken(r) \/ AddPasswordToken(r) \/ GrantToken(r)
  <2>1. \E kind : InsertToken(r, kind) /\ UNCHANGED code
    BY <1>4 DEF AddClientToken, IssueDeveloperToken, AddPasswordToken, GrantToken
  <2> QED
    BY <2>1, TokenChanges, CodeChanges, ClientChanges DEF InsertToken
<1>5. CASE ExchangeToken(r)
  BY <1>5, TokenChanges, CodeChanges, ClientChanges DEF ExchangeToken, InsertToken
<1>6. CASE DeleteTokens(r) \/ \E t \in Tokens : DeleteToken(r, t)
  BY <1>6, TokenChanges, CodeChanges, ClientChanges
     DEF DeleteTokens, DeleteToken, DelToken, DelByIdentifierAndClientId
<1>7. CASE GrantCode(r)
  BY <1>7, TokenChanges, CodeChanges, ClientChanges DEF GrantCode
<1>8. CASE DeleteCode(r)
  BY <1>8, TokenChanges, CodeChanges, ClientChanges DEF DeleteCode
<1> QED
  BY <1>1, <1>2, <1>3, <1>4, <1>5, <1>6, <1>7, <1>8 DEF RequestStep

LEMMA TaskStepStays ==
    ASSUME TypeOK, NEW a \in Apps, TaskStep(a)
    PROVE  /\ TokensStay /\ CodesStay /\ ClientsStay
           /\ UNCHANGED <<users, members, developer, code, request, requests, events>>
<1> USE DEF dbVars, TaskOnly
<1>1. CASE \/ DeleteContainers(a) \/ FindClient(a) \/ UnsetConfig(a) \/ SetConfig(a) \/ CreateContainer(a)
           \/ DeleteRow(a)
  BY <1>1, TokenChanges, CodeChanges, ClientChanges
     DEF DeleteContainers, FindClient, UnsetConfig, SetConfig, CreateContainer, DeleteRow
<1>2. CASE DeleteTokensOfClient(a)
  BY <1>2, TokenChanges, CodeChanges, ClientChanges DEF DeleteTokensOfClient, DelByClientId
<1>3. CASE DeleteClientsOfApp(a)
  BY <1>3, TokenChanges, CodeChanges, ClientChanges DEF DeleteClientsOfApp, DelByAppIdAndType
<1>4. CASE AddClientOfApp(a)
  BY <1>4, TokenChanges, CodeChanges, ClientChanges DEF AddClientOfApp
<1> QED
  BY <1>1, <1>2, <1>3, <1>4 DEF TaskStep

LEMMA RowsStay == TypeOK /\ [Next]_vars => Stay
<1> SUFFICES ASSUME TypeOK, [Next]_vars PROVE Stay
  OBVIOUS
<1>1. SUFFICES users' \subseteq users /\ TokensStay /\ CodesStay /\ ClientsStay
  BY DEF Stay
<1>2. CASE UNCHANGED vars \/ \E r \in Requests : Asks(r)
  <2>1. UNCHANGED dbVars
    BY <1>2 DEF vars, Asks, AskApi, AskAuthorization, AskExchange, AskDeveloperLogin, AskPassword,
       AskBind, Ask
  <2> QED
    BY <2>1, TokenChanges, CodeChanges, ClientChanges DEF dbVars
<1>3. CASE \E r \in Requests : RequestStep(r)
  BY <1>3, RequestStepStays
<1>4. CASE \E a \in Apps : TaskStep(a)
  BY <1>4, TaskStepStays
<1>5. CASE OtherStep
  <2>1. users' \subseteq users /\ UNCHANGED client
    BY <1>5 DEF OtherStep, Command, TaskFails, Restart, RemoveUser, ChangeMember, SetDeveloperMode,
       ExpireToken, ExpireCode, CleanupTokens, CleanupCodes, dbVars
  <2>2. TokensStay
    BY <1>5, TokenChanges DEF OtherStep, Command, TaskFails, Restart, RemoveUser, ChangeMember,
       SetDeveloperMode, ExpireToken, ExpireCode, CleanupTokens, CleanupCodes, dbVars, DelExpired
  <2>3. CodesStay
    BY <1>5, CodeChanges DEF OtherStep, Command, TaskFails, Restart, RemoveUser, ChangeMember,
       SetDeveloperMode, ExpireToken, ExpireCode, CleanupTokens, CleanupCodes, dbVars
  <2> QED
    BY <2>1, <2>2, <2>3, ClientChanges
<1> QED
  BY <1>2, <1>3, <1>4, <1>5, NextSplit

-----------------------------------------------------------------------------
(* How requests go on. *)
LEMMA UntouchedFits ==
    ASSUME Stay, NEW r \in Requests, Fits(request[r]), request'[r] = request[r]
    PROVE  Fits(request[r])'
BY DEF Fits, Stay, TokensStay, CodesStay, ClientsStay

LEMMA EndedFits ==
    ASSUME NEW r \in Requests, request'[r] = Idle
    PROVE  Fits(request[r])' /\ \A k : ~Holds(r, k)'
BY DEF Fits, Holds, Idle, ApiKinds

\* Only the record of this request has changed, and it still is one.
Touches(r) ==
    /\ request' \in [Requests -> Request]
    /\ \A s \in Requests \ {r} : request'[s] = request[s]

LEMMA Touched ==
    ASSUME TypeOK, NEW r \in Requests, NEW q \in Request, request' = [request EXCEPT ![r] = q]
    PROVE  Touches(r) /\ request'[r] = q
BY DEF TypeOK, Touches

LEMMA FinishFits ==
    ASSUME TypeOK, NEW r \in Requests, Finish(r)
    PROVE  Touches(r) /\ Fits(request[r])' /\ \A k : ~Holds(r, k)'
<1>1. Touches(r) /\ request'[r] = Idle
  BY RowTypes, Touched DEF Finish
<1> QED
  BY <1>1, EndedFits

\* A request that is let in, or was not to be kept out, goes on to this step.
GoesOn(r, step) ==
    /\ request'[r].step = step
    /\ request'[r].kind = request[r].kind /\ request'[r].code = request[r].code
    /\ request'[r].client = request[r].client /\ request'[r].barred = request[r].barred

LEMMA GoesOnFits ==
    ASSUME Stay, NEW r \in Requests, Fits(request[r]), NEW step, GoesOn(r, step), ~request[r].barred,
           step \notin {"token", "user", "authenticate"},
           step = "delete client" => request[r].client \in Clients
                                     /\ client[request[r].client].type \in {"external", "gone"},
           request[r].kind = "exchange" => step \in {"code", "delete code", "insert token"},
           step \in {"code", "delete code"} => request[r].kind = "exchange"
    PROVE  Fits(request[r])'
BY DEF Fits, GoesOn, Stay, CodesStay, ClientsStay

LEMMA GoTypes ==
    ASSUME TypeOK, NEW r \in Requests, NEW step \in Steps, Go(r, step)
    PROVE  Touches(r) /\ GoesOn(r, step)
<1>1. request[r] \in Request
  BY DEF TypeOK
<1>2. [request[r] EXCEPT !.step = step] \in Request
  BY <1>1 DEF Request
<1>3. Touches(r) /\ request'[r] = [request[r] EXCEPT !.step = step]
  BY <1>2, Touched DEF Go
<1> QED
  BY <1>1, <1>3 DEF GoesOn, Request

(* What is asked. *)
LEMMA AsksFit ==
    ASSUME TypeOK, NEW r \in Requests, Asks(r)
    PROVE  Touches(r) /\ Fits(request[r])' /\ (\A k : ~Holds(r, k)') /\ UNCHANGED <<dbVars, app, events>>
           /\ requests' \in 0..MaxRequests
<1>1. requests \in 0..MaxRequests /\ Tokens \subseteq Nat /\ Codes \subseteq Nat /\ MaxRequests \in Nat
  BY Bounds DEF TypeOK
<1> DEFINE P == /\ Touches(r) /\ Fits(request[r])' /\ (\A k : ~Holds(r, k)')
                /\ UNCHANGED <<dbVars, app, events>> /\ requests' \in 0..MaxRequests
<1>2. ASSUME NEW q \in Request, Ask(r, q)
      PROVE  Touches(r) /\ request'[r] = q /\ UNCHANGED <<dbVars, app, events>>
             /\ requests' \in 0..MaxRequests
  <2>1. request' = [request EXCEPT ![r] = q] /\ UNCHANGED <<dbVars, app, events>>
        /\ requests < MaxRequests /\ requests' = requests + 1
    BY <1>2 DEF Ask
  <2>2. requests' \in 0..MaxRequests
    BY <1>1, <2>1
  <2> QED
    BY <2>1, <2>2, Touched
<1>3. ASSUME NEW t \in Tokens, NEW c \in Clients, NEW kind \in ApiKinds, AskApi(r, t, kind, c)
      PROVE  P
  <2> DEFINE q == [Idle EXCEPT !.kind = kind, !.step = "token", !.token = t, !.client = c,
                               !.barred = token[t].user \notin users]
  <2>1. q \in Request
    BY <1>1 DEF Idle, Request, Kinds, ApiKinds, Steps, MaybeUser, MaybeClient, MaybeApp, Scopes
  <2>2. Touches(r) /\ request'[r] = q /\ UNCHANGED <<dbVars, app, events>> /\ requests' \in 0..MaxRequests
    BY <1>2, <1>3, <2>1 DEF AskApi
  <2>3. q.step = "token" /\ q.kind = kind /\ q.token = t /\ q.barred = (token[t].user \notin users)
    BY DEF Idle
  <2>4. token[t].state # "none"
    BY <1>3 DEF AskApi
  <2> HIDE DEF q
  <2> QED
    BY <2>2, <2>3, <2>4 DEF Fits, Holds, ApiKinds, dbVars
<1>4. ASSUME NEW u \in Users, NEW c \in Clients, NEW kind \in {"code", "token"},
             AskAuthorization(r, u, c, kind)
      PROVE  P
  <2> DEFINE q == [Idle EXCEPT !.kind = kind, !.step = "session", !.user = u, !.client = c,
                               !.barred = u \notin users]
  <2>1. q \in Request
    BY DEF Idle, Request, Kinds, Steps, MaybeUser, MaybeClient, MaybeApp, Scopes
  <2>2. Touches(r) /\ request'[r] = q /\ UNCHANGED <<dbVars, app, events>> /\ requests' \in 0..MaxRequests
    BY <1>2, <1>4, <2>1 DEF AskAuthorization
  <2>3. q.step = "session" /\ q.kind = kind /\ q.user = u /\ q.barred = (u \notin users)
    BY DEF Idle
  <2> HIDE DEF q
  <2> QED
    BY <2>2, <2>3 DEF Fits, Holds, dbVars
<1>5. ASSUME NEW c \in Clients, NEW k \in Codes, AskExchange(r, c, k) PROVE P
  <2> DEFINE q == [Idle EXCEPT !.kind = "exchange", !.step = "authenticate", !.client = c, !.code = k]
  <2>1. q \in Request
    BY <1>1 DEF Idle, Request, Kinds, Steps, MaybeUser, MaybeClient, MaybeApp, Scopes
  <2>2. Touches(r) /\ request'[r] = q /\ UNCHANGED <<dbVars, app, events>> /\ requests' \in 0..MaxRequests
    BY <1>2, <1>5, <2>1 DEF AskExchange
  <2>3. q.step = "authenticate" /\ q.kind = "exchange" /\ q.code = k /\ q.barred = FALSE
    BY DEF Idle
  <2>4. code[k].state # "none"
    BY <1>5 DEF AskExchange
  <2> HIDE DEF q
  <2> QED
    BY <2>2, <2>3, <2>4 DEF Fits, Holds, dbVars
<1>6. ASSUME NEW u \in Users, NEW kind \in {"login", "password"},
             Ask(r, [Idle EXCEPT !.kind = kind, !.step = "verify", !.user = u, !.client = BuiltIn,
                                 !.scope = "settings", !.barred = u \notin users])
      PROVE  P
  <2> DEFINE q == [Idle EXCEPT !.kind = kind, !.step = "verify", !.user = u, !.client = BuiltIn,
                               !.scope = "settings", !.barred = u \notin users]
  <2>1. q \in Request
    BY Bounds DEF Idle, Request, Kinds, Steps, MaybeUser, MaybeClient, MaybeApp, Scopes
  <2>2. Touches(r) /\ request'[r] = q /\ UNCHANGED <<dbVars, app, events>> /\ requests' \in 0..MaxRequests
    BY <1>2, <1>6, <2>1
  <2>3. q.step = "verify" /\ q.kind = kind /\ q.user = u /\ q.barred = (u \notin users)
    BY DEF Idle
  <2> HIDE DEF q
  <2> QED
    BY <2>2, <2>3 DEF Fits, Holds, dbVars
<1>7. ASSUME NEW u \in Users, NEW a \in Apps, AskBind(r, u, a) PROVE P
  <2> DEFINE q == [Idle EXCEPT !.kind = "bind", !.step = "verify", !.user = u, !.app = a,
                               !.barred = u \notin users]
  <2>1. q \in Request
    BY DEF Idle, Request, Kinds, Steps, MaybeUser, MaybeClient, MaybeApp, Scopes
  <2>2. Touches(r) /\ request'[r] = q /\ UNCHANGED <<dbVars, app, events>> /\ requests' \in 0..MaxRequests
    BY <1>2, <1>7, <2>1 DEF AskBind
  <2>3. q.step = "verify" /\ q.kind = "bind" /\ q.user = u /\ q.barred = (u \notin users)
    BY DEF Idle
  <2> HIDE DEF q
  <2> QED
    BY <2>2, <2>3 DEF Fits, Holds, dbVars
<1>8. ASSUME NEW u \in Users, AskDeveloperLogin(r, u) \/ AskPassword(r, u) PROVE P
  BY <1>6, <1>8 DEF AskDeveloperLogin, AskPassword
<1> HIDE DEF P
<1>9. P
  BY <1>3, <1>4, <1>5, <1>7, <1>8 DEF Asks
<1> QED
  BY <1>9 DEF P

(* How it is answered: the request ends or goes on; only DeleteCode gets   *)
(* hold of a code.                                                         *)
LEMMA RequestStepFits ==
    ASSUME TypeOK, Stay, NEW r \in Requests, Fits(request[r]), RequestStep(r)
    PROVE  Touches(r) /\ Fits(request[r])' /\ (DeleteCode(r) \/ \A k : ~Holds(r, k)')
<1> DEFINE P == Touches(r) /\ Fits(request[r])' /\ \A k : ~Holds(r, k)'
<1> USE DEF At
<1>1. /\ request[r] \in Request /\ request \in [Requests -> Request]
      /\ token \in [Tokens -> TokenRow] /\ client \in [Clients -> ClientRow] /\ code \in [Codes -> CodeRow]
  BY DEF TypeOK
<1>2. Finish(r) => P
  BY FinishFits
<1>3. CASE ReadToken(r)
  <2>1. CASE ~TokenValid(request[r].token)
    BY <1>2, <1>3, <2>1 DEF ReadToken
  <2>2. CASE TokenValid(request[r].token)
    <3> DEFINE t == request[r].token
    <3>1. /\ request[r].step = "token" /\ t \in Tokens /\ token[t] \in TokenRow
          /\ request[r].kind \in ApiKinds /\ (request[r].barred => token[t].user \notin users)
      BY <1>1, <1>3 DEF ReadToken, Fits
    <3>2. token[t].user \in MaybeUser /\ token[t].scope \in Scopes
      BY <3>1 DEF TokenRow
    <3> DEFINE q == [request[r] EXCEPT !.user = token[t].user, !.scope = token[t].scope, !.step = "user"]
    <3>3. request' = [request EXCEPT ![r] = q]
      BY <1>1, <1>3, <2>2 DEF ReadToken
    <3>4. q \in Request
      BY <1>1, <3>2 DEF Request, Steps
    <3>5. /\ q.kind = request[r].kind /\ q.step = "user" /\ q.user = token[t].user
          /\ q.barred = request[r].barred
      BY <1>1 DEF Request
    <3> HIDE DEF q
    <3>6. Touches(r) /\ request'[r] = q
      BY <3>3, <3>4, Touched
    <3> QED
      BY <3>1, <3>5, <3>6 DEF Fits, Holds, ApiKinds, Stay
  <2> QED
    BY <2>1, <2>2
<1>4. ASSUME NEW step \in Steps, Go(r, step), ~request[r].barred,
             step \notin {"token", "user", "authenticate"},
             step = "delete client" => request[r].client \in Clients
                                       /\ client[request[r].client].type \in {"external", "gone"},
             request[r].kind = "exchange" => step \in {"code", "delete code"},
             step \in {"code", "delete code"} => request[r].kind = "exchange"
      PROVE  P
  <2>1. Touches(r) /\ GoesOn(r, step)
    BY <1>4, GoTypes
  <2>2. Fits(request[r])'
    BY <1>4, <2>1, GoesOnFits
  <2> QED
    BY <1>4, <2>1, <2>2 DEF GoesOn, Holds
<1>5. CASE ReadUser(r)
  <2>1. request[r].step = "user" /\ request[r].kind \in ApiKinds
    BY <1>5 DEF ReadUser, Fits
  <2>2. CASE LetIn(r)
    <3>1. PICK step \in {"insert client", "delete tokens", "client"} : Go(r, step)
      BY <1>5, <2>1, <2>2 DEF ReadUser, FirstStep, ApiKinds
    <3>2. ~request[r].barred
      BY <2>1, <2>2 DEF LetIn, Fits
    <3> QED
      BY <1>4, <2>1, <3>1, <3>2 DEF ApiKinds, Steps
  <2> QED
    BY <1>2, <1>5, <2>2 DEF ReadUser
<1>6. CASE ReadSession(r)
  <2>1. request[r].step \in {"session", "verify"} /\ request[r].kind # "exchange"
    BY <1>6 DEF ReadSession, Fits
  <2>2. CASE request[r].user \in users
    <3>1. PICK step \in {"container", "insert token", "client"} : Go(r, step)
      BY <1>6, <2>2 DEF ReadSession
    <3>2. ~request[r].barred
      BY <2>1, <2>2 DEF Fits
    <3> QED
      BY <1>4, <2>1, <3>1, <3>2 DEF Steps
  <2> QED
    BY <1>2, <1>6, <2>2 DEF ReadSession
<1>7. CASE InsertClient(r) \/ DeleteClient(r) \/ ExchangeToken(r) \/ GrantCode(r) \/ DeleteTokens(r)
           \/ AddClientToken(r) \/ IssueDeveloperToken(r) \/ AddPasswordToken(r) \/ GrantToken(r)
           \/ NoApp(r) \/ Accept(r) \/ \E t \in Tokens : DeleteToken(r, t)
  BY <1>2, <1>7 DEF InsertClient, DeleteClient, ExchangeToken, GrantCode, DeleteTokens, AddClientToken,
     IssueDeveloperToken, AddPasswordToken, GrantToken, NoApp, Accept, DeleteToken, InsertToken
<1>8. CASE GetClient(r)
  <2> DEFINE c == request[r].client
  <2>1. request[r].step = "client" /\ request[r].kind # "exchange" /\ ~request[r].barred
    BY <1>8 DEF GetClient, Fits
  <2>2. CASE ~ClientExists(c)
    BY <1>2, <1>8, <2>2 DEF GetClient
  <2>3. CASE ClientExists(c)
    <3>1. c \in Clients /\ client[c].scope \in Scopes /\ client[c].app \in MaybeApp
      BY <1>1, <2>3 DEF ClientExists, ClientRow
    <3>2. WithClient(r, c)
      BY <1>8, <2>3 DEF GetClient
    <3>3. CASE request[r].kind = "del client" /\ client[c].type = "external"
      <4>1. Go(r, "delete client")
        BY <3>2, <3>3 DEF WithClient
      <4> QED
        BY <1>4, <2>1, <3>1, <3>3, <4>1 DEF Steps
    <3>4. CASE request[r].kind = "del token"
      <4>1. Go(r, "delete token")
        BY <3>2, <3>4 DEF WithClient
      <4> QED
        BY <1>4, <2>1, <4>1 DEF Steps
    <3>5. CASE Finish(r)
      BY <1>2, <3>5
    <3>6. ASSUME NEW step \in {"insert token", "app", "grant"}, NEW x \in MaybeApp,
                 request' = [request EXCEPT ![r].scope = client[c].scope, ![r].app = x, ![r].step = step]
                 \/ request' = [request EXCEPT ![r].scope = client[c].scope, ![r].step = step]
          PROVE  P
      <4>1. [request[r] EXCEPT !.scope = client[c].scope, !.app = x, !.step = step] \in Request
            /\ [request[r] EXCEPT !.scope = client[c].scope, !.step = step] \in Request
        BY <1>1, <3>1 DEF Request, Steps
      <4>2. PICK q \in Request : /\ request' = [request EXCEPT ![r] = q]
                                 /\ \/ q = [request[r] EXCEPT !.scope = client[c].scope, !.app = x, !.step = step]
                                    \/ q = [request[r] EXCEPT !.scope = client[c].scope, !.step = step]
        BY <1>1, <3>6, <4>1
      <4>3. Touches(r) /\ request'[r] = q
        BY <4>2, Touched
      <4>4. GoesOn(r, step)
        BY <1>1, <4>2, <4>3 DEF GoesOn, Request
      <4>5. Fits(request[r])'
        BY <2>1, <4>4, GoesOnFits
      <4> QED
        BY <2>1, <4>3, <4>4, <4>5 DEF GoesOn, Holds
    <3>7. None \in MaybeApp
      BY DEF MaybeApp
    <3> QED
      BY <3>1, <3>2, <3>3, <3>4, <3>5, <3>6, <3>7 DEF WithClient
  <2> QED
    BY <2>2, <2>3
<1>9. CASE GetApp(r)
  <2>1. request[r].step \in {"app", "container"} /\ request[r].kind # "exchange" /\ ~request[r].barred
    BY <1>9 DEF GetApp, Fits
  <2>2. Finish(r) \/ \E step \in {"accepted", "grant", "member"} : Go(r, step)
    BY <1>9 DEF GetApp, Decide, Granted
  <2> QED
    BY <1>2, <1>4, <2>1, <2>2 DEF Steps
<1>10. CASE IsMember(r)
  <2>1. request[r].step = "member" /\ request[r].kind # "exchange" /\ ~request[r].barred
    BY <1>10 DEF IsMember, Fits
  <2>2. Finish(r) \/ \E step \in {"accepted", "grant"} : Go(r, step)
    BY <1>10 DEF IsMember, Granted
  <2> QED
    BY <1>2, <1>4, <2>1, <2>2 DEF Steps
<1>11. CASE Authenticate(r)
  <2>1. request[r].step = "authenticate" /\ request[r].kind = "exchange" /\ ~request[r].barred
    BY <1>11 DEF Authenticate, Fits
  <2>2. CASE ClientExists(request[r].client)
    <3> DEFINE q == [request[r] EXCEPT !.scope = client[request[r].client].scope, !.step = "code"]
    <3>1. client[request[r].client].scope \in Scopes
      BY <1>1, <2>2 DEF ClientExists, ClientRow
    <3>2. q \in Request
      BY <1>1, <3>1 DEF Request, Steps
    <3>3. request' = [request EXCEPT ![r] = q]
      BY <1>1, <1>11, <2>2 DEF Authenticate
    <3>4. Touches(r) /\ request'[r] = q
      BY <3>2, <3>3, Touched
    <3>5. GoesOn(r, "code")
      BY <1>1, <3>4 DEF GoesOn, Request
    <3>6. Fits(request[r])'
      BY <2>1, <3>5, GoesOnFits
    <3> QED
      BY <3>4, <3>5, <3>6 DEF GoesOn, Holds
  <2> QED
    BY <1>2, <1>11, <2>2 DEF Authenticate
<1>12. CASE ReadCode(r)
  <2>1. request[r].step = "code" /\ request[r].kind = "exchange" /\ ~request[r].barred
        /\ request[r].code \in Codes
    BY <1>12 DEF ReadCode, Fits
  <2>2. CASE CodeValid(request[r].code) /\ code[request[r].code].client = request[r].client
    <3> DEFINE q == [request[r] EXCEPT !.user = code[request[r].code].user, !.step = "delete code"]
    <3>1. code[request[r].code].user \in MaybeUser
      BY <1>1, <2>1 DEF CodeRow
    <3>2. q \in Request
      BY <1>1, <3>1 DEF Request, Steps
    <3>3. request' = [request EXCEPT ![r] = q]
      BY <1>1, <1>12, <2>2 DEF ReadCode
    <3>4. Touches(r) /\ request'[r] = q
      BY <3>2, <3>3, Touched
    <3>5. GoesOn(r, "delete code")
      BY <1>1, <3>4 DEF GoesOn, Request
    <3>6. Fits(request[r])'
      BY <2>1, <3>5, GoesOnFits
    <3> QED
      BY <3>4, <3>5, <3>6 DEF GoesOn, Holds
  <2> QED
    BY <1>2, <1>12, <2>2 DEF ReadCode
<1>13. CASE DeleteCode(r)
  <2>1. request[r].step = "delete code" /\ request[r].kind = "exchange" /\ ~request[r].barred
    BY <1>13 DEF DeleteCode, Fits
  <2>2. CASE Go(r, "insert token")
    <3>1. Touches(r) /\ GoesOn(r, "insert token")
      BY <2>2, GoTypes DEF Steps
    <3> QED
      BY <1>13, <2>1, <3>1, GoesOnFits
  <2> QED
    BY <1>2, <1>13, <2>2 DEF DeleteCode
<1> QED
  BY <1>3, <1>5, <1>6, <1>7, <1>8, <1>9, <1>10, <1>11, <1>12, <1>13 DEF RequestStep

-----------------------------------------------------------------------------
(* Codes. *)
LEMMA CodeFrame ==
    ASSUME CodeInv, UNCHANGED code, \A r \in Requests : \A k : Holds(r, k)' => Holds(r, k)
    PROVE  CodeInv'
BY DEF CodeInv

(* A step of a request that has not got hold of a code.                    *)
LEMMA RequestStepCodes ==
    ASSUME TypeOK, Stay, CodeInv, RequestInv, NEW r \in Requests, RequestStep(r)
    PROVE  CodeInv'
<1>1. Touches(r) /\ (DeleteCode(r) \/ \A k : ~Holds(r, k)')
  BY RequestStepFits DEF RequestInv
<1>2. \A s \in Requests \ {r} : \A k : Holds(s, k)' <=> Holds(s, k)
  BY <1>1 DEF Touches, Holds
<1>3. code \in [Codes -> CodeRow] /\ Codes \subseteq Nat
  BY Bounds DEF TypeOK
<1>4. Fits(request[r])
  BY DEF RequestInv
<1> USE DEF At
<1>5. CASE DeleteCode(r)
  <2> DEFINE k == request[r].code
  <2>1. k \in Codes /\ request[r].kind = "exchange" /\ request[r].step = "delete code"
    BY <1>4, <1>5 DEF DeleteCode, Fits
  <2>2. CASE code[k].state # "gone"
    <3>1. code' = CodesWithout({k}) /\ Go(r, "insert token")
      BY <1>5, <2>2 DEF DeleteCode
    <3>2. /\ code'[k].state = "gone" /\ code'[k].spent = code[k].spent
          /\ \A j \in Codes \ {k} : code'[j] = code[j]
      BY <1>3, <2>1, <3>1 DEF CodesWithout, CodeRow
    <3>3. \A j : Holds(r, j)' => j = k
      BY <3>1, GoTypes DEF GoesOn, Holds, Steps
    <3>4. code[k].spent = 0
      <4>1. code[k].spent \in Nat /\ ~(code[k].spent > 0)
        BY <1>3, <2>1, <2>2 DEF CodeInv, CodeRow
      <4> QED
        BY <4>1
    <3>5. \A s \in Requests : ~Holds(s, k)
      BY <2>1, <2>2 DEF CodeInv
    <3> QED
      BY <1>2, <3>2, <3>3, <3>4, <3>5 DEF CodeInv
  <2>3. CASE code[k].state = "gone"
    <3>1. Finish(r) /\ UNCHANGED code
      BY <1>5, <2>3 DEF DeleteCode
    <3> QED
      BY <1>2, <3>1, FinishFits, CodeFrame
  <2> QED
    BY <2>2, <2>3
<1>6. CASE ~DeleteCode(r) /\ ExchangeToken(r)
  <2> DEFINE k == request[r].code
  <2>1. Holds(r, k) /\ code' = [code EXCEPT ![k].spent = @ + 1]
    BY <1>6 DEF ExchangeToken, InsertToken, Holds
  <2>2. k \in Codes
    BY <1>4, <2>1 DEF Fits, Holds
  <2>3. code[k].spent = 0 /\ code[k].state = "gone" /\ \A s \in Requests \ {r} : ~Holds(s, k)
    BY <2>1, <2>2 DEF CodeInv
  <2>4. /\ code'[k].spent = 1 /\ code'[k].state = "gone"
        /\ \A j \in Codes \ {k} : code'[j] = code[j]
    BY <1>3, <2>1, <2>2, <2>3 DEF CodeRow
  <2>5. \A j : ~Holds(r, j)'
    BY <1>1, <1>6
  <2> HIDE DEF k
  <2> QED
    BY <1>2, <2>3, <2>4, <2>5 DEF CodeInv
<1>7. CASE ~DeleteCode(r) /\ GrantCode(r)
  <2> DEFINE k == Fresh(code, Codes)
  <2>1. k \in Codes /\ code[k].state = "none"
        /\ code' = [code EXCEPT ![k] = NewCode(request[r].user, request[r].client)]
    BY <1>7, FreshIds DEF GrantCode, CodesWith
  <2>2. code'[k].spent = 0 /\ \A j \in Codes \ {k} : code'[j] = code[j]
    BY <1>3, <2>1 DEF NewCode
  <2>3. \A s \in Requests : ~Holds(s, k)
    BY <2>1 DEF CodeInv
  <2>4. \A j : ~Holds(r, j)'
    BY <1>1, <1>7
  <2> HIDE DEF k
  <2> QED
    BY <1>2, <2>1, <2>2, <2>3, <2>4 DEF CodeInv
<1>8. CASE ~DeleteCode(r) /\ ~ExchangeToken(r) /\ ~GrantCode(r)
  <2>1. UNCHANGED code
    BY <1>8 DEF RequestStep, ReadToken, ReadUser, ReadSession, InsertClient, GetClient, DeleteClient,
       AddClientToken, IssueDeveloperToken, AddPasswordToken, GrantToken, DeleteToken, DeleteTokens,
       GetApp, NoApp, IsMember, Accept, Authenticate, ReadCode, dbVars
  <2> QED
    BY <1>1, <1>2, <1>8, <2>1, CodeFrame
<1> QED
  BY <1>5, <1>6, <1>7, <1>8

LEMMA CodesKept == TypeOK /\ Stay /\ RequestInv /\ CodeInv /\ [Next]_vars => CodeInv'
<1> SUFFICES ASSUME TypeOK, Stay, RequestInv, CodeInv, [Next]_vars PROVE CodeInv'
  OBVIOUS
<1>1. code \in [Codes -> CodeRow]
  BY DEF TypeOK
<1>2. CASE \E r \in Requests : RequestStep(r)
  BY <1>2, RequestStepCodes
<1>3. ASSUME NEW r \in Requests, Asks(r) PROVE CodeInv'
  <2>1. Touches(r) /\ (\A k : ~Holds(r, k)') /\ UNCHANGED dbVars
    BY <1>3, AsksFit
  <2> QED
    BY <2>1, CodeFrame DEF Touches, Holds, dbVars
<1>4. CASE UNCHANGED vars \/ \E a \in Apps : TaskStep(a)
  <2>1. UNCHANGED <<code, request>>
    BY <1>4, TaskStepStays DEF vars, dbVars
  <2> QED
    BY <2>1, CodeFrame DEF Holds
<1>5. CASE OtherStep
  <2>1. CASE Restart
    <3>1. UNCHANGED code /\ \A r \in Requests : request'[r] = Idle
      BY <2>1 DEF Restart, dbVars
    <3> QED
      BY <3>1, EndedFits, CodeFrame
  <2>2. CASE \E k \in Codes : ExpireCode(k)
    <3>1. PICK k \in Codes : code[k].state = "live" /\ code' = [code EXCEPT ![k].state = "expired"]
                             /\ UNCHANGED request
      BY <2>2 DEF ExpireCode, CodeValid
    <3>2. code'[k].spent = code[k].spent /\ \A j \in Codes \ {k} : code'[j] = code[j]
      BY <1>1, <3>1 DEF CodeRow
    <3>3. \A s \in Requests : \A j : Holds(s, j)' <=> Holds(s, j)
      BY <3>1 DEF Holds
    <3> QED
      BY <3>1, <3>2, <3>3 DEF CodeInv
  <2>3. CASE CleanupCodes
    <3>1. code' = CodesWithout({k \in Codes : code[k].state = "expired"}) /\ UNCHANGED request
      BY <2>3 DEF CleanupCodes
    <3>2. \A k \in Codes : code'[k].spent = code[k].spent
                           /\ (code'[k].state = code[k].state \/ code'[k].state = "gone")
      BY <1>1, <3>1 DEF CodesWithout, CodeRow
    <3>3. \A s \in Requests : \A j : Holds(s, j)' <=> Holds(s, j)
      BY <3>1 DEF Holds
    <3> QED
      BY <3>2, <3>3 DEF CodeInv
  <2>4. CASE ~Restart /\ ~CleanupCodes /\ ~(\E k \in Codes : ExpireCode(k))
    <3>1. UNCHANGED <<code, request>>
      BY <1>5, <2>4 DEF OtherStep, Command, TaskFails, RemoveUser, ChangeMember, SetDeveloperMode,
         ExpireToken, CleanupTokens, dbVars
    <3> QED
      BY <3>1, CodeFrame DEF Holds
  <2> QED
    BY <2>1, <2>2, <2>3, <2>4
<1> QED
  BY <1>2, <1>3, <1>4, <1>5, NextSplit

-----------------------------------------------------------------------------
(* The clients of the apps. *)

LEMMA OauthFrame ==
    ASSUME TypeOK
    PROVE  /\ UNCHANGED client => \A a \in Apps : OauthClients(a)' = OauthClients(a)
           /\ \A scope : HasFreshClient /\ client' = ClientsWith(ExternalClient(scope)) =>
                \A a \in Apps : OauthClients(a)' = OauthClients(a)
           /\ \A c \in Clients : client[c].type \in {"external", "gone"} /\ client' = DelClient(c) =>
                \A a \in Apps : OauthClients(a)' = OauthClients(a)
<1>1. client \in [Clients -> ClientRow] /\ 1..MaxClients \subseteq Clients
  BY Bounds DEF TypeOK
<1>2. ASSUME UNCHANGED client, NEW a \in Apps PROVE OauthClients(a)' = OauthClients(a)
  BY <1>2 DEF OauthClients
<1>3. ASSUME NEW scope, HasFreshClient, client' = ClientsWith(ExternalClient(scope)), NEW a \in Apps
      PROVE  OauthClients(a)' = OauthClients(a)
  <2> DEFINE f == FreshClient
  <2>1. f \in Clients /\ client[f].type = "none" /\ client' = [client EXCEPT ![f] = ExternalClient(scope)]
    BY <1>1, <1>3, FreshIds DEF ClientsWith
  <2> HIDE DEF f
  <2>2. client'[f].type = "external" /\ \A c \in Clients \ {f} : client'[c] = client[c]
    BY <1>1, <2>1 DEF ExternalClient
  <2> QED
    BY <2>1, <2>2 DEF OauthClients
<1>4. ASSUME NEW c \in Clients, client[c].type \in {"external", "gone"}, client' = DelClient(c), NEW a \in Apps
      PROVE  OauthClients(a)' = OauthClients(a)
  <2>1. client'[c].type = "gone" /\ \A d \in Clients \ {c} : client'[d] = client[d]
    BY <1>1, <1>4 DEF DelClient, ClientsWithout, ClientRow
  <2> QED
    BY <1>4, <2>1 DEF OauthClients
<1> QED
  BY <1>2, <1>3, <1>4

(* The clients of an app are removed, one is added: those of the others    *)
(* are left alone.                                                         *)
LEMMA OauthDeleted ==
    ASSUME TypeOK, NEW a \in Apps, client' = DelByAppIdAndType(a)
    PROVE  OauthClients(a)' = {} /\ \A b \in Apps \ {a} : OauthClients(b)' = OauthClients(b)
<1>1. client \in [Clients -> ClientRow]
  BY DEF TypeOK
<1>2. \A c \in Clients : client'[c] = IF c \in OauthClients(a) THEN [client[c] EXCEPT !.type = "gone"]
                                                               ELSE client[c]
  BY DEF DelByAppIdAndType, ClientsWithout
<1>3. \A c \in OauthClients(a) : client'[c].type = "gone" /\ client[c].app = a
  BY <1>1, <1>2 DEF OauthClients, ClientRow
<1>4. \A c \in Clients \ OauthClients(a) : client'[c] = client[c]
  BY <1>2
<1> QED
  BY <1>3, <1>4 DEF OauthClients

LEMMA OauthAdded ==
    ASSUME TypeOK, NEW a \in Apps, HasFreshClient, client' = ClientsWith(OauthClient(a))
    PROVE  /\ OauthClients(a)' = OauthClients(a) \cup {FreshClient}
           /\ \A b \in Apps \ {a} : OauthClients(b)' = OauthClients(b)
           /\ FreshClient \in Clients
<1> DEFINE f == FreshClient
<1>1. client \in [Clients -> ClientRow]
  BY DEF TypeOK
<1>2. f \in Clients /\ client[f].type = "none" /\ client' = [client EXCEPT ![f] = OauthClient(a)]
  BY Bounds, FreshIds DEF ClientsWith
<1> HIDE DEF f
<1>3. /\ client'[f].type = "addon-oauth" /\ client'[f].app = a
      /\ \A c \in Clients \ {f} : client'[c] = client[c]
  BY <1>1, <1>2 DEF OauthClient
<1>4. OauthClients(a)' = OauthClients(a) \cup {f}
  BY <1>2, <1>3 DEF OauthClients
<1>5. \A b \in Apps \ {a} : OauthClients(b)' = OauthClients(b)
  BY <1>2, <1>3 DEF OauthClients
<1> QED
  BY <1>2, <1>4, <1>5 DEF f

LEMMA TaskFrame ==
    ASSUME NEW a \in Apps, TaskFits(a), app'[a] = app[a], OauthClients(a)' = OauthClients(a)
    PROVE  TaskFits(a)'
BY DEF TaskFits

LEMMA TaskStepTasks ==
    ASSUME TypeOK, TaskInv, NEW a \in Apps, TaskStep(a)
    PROVE  TaskInv'
<1>1. app \in [Apps -> AppRow] /\ app[a] \in AppRow /\ TaskFits(a)
  BY DEF TypeOK, TaskInv
<1>2. app[a].step # "containers" => app[a].command \in {"build", "remove"}
  BY <1>1 DEF TaskFits, AppRow
<1> SUFFICES TaskFits(a)' /\ \A b \in Apps \ {a} : app'[b] = app[b] /\ OauthClients(b)' = OauthClients(b)
  BY TaskFrame DEF TaskInv
<1>3. \A b \in Apps \ {a} : app'[b] = app[b]
  BY <1>1 DEF TaskStep, DeleteContainers, FindClient, DeleteTokensOfClient, DeleteClientsOfApp,
     AddClientOfApp, UnsetConfig, SetConfig, CreateContainer, DeleteRow, Step
<1>4. UNCHANGED client => \A b \in Apps : OauthClients(b)' = OauthClients(b)
  BY OauthFrame
<1>5. CASE DeleteContainers(a)
  <2>1. UNCHANGED client /\ app[a].command \in {"build", "remove"}
    BY <1>5 DEF DeleteContainers, dbVars
  <2>2. app'[a].step = "find" /\ app'[a].command = app[a].command
    BY <1>1, <1>5 DEF DeleteContainers, AppRow
  <2> QED
    BY <1>3, <1>4, <2>1, <2>2 DEF TaskFits
<1>6. CASE FindClient(a)
  <2>1. UNCHANGED client /\ app[a].command \in {"build", "remove"}
    BY <1>2, <1>6 DEF FindClient, dbVars
  <2>2. CASE app'[a].step = "tokens" /\ app'[a].command = app[a].command
    BY <1>3, <1>4, <2>1, <2>2 DEF TaskFits
  <2>3. CASE OauthClients(a) = {} /\ app' = [app EXCEPT ![a].step = AfterOldClient(a)]
    <3>1. app'[a].command = app[a].command
          /\ app'[a].step = IF app[a].command = "build" THEN "add" ELSE "unset"
      BY <1>1, <2>3 DEF AfterOldClient, AppRow
    <3> QED
      BY <1>3, <1>4, <2>1, <2>3, <3>1 DEF TaskFits
  <2>4. ASSUME NEW c \in OauthClients(a), app' = [app EXCEPT ![a].found = c, ![a].step = "tokens"]
        PROVE  app'[a].step = "tokens" /\ app'[a].command = app[a].command
    BY <1>1, <2>4 DEF AppRow
  <2> QED
    BY <1>6, <2>2, <2>3, <2>4 DEF FindClient
<1>7. CASE DeleteTokensOfClient(a)
  <2>1. UNCHANGED client /\ app[a].command \in {"build", "remove"}
    BY <1>7 DEF DeleteTokensOfClient, Step
  <2>2. app'[a].step = "client" /\ app'[a].command = app[a].command
    BY <1>1, <1>7 DEF DeleteTokensOfClient, Step, AppRow
  <2> QED
    BY <1>3, <1>4, <2>1, <2>2 DEF TaskFits
<1>8. CASE DeleteClientsOfApp(a)
  <2>1. client' = DelByAppIdAndType(a) /\ app[a].command \in {"build", "remove"}
    BY <1>8 DEF DeleteClientsOfApp, Step
  <2>2. app'[a].command = app[a].command
        /\ app'[a].step = IF app[a].command = "build" THEN "add" ELSE "unset"
    BY <1>1, <1>8 DEF DeleteClientsOfApp, Step, AfterOldClient, AppRow
  <2> QED
    BY <1>3, <2>1, <2>2, OauthDeleted DEF TaskFits
<1>9. CASE AddClientOfApp(a)
  <2>1. HasFreshClient /\ client' = ClientsWith(OauthClient(a)) /\ app[a].step = "add"
    BY <1>9 DEF AddClientOfApp
  <2>2. app[a].command = "build" /\ OauthClients(a) = {}
    BY <1>1, <2>1 DEF TaskFits
  <2>3. app'[a].command = "build" /\ app'[a].step = "unset" /\ app'[a].found = FreshClient
    BY <1>1, <1>9, <2>2 DEF AddClientOfApp, AppRow
  <2>4. OauthClients(a)' = {FreshClient}
    BY <2>1, <2>2, OauthAdded
  <2>5. TaskFits(a)'
    BY <2>3, <2>4 DEF TaskFits
  <2> QED
    BY <1>3, <2>1, <2>5, OauthAdded
<1>10. CASE UnsetConfig(a)
  <2>1. UNCHANGED client /\ app[a].step = "unset" /\ app[a].command \in {"build", "remove"}
    BY <1>2, <1>10 DEF UnsetConfig, dbVars
  <2>2. app'[a].command = app[a].command /\ app'[a].found = app[a].found
        /\ app'[a].step = IF app[a].command = "build" THEN "config" ELSE "row"
    BY <1>1, <1>10 DEF UnsetConfig, AppRow
  <2> QED
    BY <1>1, <1>3, <1>4, <2>1, <2>2 DEF TaskFits
<1>11. CASE SetConfig(a)
  <2>1. UNCHANGED client /\ app[a].step = "config"
    BY <1>11 DEF SetConfig, dbVars
  <2>2. app'[a].command = app[a].command /\ app'[a].config = app[a].found /\ app'[a].step = "create"
    BY <1>1, <1>11 DEF SetConfig, AppRow
  <2> QED
    BY <1>1, <1>3, <1>4, <2>1, <2>2 DEF TaskFits
<1>12. CASE CreateContainer(a)
  <2>1. UNCHANGED client /\ app[a].step = "create"
    BY <1>12 DEF CreateContainer, dbVars
  <2>2. /\ app'[a].command = "none" /\ app'[a].config = app[a].config /\ app'[a].env = app[a].config
        /\ app'[a].step = "containers"
    BY <1>1, <1>12 DEF CreateContainer, AppRow
  <2> QED
    BY <1>1, <1>3, <1>4, <2>1, <2>2 DEF TaskFits
<1>13. CASE DeleteRow(a)
  <2>1. UNCHANGED client
    BY <1>13 DEF DeleteRow, dbVars
  <2>2. app'[a].row = "gone" /\ app'[a].step = "containers"
    BY <1>1, <1>13 DEF DeleteRow, AppRow
  <2> QED
    BY <1>3, <1>4, <2>1, <2>2 DEF TaskFits
<1> QED
  BY <1>5, <1>6, <1>7, <1>8, <1>9, <1>10, <1>11, <1>12, <1>13 DEF TaskStep

LEMMA TasksKept == TypeOK /\ RequestInv /\ TaskInv /\ [Next]_vars => TaskInv'
<1> SUFFICES ASSUME TypeOK, RequestInv, TaskInv, [Next]_vars PROVE TaskInv'
  OBVIOUS
<1>1. app \in [Apps -> AppRow] /\ UNCHANGED client => \A b \in Apps : OauthClients(b)' = OauthClients(b)
  BY OauthFrame
<1>2. ASSUME NEW r \in Requests, RequestStep(r) PROVE TaskInv'
  <2>1. UNCHANGED app
    BY <1>2, RequestStepStays
  <2>2. \A a \in Apps : OauthClients(a)' = OauthClients(a)
    <3>1. CASE InsertClient(r)
      BY <3>1, OauthFrame DEF InsertClient
    <3>2. CASE DeleteClient(r)
      BY <3>2, OauthFrame DEF DeleteClient, At, RequestInv, Fits
    <3>3. CASE ~InsertClient(r) /\ ~DeleteClient(r)
      <4>1. UNCHANGED client
        BY <1>2, <3>3 DEF RequestStep, ReadToken, ReadUser, ReadSession, GetClient, AddClientToken,
           IssueDeveloperToken, AddPasswordToken, GrantToken, ExchangeToken, DeleteToken, DeleteTokens,
           GetApp, NoApp, IsMember, Accept, GrantCode, Authenticate, ReadCode, DeleteCode, InsertToken,
           dbVars
      <4> QED
        BY <4>1, OauthFrame
    <3> QED
      BY <3>1, <3>2, <3>3
  <2> QED
    BY <2>1, <2>2, TaskFrame DEF TaskInv
<1>3. CASE UNCHANGED vars \/ \E r \in Requests : Asks(r)
  <2>1. UNCHANGED <<client, app>>
    BY <1>3, AsksFit DEF vars, dbVars
  <2> QED
    BY <2>1, OauthFrame, TaskFrame DEF TaskInv
<1>4. CASE \E a \in Apps : TaskStep(a)
  BY <1>4, TaskStepTasks
<1>5. CASE OtherStep
  <2>1. UNCHANGED client
    BY <1>5 DEF OtherStep, Command, TaskFails, Restart, RemoveUser, ChangeMember, SetDeveloperMode,
       ExpireToken, ExpireCode, CleanupTokens, CleanupCodes, dbVars
  <2>2. \A b \in Apps : OauthClients(b)' = OauthClients(b)
    BY <2>1, OauthFrame
  <2>3. app \in [Apps -> AppRow]
    BY DEF TypeOK
  <2>4. ASSUME NEW a \in Apps, NEW command \in {"build", "remove"}, Command(a, command) PROVE TaskInv'
    <3>1. /\ app'[a].command = command /\ app'[a].step = "containers"
          /\ \A b \in Apps \ {a} : app'[b] = app[b]
      BY <2>3, <2>4 DEF Command, AppRow
    <3>2. TaskFits(a)'
      BY <3>1 DEF TaskFits
    <3> QED
      BY <2>2, <3>1, <3>2, TaskFrame DEF TaskInv
  <2>5. ASSUME NEW a \in Apps, TaskFails(a) PROVE TaskInv'
    <3>1. /\ app'[a].command = "error" /\ app'[a].step = "containers"
          /\ \A b \in Apps \ {a} : app'[b] = app[b]
      BY <2>3, <2>5 DEF TaskFails, AppRow
    <3>2. TaskFits(a)'
      BY <3>1 DEF TaskFits
    <3> QED
      BY <2>2, <3>1, <3>2, TaskFrame DEF TaskInv
  <2>6. CASE Restart
    <3>1. ASSUME NEW a \in Apps PROVE TaskFits(a)'
      <4>1. /\ app'[a].command = app[a].command /\ app'[a].step = "containers" /\ app'[a].row = app[a].row
            /\ app'[a].env = app[a].env /\ app'[a].config = app[a].config
        BY <2>3, <2>6 DEF Restart, AppRow
      <4> QED
        BY <2>2, <4>1 DEF TaskInv, TaskFits
    <3> QED
      BY <3>1 DEF TaskInv
  <2>7. CASE UNCHANGED app
    BY <2>2, <2>7, TaskFrame DEF TaskInv
  <2> QED
    BY <1>5, <2>4, <2>5, <2>6, <2>7 DEF OtherStep, RemoveUser, ChangeMember, SetDeveloperMode,
       ExpireToken, ExpireCode, CleanupTokens, CleanupCodes
<1> QED
  BY <1>2, <1>3, <1>4, <1>5, NextSplit

-----------------------------------------------------------------------------
(* Types. *)
LEMMA RequestsKept == TypeOK /\ Stay /\ RequestInv /\ [Next]_vars => RequestInv' /\ request' \in [Requests -> Request]
<1> SUFFICES ASSUME TypeOK, Stay, RequestInv, [Next]_vars
             PROVE  RequestInv' /\ request' \in [Requests -> Request]
  OBVIOUS
<1>1. request \in [Requests -> Request]
  BY DEF TypeOK
<1>2. ASSUME NEW r \in Requests, Asks(r) \/ RequestStep(r)
      PROVE  RequestInv' /\ request' \in [Requests -> Request]
  <2>1. Touches(r) /\ Fits(request[r])'
    BY <1>2, AsksFit, RequestStepFits DEF RequestInv
  <2>2. \A s \in Requests \ {r} : Fits(request[s])'
    BY <2>1, UntouchedFits DEF RequestInv, Touches
  <2> QED
    BY <2>1, <2>2 DEF RequestInv, Touches
<1>3. CASE UNCHANGED request
  BY <1>1, <1>3, UntouchedFits DEF RequestInv
<1>4. CASE OtherStep \/ UNCHANGED vars \/ \E a \in Apps : TaskStep(a)
  <2>1. CASE Restart
    <3>1. request' = [r \in Requests |-> Idle]
      BY <2>1 DEF Restart
    <3> QED
      BY <3>1, EndedFits, RowTypes DEF RequestInv
  <2>2. CASE ~Restart
    <3>1. UNCHANGED request
      BY <1>4, <2>2, TaskStepStays DEF OtherStep, Command, TaskFails, RemoveUser, ChangeMember,
         SetDeveloperMode, ExpireToken, ExpireCode, CleanupTokens, CleanupCodes, vars
    <3> QED
      BY <1>3, <3>1
  <2> QED
    BY <2>1, <2>2
<1> QED
  BY <1>2, <1>4, NextSplit

(* The rows, request by request. *)
LEMMA RequestStepTypes ==
    ASSUME TypeOK, RequestInv, NEW r \in Requests, RequestStep(r)
    PROVE  /\ client' \in [Clients -> ClientRow] /\ token' \in [Tokens -> TokenRow]
           /\ code' \in [Codes -> CodeRow]
<1>1. /\ request[r] \in Request
      /\ client \in [Clients -> ClientRow] /\ token \in [Tokens -> TokenRow] /\ code \in [Codes -> CodeRow]
  BY DEF TypeOK
<1>2. /\ request[r].user \in MaybeUser /\ request[r].client \in MaybeClient /\ request[r].scope \in Scopes
  BY <1>1 DEF Request
<1>3. CASE InsertClient(r)
  <2>1. \A scope \in Scopes : ExternalClient(scope) \in ClientRow
    BY DEF ExternalClient, ClientRow, MaybeApp
  <2> QED
    BY <1>1, <1>3, <2>1, RowTypes DEF InsertClient
<1>4. CASE DeleteClient(r)
  BY <1>1, <1>4, RowTypes DEF DeleteClient, DelClient
<1>5. CASE AddClientToken(r) \/ IssueDeveloperToken(r) \/ AddPasswordToken(r) \/ GrantToken(r)
  <2>1. (\E kind : InsertToken(r, kind)) /\ UNCHANGED code
    BY <1>5 DEF AddClientToken, IssueDeveloperToken, AddPasswordToken, GrantToken
  <2> QED
    BY <1>1, <1>2, <2>1, RowTypes DEF InsertToken
<1>6. CASE ExchangeToken(r)
  <2>1. code' = [code EXCEPT ![request[r].code].spent = @ + 1]
    BY <1>6 DEF ExchangeToken
  <2>2. \A k \in Codes : [code[k] EXCEPT !.spent = @ + 1] \in CodeRow
    BY <1>1 DEF CodeRow
  <2>3. code' \in [Codes -> CodeRow]
    BY <1>1, <2>1, <2>2
  <2> QED
    BY <1>1, <1>2, <1>6, <2>3, RowTypes DEF ExchangeToken, InsertToken
<1>7. CASE DeleteTokens(r) \/ \E t \in Tokens : DeleteToken(r, t)
  BY <1>1, <1>7, RowTypes DEF DeleteTokens, DeleteToken, DelToken, DelByIdentifierAndClientId
<1>8. CASE GrantCode(r)
  BY <1>1, <1>2, <1>8, RowTypes DEF GrantCode
<1>9. CASE DeleteCode(r)
  BY <1>1, <1>9, RowTypes DEF DeleteCode
<1>10. CASE \/ ReadToken(r) \/ ReadUser(r) \/ ReadSession(r) \/ GetClient(r) \/ GetApp(r) \/ NoApp(r)
            \/ IsMember(r) \/ Accept(r) \/ Authenticate(r) \/ ReadCode(r)
  <2>1. UNCHANGED dbVars
    BY <1>10 DEF ReadToken, ReadUser, ReadSession, GetClient, GetApp, NoApp, IsMember, Accept,
       Authenticate, ReadCode
  <2> QED
    BY <1>1, <2>1 DEF dbVars
<1> QED
  BY <1>3, <1>4, <1>5, <1>6, <1>7, <1>8, <1>9, <1>10 DEF RequestStep

LEMMA TaskStepTypes ==
    ASSUME TypeOK, NEW a \in Apps, TaskStep(a)
    PROVE  /\ client' \in [Clients -> ClientRow] /\ token' \in [Tokens -> TokenRow]
           /\ app' \in [Apps -> AppRow]
<1>1. /\ app \in [Apps -> AppRow] /\ app[a] \in AppRow
      /\ client \in [Clients -> ClientRow] /\ token \in [Tokens -> TokenRow]
  BY DEF TypeOK
<1>2. CASE UNCHANGED <<client, token>>
        /\ \/ DeleteContainers(a) \/ FindClient(a) \/ UnsetConfig(a) \/ SetConfig(a) \/ CreateContainer(a)
           \/ DeleteRow(a)
  <2>1. None \in MaybeClient /\ OauthClients(a) \subseteq MaybeClient
    BY DEF MaybeClient, OauthClients
  <2>2. PICK q : app' = [app EXCEPT ![a] = q] /\ q \in AppRow
    <3>1. CASE DeleteContainers(a)
      <4>1. [app[a] EXCEPT !.env = None, !.step = "find"] \in AppRow
        BY <1>1, <2>1 DEF AppRow, TaskSteps
      <4> QED
        BY <1>1, <3>1, <4>1 DEF DeleteContainers
    <3>2. CASE FindClient(a)
      <4>1. \A c \in OauthClients(a) : [app[a] EXCEPT !.found = c, !.step = "tokens"] \in AppRow
        BY <1>1, <2>1 DEF AppRow, TaskSteps
      <4>2. [app[a] EXCEPT !.step = AfterOldClient(a)] \in AppRow
        BY <1>1 DEF AppRow, TaskSteps, AfterOldClient
      <4> QED
        BY <1>1, <3>2, <4>1, <4>2 DEF FindClient
    <3>3. CASE UnsetConfig(a)
      <4>1. \A s \in {"config", "row"} : [app[a] EXCEPT !.config = None, !.step = s] \in AppRow
        BY <1>1, <2>1 DEF AppRow, TaskSteps
      <4> QED
        BY <1>1, <3>3, <4>1 DEF UnsetConfig
    <3>4. CASE SetConfig(a)
      <4>1. [app[a] EXCEPT !.config = app[a].found, !.step = "create"] \in AppRow
        BY <1>1 DEF AppRow, TaskSteps
      <4> QED
        BY <1>1, <3>4, <4>1 DEF SetConfig
    <3>5. CASE CreateContainer(a)
      <4>1. [app[a] EXCEPT !.env = app[a].config, !.command = "none", !.found = None,
                           !.step = "containers"] \in AppRow
        BY <1>1, <2>1 DEF AppRow, TaskSteps
      <4> QED
        BY <1>1, <3>5, <4>1 DEF CreateContainer
    <3>6. CASE DeleteRow(a)
      <4>1. [app[a] EXCEPT !.row = "gone", !.command = "none", !.config = None, !.found = None,
                           !.step = "containers"] \in AppRow
        BY <1>1, <2>1 DEF AppRow, TaskSteps
      <4> QED
        BY <1>1, <3>6, <4>1 DEF DeleteRow
    <3> QED
      BY <1>2, <3>1, <3>2, <3>3, <3>4, <3>5, <3>6
  <2> QED
    BY <1>1, <1>2, <2>2
<1>3. CASE DeleteTokensOfClient(a)
  <2>1. [app[a] EXCEPT !.step = "client"] \in AppRow
    BY <1>1 DEF AppRow, TaskSteps
  <2> QED
    BY <1>1, <1>3, <2>1, RowTypes DEF DeleteTokensOfClient, Step, DelByClientId
<1>4. CASE DeleteClientsOfApp(a)
  <2>1. [app[a] EXCEPT !.step = AfterOldClient(a)] \in AppRow
    BY <1>1 DEF AppRow, TaskSteps, AfterOldClient
  <2> QED
    BY <1>1, <1>4, <2>1, RowTypes DEF DeleteClientsOfApp, Step, DelByAppIdAndType
<1>5. CASE AddClientOfApp(a)
  <2>1. FreshClient \in MaybeClient
    BY <1>5, FreshIds, Bounds DEF AddClientOfApp, MaybeClient
  <2>2. [app[a] EXCEPT !.found = FreshClient, !.step = "unset"] \in AppRow
    BY <1>1, <2>1 DEF AppRow, TaskSteps
  <2>3. app' = [app EXCEPT ![a] = [app[a] EXCEPT !.found = FreshClient, !.step = "unset"]]
    BY <1>1, <1>5 DEF AddClientOfApp
  <2>4. OauthClient(a) \in ClientRow
    BY DEF OauthClient, ClientRow, MaybeApp, Scopes
  <2> QED
    BY <1>1, <1>5, <2>2, <2>3, <2>4, RowTypes DEF AddClientOfApp
<1>6. TaskStep(a) => UNCHANGED <<client, token>> \/ DeleteTokensOfClient(a) \/ DeleteClientsOfApp(a)
                     \/ AddClientOfApp(a)
  BY DEF TaskStep, DeleteContainers, FindClient, UnsetConfig, SetConfig, CreateContainer, DeleteRow, dbVars
<1> QED
  BY <1>2, <1>3, <1>4, <1>5, <1>6 DEF TaskStep

LEMMA OtherStepTypes ==
    ASSUME TypeOK, OtherStep
    PROVE  /\ users' \subseteq Users /\ members' \subseteq users' /\ developer' \in BOOLEAN
           /\ token' \in [Tokens -> TokenRow] /\ code' \in [Codes -> CodeRow]
           /\ app' \in [Apps -> AppRow] /\ events' \in 0..MaxEvents /\ UNCHANGED <<client, requests>>
<1>1. /\ token \in [Tokens -> TokenRow] /\ code \in [Codes -> CodeRow] /\ app \in [Apps -> AppRow]
      /\ users \subseteq Users /\ members \subseteq users /\ developer \in BOOLEAN
      /\ events \in 0..MaxEvents /\ MaxEvents \in Nat
  BY Bounds DEF TypeOK
<1>2. Event => events' \in 0..MaxEvents
  BY <1>1 DEF Event
<1>3. None \in MaybeClient
  BY DEF MaybeClient
<1> USE DEF dbVars
<1>4. ASSUME NEW a \in Apps, NEW command \in {"build", "remove"}, Command(a, command)
      PROVE  app' \in [Apps -> AppRow]
  <2>1. PICK restriction \in Restrictions :
            app' = [app EXCEPT ![a].command = command, ![a].step = "containers", ![a].found = None,
                               ![a].restriction = restriction]
    BY <1>4 DEF Command
  <2>2. [app[a] EXCEPT !.command = command, !.step = "containers", !.found = None,
                       !.restriction = restriction] \in AppRow
    BY <1>1, <1>3 DEF AppRow, TaskSteps
  <2> QED
    BY <1>1, <2>1, <2>2
<1>5. ASSUME NEW a \in Apps, TaskFails(a) PROVE app' \in [Apps -> AppRow]
  <2>1. [app[a] EXCEPT !.command = "error", !.step = "containers", !.found = None] \in AppRow
    BY <1>1, <1>3 DEF AppRow, TaskSteps
  <2> QED
    BY <1>1, <1>5, <2>1 DEF TaskFails
<1>6. CASE \E a \in Apps : (\E command \in {"build", "remove"} : Command(a, command)) \/ TaskFails(a)
  <2>1. app' \in [Apps -> AppRow]
    BY <1>4, <1>5, <1>6
  <2>2. Event /\ UNCHANGED <<dbVars, requests>>
    BY <1>6 DEF Command, TaskFails
  <2> QED
    BY <1>1, <1>2, <2>1, <2>2
<1>7. CASE Restart
  <2>1. \A a \in Apps : [app[a] EXCEPT !.step = "containers", !.found = None] \in AppRow
    BY <1>1, <1>3 DEF AppRow, TaskSteps
  <2> QED
    BY <1>1, <1>2, <1>7, <2>1 DEF Restart
<1>8. CASE (\E u \in Users : RemoveUser(u) \/ ChangeMember(u)) \/ SetDeveloperMode
  BY <1>1, <1>2, <1>8 DEF RemoveUser, ChangeMember, SetDeveloperMode
<1>9. CASE \E t \in Tokens : ExpireToken(t)
  <2>1. \A t \in Tokens : [token[t] EXCEPT !.state = "expired"] \in TokenRow
    BY <1>1 DEF TokenRow, RowStates
  <2>2. token' \in [Tokens -> TokenRow]
    BY <1>1, <1>9, <2>1 DEF ExpireToken
  <2> QED
    BY <1>1, <1>2, <1>9, <2>2 DEF ExpireToken
<1>10. CASE \E k \in Codes : ExpireCode(k)
  <2>1. \A k \in Codes : [code[k] EXCEPT !.state = "expired"] \in CodeRow
    BY <1>1 DEF CodeRow, RowStates
  <2>2. code' \in [Codes -> CodeRow]
    BY <1>1, <1>10, <2>1 DEF ExpireCode
  <2> QED
    BY <1>1, <1>2, <1>10, <2>2 DEF ExpireCode
<1>11. CASE CleanupTokens \/ CleanupCodes
  BY <1>1, <1>11, RowTypes DEF CleanupTokens, CleanupCodes, DelExpired
<1> QED
  BY <1>6, <1>7, <1>8, <1>9, <1>10, <1>11 DEF OtherStep

LEMMA TypesKept == TypeOK /\ RequestInv /\ [Next]_vars => TypeOK'
<1> SUFFICES ASSUME TypeOK, RequestInv, [Next]_vars PROVE TypeOK'
  OBVIOUS
<1>1. request' \in [Requests -> Request]
  BY RowsStay, RequestsKept
<1>2. CASE UNCHANGED vars
  BY <1>2 DEF TypeOK, vars, dbVars
<1>3. ASSUME NEW r \in Requests, Asks(r) PROVE TypeOK'
  BY <1>1, <1>3, AsksFit DEF TypeOK, dbVars
<1>4. ASSUME NEW r \in Requests, RequestStep(r) PROVE TypeOK'
  BY <1>1, <1>4, RequestStepStays, RequestStepTypes DEF TypeOK
<1>5. ASSUME NEW a \in Apps, TaskStep(a) PROVE TypeOK'
  BY <1>1, <1>5, TaskStepStays, TaskStepTypes DEF TypeOK
<1>6. CASE OtherStep
  BY <1>1, <1>6, OtherStepTypes DEF TypeOK
<1> QED
  BY <1>2, <1>3, <1>4, <1>5, <1>6, NextSplit

-----------------------------------------------------------------------------
(* The beginning, and the theorems. *)
LEMMA InitFits == Init => TypeOK /\ RequestInv /\ CodeInv /\ TaskInv
<1> SUFFICES ASSUME Init PROVE TypeOK /\ RequestInv /\ CodeInv /\ TaskInv
  OBVIOUS
<1>1. PICK id \in [Apps -> 1..Cardinality(Apps)], u \in Users, a \in Apps :
         /\ \A b, c \in Apps : b # c => id[b] # id[c]
         /\ client = [c \in Clients |->
                        IF c = BuiltIn THEN DefaultClient
                        ELSE IF \E b \in Apps : id[b] = c THEN OauthClient(CHOOSE b \in Apps : id[b] = c)
                        ELSE NoClient]
         /\ app = [b \in Apps |-> Installed(id[b])]
         /\ token = [t \in Tokens |-> IF t = 1 THEN NewToken(u, BuiltIn, "settings") ELSE NoToken]
         /\ code = [k \in Codes |-> IF k = 1 THEN NewCode(u, id[a]) ELSE NoCode]
  BY DEF Init
<1>2. \A b \in Apps : id[b] \in Clients /\ id[b] # BuiltIn
  BY Bounds
<1>3. \A b \in Apps : client[id[b]] = OauthClient(b)
  <2> SUFFICES ASSUME NEW b \in Apps PROVE client[id[b]] = OauthClient(b)
    OBVIOUS
  <2>1. (CHOOSE c \in Apps : id[c] = id[b]) = b
    BY <1>1
  <2> QED
    BY <1>1, <1>2, <2>1
<1>4. \A c \in Clients : client[c].type = "addon-oauth" => \E b \in Apps : c = id[b]
  BY <1>1 DEF DefaultClient, NoClient
<1>5. \A b \in Apps : OauthClients(b) = {id[b]}
  <2> SUFFICES ASSUME NEW b \in Apps PROVE OauthClients(b) = {id[b]}
    OBVIOUS
  <2> DEFINE row(d) == OauthClient(d)
  <2>0. \A d \in Apps : client[id[d]] = row(d) /\ row(d).type = "addon-oauth" /\ row(d).app = d
    BY <1>3 DEF OauthClient
  <2> HIDE DEF row
  <2>1. id[b] \in OauthClients(b)
    BY <1>2, <2>0 DEF OauthClients
  <2>2. ASSUME NEW c \in OauthClients(b) PROVE c = id[b]
    <3>1. PICK d \in Apps : c = id[d]
      BY <1>4 DEF OauthClients
    <3>2. client[c].app = d
      BY <2>0, <3>1
    <3> QED
      BY <3>1, <3>2 DEF OauthClients
  <2> QED
    BY <2>1, <2>2
<1>6. TaskInv
  BY <1>1, <1>5 DEF TaskInv, TaskFits, Installed
<1>7. request = [r \in Requests |-> Idle] /\ requests = 0 /\ events = 0 /\ users = Users
      /\ members \in SUBSET Users /\ developer = TRUE
  BY DEF Init
<1>8. RequestInv /\ \A r \in Requests : \A k : ~Holds(r, k)
  BY <1>7 DEF RequestInv, Fits, Holds, Idle, ApiKinds
<1>9. \A k \in Codes : code[k].spent = 0
  BY <1>1 DEF NewCode, NoCode
<1>10. CodeInv
  BY <1>8, <1>9 DEF CodeInv
<1>11. client \in [Clients -> ClientRow]
  <2>1. \A b \in Apps : OauthClient(b) \in ClientRow
    BY DEF OauthClient, ClientRow, MaybeApp, Scopes
  <2>2. DefaultClient \in ClientRow /\ NoClient \in ClientRow
    BY DEF DefaultClient, NoClient, ClientRow, MaybeApp, Scopes
  <2>3. \A c \in Clients : client[c] \in ClientRow
    <3> SUFFICES ASSUME NEW c \in Clients PROVE client[c] \in ClientRow
      OBVIOUS
    <3>1. CASE \E b \in Apps : c = id[b]
      BY <1>3, <2>1, <3>1
    <3>2. CASE ~\E b \in Apps : c = id[b]
      BY <1>1, <2>2, <3>2
    <3> QED
      BY <3>1, <3>2
  <2>4. client = [c \in Clients |-> client[c]]
    BY <1>1
  <2> QED
    BY <2>3, <2>4
<1>12. token \in [Tokens -> TokenRow]
  <2>1. NewToken(u, BuiltIn, "settings") \in TokenRow /\ NoToken \in TokenRow
    BY Bounds DEF NewToken, NoToken, TokenRow, RowStates, MaybeUser, MaybeClient, Scopes
  <2> QED
    BY <1>1, <2>1
<1>13. code \in [Codes -> CodeRow]
  <2>1. NewCode(u, id[a]) \in CodeRow /\ NoCode \in CodeRow
    BY <1>2 DEF NewCode, NoCode, CodeRow, RowStates, MaybeUser, MaybeClient
  <2> QED
    BY <1>1, <2>1
<1>14. app \in [Apps -> AppRow]
  <2>1. \A b \in Apps : Installed(id[b]) \in AppRow
    BY <1>2, Bounds DEF Installed, AppRow, TaskSteps, MaybeClient
  <2> QED
    BY <1>1, <2>1
<1>15. request \in [Requests -> Request]
  <2>1. Idle \in Request
    BY DEF Idle, Request, Kinds, Steps, MaybeUser, MaybeClient, MaybeApp, Scopes
  <2> QED
    BY <1>7, <2>1
<1>16. TypeOK
  BY <1>7, <1>11, <1>12, <1>13, <1>14, <1>15, Bounds DEF TypeOK
<1> QED
  BY <1>6, <1>8, <1>10, <1>16

LEMMA Inductive == Spec => [](TypeOK /\ RequestInv /\ CodeInv /\ TaskInv)
<1>1. TypeOK /\ RequestInv /\ CodeInv /\ TaskInv /\ [Next]_vars
         => (TypeOK /\ RequestInv /\ CodeInv /\ TaskInv)'
  BY RowsStay, TypesKept, RequestsKept, CodesKept, TasksKept
<1> QED
  BY <1>1, InitFits, PTL DEF Spec

(***************************************************************************)
(* Every row, task and request holds what the code can give it.            *)
(***************************************************************************)
THEOREM TypeCorrect == Spec => []TypeOK
BY Inductive, PTL

(***************************************************************************)
(* A code is exchanged for at most one token, however many requests offer  *)
(* it at once (oauth2.js exchange, authcodedb.js del).                     *)
(***************************************************************************)
THEOREM SpentOnce == Spec => []CodeSpentOnce
<1>1. CodeInv => CodeSpentOnce
  BY DEF CodeInv, CodeSpentOnce
<1> QED
  BY <1>1, Inductive, PTL

(***************************************************************************)
(* An installed app has the credentials of its one client, whenever its    *)
(* task was killed, failed or started over (addons.js setupOauth and       *)
(* teardownOauth, clients.js delByAppIdAndType), and whatever the routes   *)
(* of clients do meanwhile.                                                *)
(***************************************************************************)
THEOREM ClientKnown == Spec => []AppKnowsItsClient
<1>1. TaskInv => AppKnowsItsClient
  BY DEF TaskInv, TaskFits, AppKnowsItsClient
<1> QED
  BY <1>1, Inductive, PTL

(***************************************************************************)
(* Whoever was removed before a request came in gets no further than the   *)
(* query that looks for him (auth.js, ldap.js, user.js).                   *)
(***************************************************************************)
THEOREM RemovedStayOut == Spec => []RemovedUsersStayOut
<1>1. RequestInv => RemovedUsersStayOut
  BY DEF RequestInv, Fits, RemovedUsersStayOut
<1> QED
  BY <1>1, Inductive, PTL

=============================================================================
