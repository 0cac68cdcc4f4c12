---------------------------- MODULE UsersProofs -----------------------------
(***************************************************************************)
(* The safety of Users for any users, groups, names, requests and bound:   *)
(* types and memberships, that a name is the mailbox of whom it names, and *)
(* that no reset token comes back.                                         *)
(*                                                                         *)
(* The invariant adds to them that an id which no row has had yet owns     *)
(* nothing and is in nobody's request, and what a request carries from one *)
(* step to the next.                                                       *)
(***************************************************************************)
EXTENDS Users, TLAPS

RowSet == [state : {"none", "here", "gone"}, name : Usernames,
           password : 0..secrets, token : 0..secrets]
GroupSet == [state : {"none", "here", "gone"}, name : Names \cup {None}]
MailboxSet == [owner : Owners \cup {None}, target : Names \cup {None}]
RequestSet == [kind : Kinds, step : Steps, id : Owners \cup {Admin, None},
               name : Usernames, password : 0..secrets, token : 0..secrets,
               set : (SUBSET (Owners \cup {Admin})) \cup (SUBSET Names)]
Members == {m \in (Groups \cup {Admin}) \X Users : GroupExists(m[1]) /\ Exists(m[2])}

\* o has or had a row.
Known(o) ==
    /\ o \in Users => row[o].state # "none"
    /\ o \in Groups => group[o].state # "none"

\* What a request carries to the step it is at.
OnUser == {"make admin", "lookup", "write", "check", "read", "write token", "write password",
           "get", "del", "groups", "user"}
Carried(step, id, name, set) ==
    /\ Known(id)
    /\ step \in OnUser => id \in Users
    /\ step = "groups" => set \subseteq Groups \cup {Admin}
    /\ step = "members" => id \in Groups \cup {Admin} /\ set \subseteq Users
    /\ step = "del group" => id \in Groups
    /\ step \in {"user", "owner", "aliases"} => set \subseteq Names
    /\ step \in {"add group", "owner", "aliases"} => name \in Names
    /\ step = "aliases" => id \in Owners
Carries(q) == Carried(q.step, q.id, q.name, q.set)

Owned == \A n \in Names : MailboxFree(n) \/ (mailbox[n].owner \in Owners /\ Known(mailbox[n].owner))

Counted == requests \in 0..MaxRequests /\ secrets \in Nat

Requested ==
    /\ request \in [Requests -> RequestSet]
    /\ \A r \in Requests : Carries(request[r])

Rows ==
    /\ row \in [Users -> RowSet]
    /\ group \in [Groups -> GroupSet]
    /\ member \subseteq Members

IInv ==
    /\ Rows
    /\ mailbox \in [Names -> MailboxSet]
    /\ Owned
    /\ NamesHaveMailboxes
    /\ Requested
    /\ Counted

THEOREM InvariantHolds ==
    ASSUME IInv
    PROVE  TypeOK /\ NamesHaveMailboxes
BY DEF IInv, TypeOK, Rows, Requested, Counted, RowSet, GroupSet, MailboxSet, RequestSet, Members

-----------------------------------------------------------------------------
LEMMA InitHolds == Init => IInv
<1> SUFFICES ASSUME Init PROVE IInv
  OBVIOUS
<1>1. secrets = 0 /\ requests = 0 /\ Counted
  BY UsersAssumption DEF Init, Counted
<1>2. Rows
  BY <1>1 DEF Init, Rows, RowSet, GroupSet, Members, NoUser, NoGroup, Usernames
<1>3. mailbox \in [Names -> MailboxSet] /\ Owned
  BY DEF Init, MailboxSet, NoMailbox, Owned, MailboxFree
<1>4. NamesHaveMailboxes
  BY DEF Init, NamesHaveMailboxes, Exists, NoUser, NoGroup
<1>5. Requested
  <2>1. Idle \in RequestSet
    BY <1>1 DEF Idle, RequestSet, Kinds, Steps, Usernames
  <2>2. Carries(Idle)
    BY UsersAssumption DEF Idle, Carries, Carried, Known, OnUser
  <2> QED BY <2>1, <2>2 DEF Init, Requested
<1> QED BY <1>1, <1>2, <1>3, <1>4, <1>5 DEF IInv

(* A step that changes nothing but what a request is at. *)
LEMMA Moves ==
    ASSUME IInv, NEW r \in Requests, NEW q \in RequestSet, Carries(q),
           request' = [request EXCEPT ![r] = q],
           UNCHANGED <<dbVars, secrets>>, requests' \in 0..MaxRequests
    PROVE  IInv'
<1>1. Rows'
  BY DEF IInv, Rows, RowSet, GroupSet, Members, GroupExists, Exists, dbVars
<1>2. mailbox' \in [Names -> MailboxSet'] /\ Owned' /\ NamesHaveMailboxes'
  BY DEF IInv, MailboxSet, Owned, MailboxFree, Known, NamesHaveMailboxes, Exists, MailboxesOf,
     OwnMailbox, dbVars
<1>3. Requested'
  <2>1. request' \in [Requests -> RequestSet']
    BY DEF IInv, Requested, RequestSet
  <2>2. \A s \in Requests : Carries(request'[s])
    BY DEF IInv, Requested
  <2>4. \A s \in Requests : Carries(request[s])'
    <3> TAKE s \in Requests
    <3>1. Carries(request'[s])
      BY <2>2
    <3> QED BY <3>1 DEF Carries, Carried, Known, dbVars
  <2> QED BY <2>1, <2>4 DEF Requested
<1>4. Counted'
  BY DEF IInv, Counted
<1> QED BY <1>1, <1>2, <1>3, <1>4 DEF IInv

(* A request that is answered. *)
LEMMA IdleIsRequest ==
    ASSUME IInv
    PROVE  Idle \in RequestSet /\ Carries(Idle)
BY UsersAssumption DEF IInv, Counted, Idle, RequestSet, Kinds, Steps, Usernames, Carries, Carried, Known, OnUser

LEMMA Replies ==
    ASSUME IInv, NEW r \in Requests, Finish(r), UNCHANGED <<dbVars, requests, secrets>>
    PROVE  IInv'
BY Moves, IdleIsRequest DEF Finish, IInv, Counted

-----------------------------------------------------------------------------
(* A request that is let in. *)
LEMMA Asks ==
    ASSUME IInv, NEW r \in Requests, NEW kind \in Kinds, NEW step \in Steps,
           NEW id \in Owners \cup {Admin, None}, NEW name \in Usernames, NEW token \in 0..secrets,
           NEW set \in (SUBSET (Owners \cup {Admin})) \cup (SUBSET Names),
           Ask(r, kind, step, id, name, token, set), Carried(step, id, name, set)
    PROVE  IInv'
<1> DEFINE q == [kind |-> kind, step |-> step, id |-> id, name |-> name,
                 password |-> 0, token |-> token, set |-> set]
<1>1. 0 \in 0..secrets
  BY DEF IInv, Counted
<1>2. q \in RequestSet /\ Carries(q)
  BY <1>1 DEF RequestSet, Carries
<1>3. requests' \in 0..MaxRequests
  BY UsersAssumption DEF Ask, IInv, Counted
<1> QED BY <1>2, <1>3, Moves DEF Ask

LEMMA AskedKeeps ==
    ASSUME IInv, NEW r \in Requests, Asked(r)
    PROVE  IInv'
<1>a. 0 \in 0..secrets /\ {} \in (SUBSET (Owners \cup {Admin})) \cup (SUBSET Names)
      /\ Known(None) /\ None \in Usernames /\ None \in Owners \cup {Admin, None}
  BY UsersAssumption DEF IInv, Counted, Known, Usernames
<1>1. CASE \E n \in Names : Activate(r, n)
  <2> PICK n \in Names : Activate(r, n)
    BY <1>1
  <2>1. Ask(r, "activate", "count", None, n, 0, {})
    BY DEF Activate
  <2>2. Carried("count", None, n, {})
    BY <1>a DEF Carried, OnUser
  <2>3. "activate" \in Kinds /\ "count" \in Steps /\ n \in Usernames
    BY DEF Kinds, Steps, Usernames, Activate
  <2> QED BY <2>1, <2>2, <2>3, <1>a, Asks
<1>2. CASE \E n \in Names : AskGroup(r, n)
  <2> PICK n \in Names : AskGroup(r, n)
    BY <1>2
  <2>1. Ask(r, "group", "add group", None, n, 0, {})
    BY DEF AskGroup
  <2>2. Carried("add group", None, n, {})
    BY <1>a DEF Carried, OnUser
  <2>3. "group" \in Kinds /\ "add group" \in Steps /\ n \in Usernames
    BY DEF Kinds, Steps, Usernames, AskGroup
  <2> QED BY <2>1, <2>2, <2>3, <1>a, Asks
<1>3. CASE \E n \in Usernames : AskCreate(r, n)
  <2> PICK n \in Usernames : AskCreate(r, n)
    BY <1>3
  <2>1. Ask(r, "create", "add", None, n, 0, {})
    BY DEF AskCreate
  <2>2. Carried("add", None, n, {})
    BY <1>a DEF Carried, OnUser
  <2>3. "create" \in Kinds /\ "add" \in Steps /\ n \in Usernames
    BY DEF Kinds, Steps, Usernames, AskCreate
  <2> QED BY <2>1, <2>2, <2>3, <1>a, Asks
<1>4. CASE \E u \in Users : AskRemove(r, u)
  <2> PICK u \in Users : AskRemove(r, u)
    BY <1>4
  <2>1. Ask(r, "remove", "get", u, None, 0, {})
    BY DEF AskRemove
  <2>2. Known(u)
    BY UsersAssumption DEF AskRemove, Known
  <2>3. Carried("get", u, None, {})
    BY <2>2, UsersAssumption DEF Carried, OnUser
  <2>4. "remove" \in Kinds /\ "get" \in Steps /\ u \in Owners \cup {Admin, None}
    BY DEF Kinds, Steps, Owners
  <2> QED BY <2>1, <2>3, <2>4, <1>a, Asks
<1>5. CASE \E u \in Users : AskToken(r, u)
  <2> PICK u \in Users : AskToken(r, u)
    BY <1>5
  <2>1. Ask(r, "refresh", "read", u, None, 0, {})
    BY DEF AskToken
  <2>2. Known(u)
    BY UsersAssumption DEF AskToken, Known
  <2>3. Carried("read", u, None, {})
    BY <2>2, UsersAssumption DEF Carried, OnUser
  <2>4. "refresh" \in Kinds /\ "read" \in Steps /\ u \in Owners \cup {Admin, None}
    BY DEF Kinds, Steps, Owners
  <2> QED BY <2>1, <2>3, <2>4, <1>a, Asks
<1>6. CASE \E u \in Users : ChangePassword(r, u)
  <2> PICK u \in Users : ChangePassword(r, u)
    BY <1>6
  <2>1. Ask(r, "change", "read", u, None, 0, {})
    BY DEF ChangePassword
  <2>2. Known(u)
    BY UsersAssumption DEF ChangePassword, Known, Exists
  <2>3. Carried("read", u, None, {})
    BY <2>2, UsersAssumption DEF Carried, OnUser
  <2>4. "change" \in Kinds /\ "read" \in Steps /\ u \in Owners \cup {Admin, None}
    BY DEF Kinds, Steps, Owners
  <2> QED BY <2>1, <2>3, <2>4, <1>a, Asks
<1>7. CASE \E u \in Users, n \in Usernames : AskUpdate(r, u, n)
  <2> PICK u \in Users, n \in Usernames : AskUpdate(r, u, n)
    BY <1>7
  <2>1. Ask(r, "update", "lookup", u, n, 0, {})
    BY DEF AskUpdate
  <2>2. Known(u)
    BY UsersAssumption DEF AskUpdate, Known
  <2>3. Carried("lookup", u, n, {})
    BY <2>2, UsersAssumption DEF Carried, OnUser
  <2>4. /\ "update" \in Kinds /\ "lookup" \in Steps
        /\ u \in Owners \cup {Admin, None} /\ n \in Usernames
    BY DEF Kinds, Steps, Usernames, Owners, AskUpdate
  <2> QED BY <2>1, <2>3, <2>4, <1>a, Asks
<1>8. CASE \E u \in Users, A \in SUBSET Names : AskAliases(r, u, A)
  <2> PICK u \in Users, A \in SUBSET Names : AskAliases(r, u, A)
    BY <1>8
  <2>1. Ask(r, "aliases", "user", u, None, 0, A)
    BY DEF AskAliases
  <2>2. Known(u)
    BY UsersAssumption DEF AskAliases, Known
  <2>3. Carried("user", u, None, A)
    BY <2>2, UsersAssumption DEF Carried, OnUser
  <2>4. /\ "aliases" \in Kinds /\ "user" \in Steps
        /\ u \in Owners \cup {Admin, None} /\ A \in (SUBSET (Owners \cup {Admin})) \cup (SUBSET Names)
    BY DEF Kinds, Steps, Owners
  <2> QED BY <2>1, <2>3, <2>4, <1>a, Asks
<1>9. CASE \E u \in Users, S \in SUBSET (Groups \cup {Admin}) : AskGroups(r, u, S)
  <2> PICK u \in Users, S \in SUBSET (Groups \cup {Admin}) : AskGroups(r, u, S)
    BY <1>9
  <2>1. Ask(r, "groups", "groups", u, None, 0, S)
    BY DEF AskGroups
  <2>2. Known(u)
    BY UsersAssumption DEF AskGroups, Known
  <2>3. Carried("groups", u, None, S)
    BY <2>2, UsersAssumption DEF Carried, OnUser
  <2>4. /\ "groups" \in Kinds /\ "groups" \in Steps
        /\ u \in Owners \cup {Admin, None} /\ S \in (SUBSET (Owners \cup {Admin})) \cup (SUBSET Names)
    BY DEF Kinds, Steps, Owners
  <2> QED BY <2>1, <2>3, <2>4, <1>a, Asks
<1>10. CASE \E g \in Groups \cup {Admin}, U \in SUBSET Users : AskMembers(r, g, U)
  <2> PICK g \in Groups \cup {Admin}, U \in SUBSET Users : AskMembers(r, g, U)
    BY <1>10
  <2>1. Ask(r, "members", "members", g, None, 0, U)
    BY DEF AskMembers
  <2>2. Known(g)
    BY UsersAssumption DEF AskMembers, Known
  <2>3. Carried("members", g, None, U)
    BY <2>2, UsersAssumption DEF Carried, OnUser
  <2>4. /\ "members" \in Kinds /\ "members" \in Steps
        /\ g \in Owners \cup {Admin, None} /\ U \in (SUBSET (Owners \cup {Admin})) \cup (SUBSET Names)
    BY DEF Kinds, Steps, Owners
  <2> QED BY <2>1, <2>3, <2>4, <1>a, Asks
<1>11. CASE \E g \in Groups : AskDelGroup(r, g)
  <2> PICK g \in Groups : AskDelGroup(r, g)
    BY <1>11
  <2>1. Ask(r, "remove group", "del group", g, None, 0, {})
    BY DEF AskDelGroup
  <2>2. Known(g)
    BY UsersAssumption DEF AskDelGroup, Known
  <2>3. Carried("del group", g, None, {})
    BY <2>2, UsersAssumption DEF Carried, OnUser
  <2>4. "remove group" \in Kinds /\ "del group" \in Steps /\ g \in Owners \cup {Admin, None}
    BY DEF Kinds, Steps, Owners
  <2> QED BY <2>1, <2>3, <2>4, <1>a, Asks
<1>12. CASE \E t \in 1..secrets : AskReset(r, t)
  <2> PICK t \in 1..secrets : AskReset(r, t)
    BY <1>12
  <2>1. Ask(r, "reset", "find", None, None, t, {})
    BY DEF AskReset
  <2>2. Carried("find", None, None, {})
    BY <1>a DEF Carried, OnUser
  <2>3. "reset" \in Kinds /\ "find" \in Steps /\ t \in 0..secrets
    BY DEF Kinds, Steps, IInv, Counted
  <2> QED BY <2>1, <2>2, <2>3, <1>a, Asks
<1>13. CASE \E t \in 1..secrets, n \in Names \cup {Blank} : AskSetup(r, t, n)
  <2> PICK t \in 1..secrets, n \in Names \cup {Blank} : AskSetup(r, t, n)
    BY <1>13
  <2>1. Ask(r, "setup", "find", None, n, t, {})
    BY DEF AskSetup
  <2>2. Carried("find", None, n, {})
    BY <1>a DEF Carried, OnUser
  <2>3. "setup" \in Kinds /\ "find" \in Steps /\ n \in Usernames /\ t \in 0..secrets
    BY DEF Kinds, Steps, Usernames, IInv, Counted, AskSetup
  <2> QED BY <2>1, <2>2, <2>3, <1>a, Asks
<1> QED BY <1>1, <1>2, <1>3, <1>4, <1>5, <1>6, <1>7, <1>8, <1>9, <1>10, <1>11, <1>12, <1>13 DEF Asked

-----------------------------------------------------------------------------
(* A request that goes on to another step with what it has. *)
LEMMA Goes ==
    ASSUME IInv, NEW r \in Requests, NEW step \in Steps, Go(r, step),
           Carried(step, request[r].id, request[r].name, request[r].set),
           UNCHANGED <<dbVars, requests, secrets>>
    PROVE  IInv'
<1> DEFINE q == [request[r] EXCEPT !.step = step]
<1>1. request[r] \in RequestSet
  BY DEF IInv, Requested
<1>2. q \in RequestSet /\ Carries(q)
  BY <1>1 DEF RequestSet, Carries
<1>3. request' = [request EXCEPT ![r] = q]
  BY DEF Go, IInv, Requested
<1> QED BY <1>2, <1>3, Moves DEF IInv, Counted

(* What the request at a step has. *)
LEMMA HasCarried ==
    ASSUME IInv, NEW r \in Requests
    PROVE  /\ request[r] \in RequestSet
           /\ Carried(request[r].step, request[r].id, request[r].name, request[r].set)
BY DEF IInv, Requested, Carries

(* The steps that only read. *)
LEMMA ReadsKeep ==
    ASSUME IInv, NEW r \in Requests,
           \/ Count(r) \/ RefuseAdd(r) \/ Lookup(r) \/ RefuseUpdate(r) \/ FindByToken(r)
           \/ CheckName(r) \/ ReadUser(r) \/ RefuseWrite(r) \/ GetToRemove(r)
           \/ RefuseGroup(r) \/ ReadName(r) \/ ReadOwner(r)
    PROVE  IInv'
<1> DEFINE q == request[r]
<1>a. q \in RequestSet /\ Carried(q.step, q.id, q.name, q.set)
  BY HasCarried
<1>b. ASSUME Finish(r), UNCHANGED <<dbVars, requests, secrets>>
      PROVE  IInv'
  BY <1>b, Replies
<1>1. CASE Count(r)
  <2>1. CASE Go(r, "add")
    <3>1. Carried("add", q.id, q.name, q.set)
      BY <1>1, <1>a DEF Count, At, Carried, OnUser
    <3> QED BY <1>1, <2>1, <3>1, Goes DEF Count, Steps
  <2> QED BY <1>1, <1>b, <2>1 DEF Count
<1>2. CASE RefuseAdd(r) \/ RefuseUpdate(r) \/ RefuseWrite(r) \/ RefuseGroup(r)
  BY <1>2, <1>b DEF RefuseAdd, RefuseUpdate, RefuseWrite, RefuseGroup, Reply
<1>3. CASE Lookup(r)
  <2>1. CASE Go(r, "write")
    <3>1. Carried("write", q.id, q.name, q.set)
      BY <1>3, <1>a DEF Lookup, At, Carried, OnUser
    <3> QED BY <1>3, <2>1, <3>1, Goes DEF Lookup, Steps
  <2> QED BY <1>3, <1>b, <2>1 DEF Lookup
<1>4. CASE FindByToken(r)
  <2>1. ASSUME NEW u \in Users, Exists(u),
               request' = [request EXCEPT ![r].id = u,
                             ![r].step = IF q.kind = "setup" THEN "lookup" ELSE "check"]
        PROVE  IInv'
    <3> DEFINE p == [q EXCEPT !.id = u, !.step = IF q.kind = "setup" THEN "lookup" ELSE "check"]
    <3>1. request' = [request EXCEPT ![r] = p]
      BY <2>1 DEF IInv, Requested
    <3>2. p \in RequestSet
      BY <1>a DEF RequestSet, Steps, Owners
    <3>3. Known(u)
      BY <2>1, UsersAssumption DEF Known, Exists
    <3>4. Carries(p)
      BY <1>a, <3>3 DEF Carries, Carried, OnUser, RequestSet
    <3> QED BY <1>4, <3>1, <3>2, <3>4, Moves DEF FindByToken, IInv, Counted
  <2> QED BY <1>4, <1>b, <2>1 DEF FindByToken
<1>5. CASE CheckName(r)
  <2>1. CASE Go(r, "read")
    <3>1. Carried("read", q.id, q.name, q.set)
      BY <1>5, <1>a DEF CheckName, At, Carried, OnUser
    <3> QED BY <1>5, <2>1, <3>1, Goes DEF CheckName, Steps
  <2> QED BY <1>5, <1>b, <2>1 DEF CheckName
<1>6. CASE ReadUser(r)
  <2> DEFINE u == q.id
             p == [q EXCEPT !.step = IF q.kind = "refresh" THEN "write token" ELSE "write password",
                            !.name = row[u].name, !.password = row[u].password,
                            !.token = row[u].token]
  <2>1. u \in Users
    BY <1>6, <1>a DEF ReadUser, At, Carried, OnUser
  <2>2. row[u] \in RowSet
    BY <2>1 DEF IInv, Rows
  <2>3. p \in RequestSet
    BY <1>a, <2>2 DEF RequestSet, RowSet, Steps
  <2>4. Carries(p)
    BY <1>a, <2>1 DEF Carries, Carried, OnUser, RequestSet
  <2>5. CASE request' = [request EXCEPT ![r] = p]
    BY <1>6, <2>3, <2>4, <2>5, Moves DEF ReadUser, IInv, Counted
  <2>6. request' = [request EXCEPT ![r] = p] \/ Finish(r)
    BY <1>6 DEF ReadUser, IInv, Requested
  <2> QED BY <1>6, <1>b, <2>5, <2>6 DEF ReadUser
<1>7. CASE GetToRemove(r)
  <2>1. CASE Go(r, "del")
    <3>1. Carried("del", q.id, q.name, q.set)
      BY <1>7, <1>a DEF GetToRemove, At, Carried, OnUser
    <3> QED BY <1>7, <2>1, <3>1, Goes DEF GetToRemove, Steps
  <2> QED BY <1>7, <1>b, <2>1 DEF GetToRemove
<1>8. CASE ReadName(r)
  <2>1. CASE Finish(r)
    BY <1>8, <2>1, <1>b DEF ReadName
  <2>2. CASE Go(r, "no answer")
    <3>1. Carried("no answer", q.id, q.name, q.set)
      BY <1>a DEF Carried, OnUser
    <3> QED BY <1>8, <2>2, <3>1, Goes DEF ReadName, Steps
  <2>3. CASE /\ row[q.id].name \in Names
             /\ request' = [request EXCEPT ![r].step = "owner", ![r].name = row[q.id].name]
    <3> DEFINE p == [q EXCEPT !.step = "owner", !.name = row[q.id].name]
    <3>1. request' = [request EXCEPT ![r] = p]
      BY <2>3 DEF IInv, Requested
    <3>2. p \in RequestSet
      BY <1>a, <2>3 DEF RequestSet, Steps, Usernames
    <3>3. Carries(p)
      BY <1>a, <1>8, <2>3 DEF Carries, Carried, OnUser, RequestSet, ReadName, At
    <3> QED BY <1>8, <3>1, <3>2, <3>3, Moves DEF ReadName, IInv, Counted
  <2> QED BY <1>8, <2>1, <2>2, <2>3 DEF ReadName
<1>9. CASE ReadOwner(r)
  <2> DEFINE n == q.name
             p == [q EXCEPT !.step = "aliases", !.id = mailbox[n].owner]
  <2>1. CASE Finish(r)
    BY <1>9, <2>1, <1>b DEF ReadOwner
  <2>2. CASE ~MailboxFree(n) /\ request' = [request EXCEPT ![r].step = "aliases", ![r].id = mailbox[n].owner]
    <3>1. request' = [request EXCEPT ![r] = p]
      BY <2>2 DEF IInv, Requested
    <3>2. n \in Names
      BY <1>9, <1>a DEF ReadOwner, At, Carried
    <3>3. mailbox[n].owner \in Owners /\ Known(mailbox[n].owner)
      BY <2>2, <3>2 DEF IInv, Owned
    <3>4. p \in RequestSet
      BY <1>a, <3>3 DEF RequestSet, Steps
    <3>5. Carries(p)
      BY <1>a, <1>9, <3>2, <3>3 DEF Carries, Carried, OnUser, RequestSet, ReadOwner, At
    <3> QED BY <1>9, <3>1, <3>4, <3>5, Moves DEF ReadOwner, IInv, Counted
  <2> QED BY <1>9, <2>1, <2>2 DEF ReadOwner
<1> QED BY <1>1, <1>2, <1>3, <1>4, <1>5, <1>6, <1>7, <1>8, <1>9

-----------------------------------------------------------------------------
(* The requests after a step that makes no id fresh again. *)
LEMMA RequestedAfter ==
    ASSUME IInv, NEW r \in Requests, NEW q \in RequestSet', Carries(q)',
           request' = [request EXCEPT ![r] = q],
           \A u \in Users : row[u].state # "none" => row'[u].state # "none",
           \A g \in Groups : group[g].state # "none" => group'[g].state # "none",
           secrets' \in {secrets, secrets + 1}, requests' = requests
    PROVE  Requested' /\ Counted'
<1>1. secrets \in Nat /\ secrets' \in Nat /\ 0..secrets \subseteq 0..secrets'
  BY DEF IInv, Counted
<1>2. \A p \in RequestSet : p \in RequestSet'
  BY <1>1 DEF RequestSet
<1>3. request' \in [Requests -> RequestSet']
  BY <1>2 DEF IInv, Requested
<1>4. ASSUME NEW s \in Requests PROVE Carries(request[s])'
  <2>1. CASE s = r
    <3>1. request'[s] = q
      BY <2>1 DEF IInv, Requested
    <3> QED BY <3>1 DEF Carries, Carried, Known
  <2>2. CASE s # r
    <3>1. Carries(request[s]) /\ request'[s] = request[s]
      BY <2>2 DEF IInv, Requested
    <3> QED BY <3>1 DEF Carries, Carried, Known
  <2> QED BY <2>1, <2>2
<1> QED BY <1>1, <1>3, <1>4 DEF Requested, Counted, IInv

LEMMA FinishesAfter ==
    ASSUME IInv, NEW r \in Requests, Finish(r),
           \A u \in Users : row[u].state # "none" => row'[u].state # "none",
           \A g \in Groups : group[g].state # "none" => group'[g].state # "none",
           secrets' \in {secrets, secrets + 1}, requests' = requests
    PROVE  Requested' /\ Counted'
<1>1. 0 \in 0..secrets'
  BY DEF IInv, Counted
<1>2. Idle \in RequestSet' /\ Carries(Idle)'
  BY <1>1, UsersAssumption DEF Idle, RequestSet, Kinds, Steps, Usernames, Carries, Carried, Known, OnUser
<1> QED BY <1>2, RequestedAfter DEF Finish

(* A new user owned nothing, and takes a name that nobody has. *)
LEMMA AddKeeps ==
    ASSUME IInv, NEW r \in Requests, NEW u \in Users, Add(r, u)
    PROVE  IInv'
<1> DEFINE n == request[r].name
           new == [state |-> "here", name |-> n, password |-> secrets + 1, token |-> secrets + 1]
<1>1. /\ row[u].state = "none" /\ UsernameFree(u, n) /\ (n \in Names => MailboxFree(n))
      /\ row' = [row EXCEPT ![u] = new]
      /\ mailbox' = IF n \in Names THEN [mailbox EXCEPT ![n] = [owner |-> u, target |-> None]]
                                    ELSE mailbox
      /\ secrets' = secrets + 1 /\ UNCHANGED <<group, member, requests>>
  BY DEF Add
<1>2. n \in Usernames
  BY HasCarried DEF RequestSet
<1>3. secrets \in Nat /\ secrets + 1 \in 0..(secrets + 1) /\ 0..secrets \subseteq 0..(secrets + 1)
  BY DEF IInv, Counted
<1>4. Rows'
  <2>1. new \in RowSet' /\ \A w \in RowSet : w \in RowSet'
    BY <1>1, <1>2, <1>3 DEF RowSet
  <2>2. row' \in [Users -> RowSet']
    BY <1>1, <2>1 DEF IInv, Rows
  <2>3. \A v \in Users : Exists(v) => Exists(v)'
    BY <1>1 DEF Exists, IInv, Rows
  <2>4. Members \subseteq Members'
    BY <1>1, <2>3 DEF Members, GroupExists
  <2> QED BY <1>1, <2>2, <2>4 DEF Rows, IInv, GroupSet
<1>5. /\ \A v \in Users : row[v].state # "none" => row'[v].state # "none"
      /\ \A g \in Groups : group[g].state # "none" => group'[g].state # "none"
      /\ Known(u)'
  BY <1>1, UsersAssumption DEF IInv, Rows, Known
<1>6. mailbox' \in [Names -> MailboxSet']
  BY <1>1 DEF IInv, MailboxSet, Owners
<1>7. Owned'
  BY <1>1, <1>5 DEF IInv, Owned, MailboxFree, Known, Owners
<1>8. NamesHaveMailboxes'
  <2>1. \A m \in Names : ~OwnMailbox(u, m)
    BY <1>1, UsersAssumption DEF IInv, Owned, MailboxFree, NoMailbox, OwnMailbox, Known
  <2>2. \A o \in Owners \ {u}, m \in Names : OwnMailbox(o, m)' <=> OwnMailbox(o, m)
    BY <1>1, UsersAssumption DEF IInv, MailboxFree, NoMailbox, OwnMailbox, Owners
  <2>3. \A m \in Names : OwnMailbox(u, m)' <=> m = n
    BY <1>1, <2>1 DEF IInv, OwnMailbox
  <2>4. MailboxesOf(u)' = IF n \in Names THEN {n} ELSE {}
    BY <2>3 DEF MailboxesOf
  <2>5. \A o \in Owners \ {u} : MailboxesOf(o)' = MailboxesOf(o)
    BY <2>2 DEF MailboxesOf
  <2> QED BY <1>1, <2>4, <2>5, UsersAssumption DEF IInv, Rows, NamesHaveMailboxes, Exists, Owners
<1>9. Requested' /\ Counted'
  <2>1. CASE Finish(r)
    BY <1>1, <1>5, <2>1, FinishesAfter
  <2>2. CASE request' = [request EXCEPT ![r].step = "make admin", ![r].id = u]
    <3>q. PICK q : q = [request[r] EXCEPT !.step = "make admin", !.id = u]
      OBVIOUS
    <3>1. request[r] \in RequestSet
      BY HasCarried
    <3>2. q \in RequestSet'
      BY <1>1, <1>3, <3>q, <3>1 DEF RequestSet, Steps, Owners
    <3>3. Carries(q)'
      BY <1>5, <3>q, <3>1 DEF RequestSet, Carries, Carried, OnUser
    <3>4. request' = [request EXCEPT ![r] = q]
      BY <2>2, <3>q DEF IInv, Requested
    <3> QED BY <1>1, <1>5, <3>2, <3>3, <3>4, RequestedAfter
  <2> QED BY <2>1, <2>2 DEF Add
<1> QED BY <1>4, <1>6, <1>7, <1>8, <1>9 DEF IInv

(* Rows that change, but of no user's state: who is known, and a member, stays. *)
LEMMA RowsWritten ==
    ASSUME IInv, NEW u \in Users,
           \/ row' = row
           \/ row' \in [Users -> RowSet'] /\ \A v \in Users : row'[v].state = row[v].state,
           UNCHANGED <<group, member>>, secrets' \in {secrets, secrets + 1}
    PROVE  /\ Rows'
           /\ \A v \in Users : row[v].state # "none" => row'[v].state # "none"
           /\ \A g \in Groups : group[g].state # "none" => group'[g].state # "none"
<1>1. 0..secrets \subseteq 0..secrets'
  BY DEF IInv, Counted
<1>2. row' \in [Users -> RowSet']
  <2>1. \A w \in RowSet : w \in RowSet'
    BY <1>1 DEF RowSet
  <2> QED BY <2>1 DEF IInv, Rows
<1>3. \A v \in Users : row'[v].state = row[v].state
  OBVIOUS
<1>4. Members \subseteq Members'
  BY <1>3 DEF Members, GroupExists, Exists
<1> QED BY <1>2, <1>3, <1>4 DEF IInv, Rows, GroupSet

(* userdb.update: the mailbox follows the name, and the others stay. *)
LEMMA WritesMailboxes ==
    ASSUME IInv, NEW u \in Users, NEW n \in Usernames, Known(u), CanWrite(u, n),
           mailbox' = MailboxesAfter(u, n), group' = group,
           \A v \in Users : row'[v].state = row[v].state,
           \A v \in Users \ {u} : row'[v] = row[v],
           Exists(u) => row'[u].name = n
    PROVE  mailbox' \in [Names -> MailboxSet'] /\ Owned' /\ NamesHaveMailboxes'
<1>1. mailbox' \in [Names -> MailboxSet']
  BY DEF IInv, MailboxesAfter, MailboxSet, Owners, NoMailbox
<1>2. Owned'
  <2>1. \A o : Known(o) => (o \in Owners => /\ o \in Users => row'[o].state # "none"
                                            /\ o \in Groups => group'[o].state # "none")
    BY DEF Known
  <2> SUFFICES ASSUME NEW m \in Names
               PROVE  \/ mailbox'[m] = NoMailbox
                      \/ mailbox'[m].owner \in Owners /\ Known(mailbox[m].owner)'
    BY DEF Owned, MailboxFree
  <2>2. CASE mailbox'[m] = mailbox[m]
    BY <2>1, <2>2 DEF IInv, Owned, MailboxFree, Known
  <2>3. CASE mailbox'[m] = [owner |-> u, target |-> None]
    BY <2>3 DEF Known, Owners
  <2> QED BY <2>2, <2>3 DEF MailboxesAfter, IInv
<1>3. \A o \in Owners \ {u}, m \in Names : OwnMailbox(o, m)' <=> OwnMailbox(o, m)
  <2> TAKE o \in Owners \ {u}, m \in Names
  <2>1. o # None
    BY UsersAssumption DEF Owners
  <2>2. CASE n \in Names /\ m = n
    <3>1. mailbox'[m] = [owner |-> u, target |-> None]
      BY <2>2 DEF MailboxesAfter
    <3>2. mailbox[m] = NoMailbox \/ mailbox[m] = [owner |-> u, target |-> None]
      BY <2>2 DEF CanWrite, MailboxFree, OwnMailbox
    <3> QED BY <2>1, <3>1, <3>2 DEF OwnMailbox, NoMailbox
  <2>3. CASE n \in Names /\ m # n
    <3>1. mailbox'[m] = IF OwnMailbox(u, m) THEN NoMailbox ELSE mailbox[m]
      BY <2>3 DEF MailboxesAfter
    <3> QED BY <2>1, <3>1 DEF OwnMailbox, NoMailbox
  <2>4. CASE n \notin Names
    BY <2>4 DEF MailboxesAfter, OwnMailbox
  <2> QED BY <2>2, <2>3, <2>4
<1>4. n \in Names => \A m \in Names : OwnMailbox(u, m)' <=> m = n
  BY UsersAssumption DEF IInv, MailboxesAfter, OwnMailbox, NoMailbox
<1>5. \A o \in Owners \ {u} : MailboxesOf(o)' = MailboxesOf(o)
  BY <1>3 DEF MailboxesOf
<1>6. n \in Names => MailboxesOf(u)' = {n}
  BY <1>4 DEF MailboxesOf
<1>7. NamesHaveMailboxes'
  <2>1. ASSUME NEW v \in Users, Exists(v)', row'[v].name \in Names
        PROVE  MailboxesOf(v)' = {row'[v].name}
    <3>1. Exists(v)
      BY <2>1 DEF Exists
    <3>2. CASE v = u
      BY <1>6, <2>1, <3>1, <3>2
    <3>3. CASE v # u
      BY <1>5, <2>1, <3>1, <3>3 DEF IInv, NamesHaveMailboxes, Owners
    <3> QED BY <3>2, <3>3
  <2>2. ASSUME NEW g \in Groups, group'[g].state = "here"
        PROVE  MailboxesOf(g)' = {group'[g].name}
    BY <1>5, <2>2, UsersAssumption DEF IInv, NamesHaveMailboxes, Owners
  <2> QED BY <2>1, <2>2 DEF NamesHaveMailboxes
<1> QED BY <1>1, <1>2, <1>7

LEMMA WritesKeep ==
    ASSUME IInv, NEW r \in Requests, UpdateUser(r) \/ WriteToken(r) \/ WritePassword(r)
    PROVE  IInv'
<1> DEFINE u == request[r].id
           n == request[r].name
<1>1. /\ CanWrite(u, n) /\ mailbox' = MailboxesAfter(u, n)
      /\ UNCHANGED <<group, member, requests>> /\ secrets' \in {secrets, secrets + 1}
  BY DEF UpdateUser, WriteToken, WritePassword, WriteBack
<1>2. u \in Users /\ n \in Usernames /\ Known(u) /\ request[r] \in RequestSet
  BY HasCarried DEF RequestSet, Carried, OnUser, UpdateUser, WriteToken, WritePassword, At
<1>3. 0..secrets \subseteq 0..secrets' /\ 0 \in 0..secrets' /\ secrets + 1 \in 0..(secrets + 1)
  BY <1>1 DEF IInv, Counted
<1>4. /\ \/ row' = row
         \/ row' \in [Users -> RowSet'] /\ \A v \in Users : row'[v].state = row[v].state
      /\ \A v \in Users : row'[v].state = row[v].state
      /\ \A v \in Users \ {u} : row'[v] = row[v]
      /\ Exists(u) => row'[u].name = n
  <2>1. CASE ~Exists(u)
    <3>1. row' = row
      BY <2>1 DEF UpdateUser, WriteToken, WritePassword, WriteBack
    <3> QED BY <2>1, <3>1
  <2>2. CASE Exists(u) /\ UpdateUser(r)
    <3>1. row' = [row EXCEPT ![u].name = n] /\ secrets' = secrets
      BY <2>2 DEF UpdateUser
    <3>2. row' \in [Users -> RowSet']
      BY <1>2, <3>1 DEF IInv, Rows, RowSet
    <3> QED BY <1>2, <3>1, <3>2 DEF IInv, Rows, RowSet
  <2>3. CASE Exists(u) /\ ~UpdateUser(r)
    <3>1. PICK pw \in 0..secrets', t \in 0..secrets' :
             row' = [row EXCEPT ![u] = [state |-> "here", name |-> n, password |-> pw, token |-> t]]
      BY <1>2, <1>3, <2>3 DEF WriteToken, WritePassword, WriteBack, RequestSet
    <3>2. row' \in [Users -> RowSet']
      <4>1. [state |-> "here", name |-> n, password |-> pw, token |-> t] \in RowSet'
        BY <1>2 DEF RowSet
      <4>2. \A w \in RowSet : w \in RowSet'
        BY <1>3 DEF RowSet
      <4> QED BY <3>1, <4>1, <4>2 DEF IInv, Rows
    <3>3. /\ \A v \in Users \ {u} : row'[v] = row[v]
          /\ row'[u].state = "here" /\ row'[u].name = n
      BY <1>2, <3>1 DEF IInv, Rows
    <3> QED BY <2>3, <3>2, <3>3 DEF Exists
  <2> QED BY <2>1, <2>2, <2>3
<1>5. /\ Rows'
      /\ \A v \in Users : row[v].state # "none" => row'[v].state # "none"
      /\ \A g \in Groups : group[g].state # "none" => group'[g].state # "none"
  BY <1>1, <1>2, <1>4, RowsWritten
<1>6. mailbox' \in [Names -> MailboxSet'] /\ Owned' /\ NamesHaveMailboxes'
  BY <1>1, <1>2, <1>4, WritesMailboxes
<1>7. Requested' /\ Counted'
  <2>1. CASE Finish(r)
    BY <1>1, <1>5, <2>1, FinishesAfter
  <2>2. CASE Go(r, "read")
    <3>q. PICK q : q = [request[r] EXCEPT !.step = "read"]
      OBVIOUS
    <3>1. q \in RequestSet'
      BY <1>2, <1>3, <3>q DEF RequestSet, Steps
    <3>2. Carries(q)'
      BY <1>2, <1>5, <3>q DEF RequestSet, Carries, Carried, Known, OnUser
    <3>3. request' = [request EXCEPT ![r] = q]
      BY <2>2, <3>q DEF Go, IInv, Requested
    <3> QED BY <1>1, <1>5, <3>1, <3>2, <3>3, RequestedAfter
  <2> QED BY <2>1, <2>2 DEF UpdateUser, WriteToken, WritePassword, WriteBack
<1> QED BY <1>5, <1>6, <1>7 DEF IInv

(* A row that goes takes its members and all its mailboxes with it. *)
LEMMA RemovesMailboxes ==
    ASSUME IInv, NEW o \in Owners, mailbox' = MailboxesWithout(o),
           \A u \in Users \ {o} : row'[u] = row[u],
           \A g \in Groups \ {o} : group'[g] = group[g],
           o \in Users => row'[o].state = "gone",
           o \in Groups => group'[o].state = "gone"
    PROVE  mailbox' \in [Names -> MailboxSet'] /\ Owned' /\ NamesHaveMailboxes'
<1>1. mailbox' \in [Names -> MailboxSet']
  BY DEF IInv, MailboxesWithout, MailboxSet, NoMailbox
<1>2. Owned'
  BY DEF IInv, MailboxesWithout, Owned, MailboxFree, NoMailbox, Known
<1>3. \A p \in Owners \ {o}, m \in Names : OwnMailbox(p, m)' <=> OwnMailbox(p, m)
  BY UsersAssumption DEF IInv, MailboxesWithout, OwnMailbox, NoMailbox, Owners
<1>4. \A p \in Owners \ {o} : MailboxesOf(p)' = MailboxesOf(p)
  BY <1>3 DEF MailboxesOf
<1>5. NamesHaveMailboxes'
  BY <1>4 DEF IInv, NamesHaveMailboxes, Exists, Owners
<1> QED BY <1>1, <1>2, <1>5

LEMMA DelKeeps ==
    ASSUME IInv, NEW r \in Requests, Del(r)
    PROVE  IInv'
<1> DEFINE u == request[r].id
<1>1. /\ member' = {m \in member : m[2] # u}
      /\ row' = [row EXCEPT ![u] = [NoUser EXCEPT !.state = "gone"]]
      /\ mailbox' = MailboxesWithout(u) /\ Finish(r)
      /\ UNCHANGED <<group, requests, secrets>>
  BY DEF Del
<1>2. u \in Users /\ u \notin Groups
  BY HasCarried, UsersAssumption DEF Carried, OnUser, Del, At
<1>3. Rows'
  <2>1. [NoUser EXCEPT !.state = "gone"] \in RowSet
    BY DEF NoUser, RowSet, Usernames, IInv, Counted
  <2>2. row' \in [Users -> RowSet']
    BY <1>1, <2>1 DEF IInv, Rows, RowSet
  <2>3. \A v \in Users \ {u} : Exists(v)' <=> Exists(v)
    BY <1>1 DEF Exists, IInv, Rows
  <2>4. member' \subseteq Members'
    BY <1>1, <2>3 DEF IInv, Rows, Members, GroupExists
  <2> QED BY <1>1, <2>2, <2>4 DEF IInv, Rows, GroupSet
<1>4. row'[u].state = "gone" /\ \A v \in Users \ {u} : row'[v] = row[v]
  BY <1>1, <1>2 DEF IInv, Rows, NoUser
<1>5. mailbox' \in [Names -> MailboxSet'] /\ Owned' /\ NamesHaveMailboxes'
  BY <1>1, <1>2, <1>4, RemovesMailboxes DEF Owners
<1>6. Requested' /\ Counted'
  BY <1>1, <1>4, FinishesAfter
<1> QED BY <1>3, <1>5, <1>6 DEF IInv

LEMMA DelGroupKeeps ==
    ASSUME IInv, NEW r \in Requests, DelGroup(r)
    PROVE  IInv'
<1> DEFINE g == request[r].id
<1>1. /\ member' = {m \in member : m[1] # g}
      /\ group' = [group EXCEPT ![g] = [NoGroup EXCEPT !.state = "gone"]]
      /\ mailbox' = MailboxesWithout(g) /\ Finish(r)
      /\ UNCHANGED <<row, requests, secrets>>
  BY DEF DelGroup
<1>2. g \in Groups /\ g \notin Users
  BY HasCarried, UsersAssumption DEF Carried, DelGroup, At
<1>3. Rows'
  <2>1. group' \in [Groups -> GroupSet]
    BY <1>1 DEF IInv, Rows, GroupSet, NoGroup
  <2>2. \A h \in (Groups \cup {Admin}) \ {g} : GroupExists(h)' <=> GroupExists(h)
    BY <1>1 DEF GroupExists, IInv, Rows
  <2>3. member' \subseteq Members'
    BY <1>1, <2>2 DEF IInv, Rows, Members, Exists
  <2> QED BY <1>1, <2>1, <2>3 DEF IInv, Rows, GroupSet, RowSet
<1>4. group'[g].state = "gone" /\ \A h \in Groups \ {g} : group'[h] = group[h]
  BY <1>1, <1>2 DEF IInv, Rows, NoGroup
<1>5. mailbox' \in [Names -> MailboxSet'] /\ Owned' /\ NamesHaveMailboxes'
  BY <1>1, <1>2, <1>4, RemovesMailboxes DEF Owners
<1>6. Requested' /\ Counted'
  BY <1>1, <1>4, FinishesAfter
<1> QED BY <1>3, <1>5, <1>6 DEF IInv

LEMMA AddGroupKeeps ==
    ASSUME IInv, NEW r \in Requests, NEW g \in Groups, AddGroup(r, g)
    PROVE  IInv'
<1> DEFINE n == request[r].name
<1>1. /\ group[g].state = "none" /\ MailboxFree(n)
      /\ group' = [group EXCEPT ![g] = [state |-> "here", name |-> n]]
      /\ mailbox' = [mailbox EXCEPT ![n] = [owner |-> g, target |-> None]]
      /\ Finish(r) /\ UNCHANGED <<row, member, requests, secrets>>
  BY DEF AddGroup
<1>2. n \in Names
  BY HasCarried DEF Carried, AddGroup, At
<1>3. Rows'
  <2>1. group' \in [Groups -> GroupSet]
    BY <1>1, <1>2 DEF IInv, Rows, GroupSet
  <2>2. Members \subseteq Members'
    BY <1>1 DEF IInv, Rows, Members, GroupExists, Exists
  <2> QED BY <1>1, <2>1, <2>2 DEF IInv, Rows, GroupSet, RowSet
<1>4. \A h \in Groups : group[h].state # "none" => group'[h].state # "none"
  BY <1>1 DEF IInv, Rows
<1>5. mailbox' \in [Names -> MailboxSet']
  BY <1>1 DEF IInv, MailboxSet, Owners
<1>6. Owned'
  BY <1>1, <1>4, UsersAssumption DEF IInv, Rows, Owned, MailboxFree, Known, Owners
<1>7. NamesHaveMailboxes'
  <2>1. \A m \in Names : ~OwnMailbox(g, m)
    BY <1>1, UsersAssumption DEF IInv, Owned, MailboxFree, NoMailbox, OwnMailbox, Known
  <2>2. \A o \in Owners \ {g}, m \in Names : OwnMailbox(o, m)' <=> OwnMailbox(o, m)
    BY <1>1, UsersAssumption DEF IInv, MailboxFree, NoMailbox, OwnMailbox, Owners
  <2>3. \A m \in Names : OwnMailbox(g, m)' <=> m = n
    BY <1>1, <2>1 DEF IInv, OwnMailbox
  <2>4. MailboxesOf(g)' = {n}
    BY <1>2, <2>3 DEF MailboxesOf
  <2>5. \A o \in Owners \ {g} : MailboxesOf(o)' = MailboxesOf(o)
    BY <2>2 DEF MailboxesOf
  <2> QED BY <1>1, <2>4, <2>5, UsersAssumption DEF IInv, Rows, NamesHaveMailboxes, Exists, Owners
<1>8. Requested' /\ Counted'
  BY <1>1, <1>4, FinishesAfter
<1> QED BY <1>3, <1>5, <1>6, <1>7, <1>8 DEF IInv

(* The foreign keys keep the members to users and groups that are there. *)
LEMMA MembersKeep ==
    ASSUME IInv, NEW r \in Requests, MakeAdmin(r) \/ SetGroups(r) \/ SetMembers(r)
    PROVE  IInv'
<1> DEFINE q == request[r]
<1>1. Finish(r) /\ UNCHANGED <<row, group, mailbox, requests, secrets>>
  BY DEF MakeAdmin, SetGroups, SetMembers
<1>2. Members' = Members
  BY <1>1 DEF Members, GroupExists, Exists
<1>3. member' \subseteq Members
  <2>1. CASE MakeAdmin(r)
    <3>1. q.id \in Users
      BY <2>1, HasCarried DEF Carried, OnUser, MakeAdmin, At
    <3>2. Exists(q.id) => <<Admin, q.id>> \in Members
      BY <3>1 DEF Members, GroupExists
    <3> QED BY <2>1, <3>2 DEF MakeAdmin, IInv, Rows
  <2>2. CASE SetGroups(r)
    <3>1. q.id \in Users /\ q.set \subseteq Groups \cup {Admin}
      BY <2>2, HasCarried DEF Carried, OnUser, SetGroups, At
    <3>2. (q.set = {} \/ (Exists(q.id) /\ \A g \in q.set : GroupExists(g)))
             => q.set \X {q.id} \subseteq Members
      BY <3>1 DEF Members
    <3> QED BY <2>2, <3>2 DEF SetGroups, IInv, Rows
  <2>3. CASE SetMembers(r)
    <3>1. q.id \in Groups \cup {Admin} /\ q.set \subseteq Users
      BY <2>3, HasCarried DEF Carried, SetMembers, At
    <3>2. (q.set = {} \/ (GroupExists(q.id) /\ \A u \in q.set : Exists(u)))
             => {q.id} \X q.set \subseteq Members
      BY <3>1 DEF Members
    <3> QED BY <2>3, <3>2 DEF SetMembers, IInv, Rows
  <2> QED BY <2>1, <2>2, <2>3
<1>4. Rows'
  BY <1>1, <1>2, <1>3 DEF IInv, Rows, RowSet, GroupSet
<1>5. mailbox' \in [Names -> MailboxSet'] /\ Owned' /\ NamesHaveMailboxes'
  BY <1>1 DEF IInv, MailboxSet, Owned, MailboxFree, Known, NamesHaveMailboxes, Exists, MailboxesOf,
     OwnMailbox
<1>6. Requested' /\ Counted'
  BY <1>1, FinishesAfter
<1> QED BY <1>4, <1>5, <1>6 DEF IInv

(* Aliases are put where no mailbox is, and only aliases are taken away. *)
LEMMA AliasesKeep ==
    ASSUME IInv, NEW r \in Requests, SetAliases(r)
    PROVE  IInv'
<1> DEFINE q == request[r]
           rest == [n \in Names |-> IF mailbox[n].target = q.name THEN NoMailbox ELSE mailbox[n]]
<1>1. Finish(r) /\ UNCHANGED <<row, group, member, requests, secrets>>
  BY DEF SetAliases
<1>2. q.name \in Names /\ q.id \in Owners /\ Known(q.id) /\ q.name # None
  BY HasCarried, UsersAssumption DEF Carried, SetAliases, At
<1>3. ASSUME NEW n \in Names
      PROVE  \/ mailbox'[n] = mailbox[n]
             \/ mailbox'[n] = NoMailbox /\ mailbox[n].target # None
             \/ /\ mailbox'[n] = [owner |-> q.id, target |-> q.name]
                /\ mailbox[n] = NoMailbox \/ mailbox[n].target # None
  <2>1. rest[n] = NoMailbox => mailbox[n] = NoMailbox \/ mailbox[n].target # None
    BY <1>2
  <2>2. CASE \E m \in q.set : rest[m] # NoMailbox
    BY <2>2 DEF SetAliases
  <2>3. CASE (\A m \in q.set : rest[m] = NoMailbox) /\ n \in q.set
    <3>1. mailbox'[n] = [owner |-> q.id, target |-> q.name]
      BY <2>3 DEF SetAliases
    <3> QED BY <2>1, <2>3, <3>1
  <2>4. CASE (\A m \in q.set : rest[m] = NoMailbox) /\ n \notin q.set
    <3>1. mailbox'[n] = rest[n]
      BY <2>4 DEF SetAliases
    <3> QED BY <1>2, <3>1
  <2> QED BY <2>2, <2>3, <2>4
<1>4. mailbox' \in [Names -> MailboxSet']
  <2>1. mailbox' \in [Names -> {mailbox'[n] : n \in Names}]
    BY DEF SetAliases, IInv
  <2>2. \A n \in Names : mailbox'[n] \in MailboxSet
    <3> TAKE n \in Names
    <3>1. mailbox[n] \in MailboxSet /\ NoMailbox \in MailboxSet
      BY DEF IInv, MailboxSet, NoMailbox
    <3>2. [owner |-> q.id, target |-> q.name] \in MailboxSet
      BY <1>2 DEF MailboxSet
    <3> QED BY <1>3, <3>1, <3>2
  <2> QED BY <2>1, <2>2 DEF MailboxSet
<1>5. Owned'
  <2> SUFFICES ASSUME NEW n \in Names
               PROVE  \/ mailbox'[n] = NoMailbox
                      \/ mailbox'[n].owner \in Owners /\ Known(mailbox[n].owner)'
    BY DEF Owned, MailboxFree
  <2> QED BY <1>1, <1>2, <1>3 DEF IInv, Owned, MailboxFree, Known
<1>6. \A o \in Owners, n \in Names : OwnMailbox(o, n)' <=> OwnMailbox(o, n)
  <2> TAKE o \in Owners, n \in Names
  <2>1. o # None
    BY UsersAssumption DEF Owners
  <2> QED BY <1>2, <1>3, <2>1 DEF OwnMailbox, NoMailbox
<1>7. \A o \in Owners : MailboxesOf(o)' = MailboxesOf(o)
  BY <1>6 DEF MailboxesOf
<1>8. NamesHaveMailboxes'
  BY <1>1, <1>7 DEF IInv, NamesHaveMailboxes, Exists, Owners
<1>9. Rows'
  BY <1>1 DEF IInv, Rows, RowSet, GroupSet, Members, GroupExists, Exists
<1>10. Requested' /\ Counted'
  BY <1>1, FinishesAfter
<1> QED BY <1>4, <1>5, <1>8, <1>9, <1>10 DEF IInv

-----------------------------------------------------------------------------
LEMMA NextKeeps == IInv /\ [Next]_vars => IInv'
<1> SUFFICES ASSUME IInv, [Next]_vars PROVE IInv'
  OBVIOUS
<1>1. CASE UNCHANGED vars
  BY <1>1 DEF vars, dbVars, IInv, Rows, RowSet, GroupSet, Members, GroupExists, Exists, MailboxSet,
     Owned, MailboxFree, Known, NamesHaveMailboxes, MailboxesOf, OwnMailbox, Requested, RequestSet,
     Carries, Carried, Counted
<1>2. ASSUME NEW r \in Requests, Asked(r) PROVE IInv'
  BY <1>2, AskedKeeps
<1>3. ASSUME NEW r \in Requests, Handled(r) PROVE IInv'
  BY <1>3, ReadsKeep, AddKeeps, WritesKeep, DelKeeps, DelGroupKeeps, AddGroupKeeps, MembersKeep,
     AliasesKeep DEF Handled
<1> QED BY <1>1, <1>2, <1>3 DEF Next

THEOREM Invariance == Spec => []IInv
BY InitHolds, NextKeeps, PTL DEF Spec

(* TypeOK for any users, groups, names, requests and bound. *)
THEOREM TypeCorrect == Spec => []TypeOK
BY Invariance, InvariantHolds, PTL

(* A name is the mailbox of whom it names, whatever overlaps. *)
THEOREM NamesCorrect == Spec => []NamesHaveMailboxes
BY Invariance, InvariantHolds, PTL

-----------------------------------------------------------------------------
(* A token is new when it is stored, or none, or the one that was there. *)
LEMMA TokensNew ==
    ASSUME IInv, [Next]_vars, NEW u \in Users, NEW t \in 1..secrets, row[u].token # t
    PROVE  row'[u].token # t
<1>1. secrets \in Nat /\ t # 0 /\ t # secrets + 1
  BY DEF IInv, Counted
<1>2. CASE row' = row
  BY <1>2
<1>3. ASSUME NEW r \in Requests, NEW v \in Users, Add(r, v) PROVE row'[u].token # t
  BY <1>1, <1>3 DEF Add, IInv, Rows
<1>4. ASSUME NEW r \in Requests, UpdateUser(r) PROVE row'[u].token # t
  BY <1>4 DEF UpdateUser, IInv, Rows, RowSet
<1>5. ASSUME NEW r \in Requests, WriteToken(r) \/ WritePassword(r) PROVE row'[u].token # t
  <2> DEFINE v == request[r].id
  <2>1. PICK k \in {0, secrets + 1} : \E n, pw :
           row' = row \/ row' = [row EXCEPT ![v] = [state |-> "here", name |-> n,
                                                   password |-> pw, token |-> k]]
    BY <1>5 DEF WriteToken, WritePassword, WriteBack
  <2> QED BY <1>1, <2>1 DEF IInv, Rows
<1>6. ASSUME NEW r \in Requests, Del(r) PROVE row'[u].token # t
  BY <1>1, <1>6 DEF Del, NoUser, IInv, Rows
<1>7. ASSUME NEW r \in Requests, Asked(r) PROVE row' = row
  BY <1>7 DEF Asked, Activate, AskGroup, AskCreate, AskRemove, AskToken, ChangePassword, AskUpdate,
     AskAliases, AskGroups, AskMembers, AskDelGroup, AskReset, AskSetup, Ask, dbVars
<1>8. ASSUME NEW r \in Requests, Handled(r)
      PROVE  \/ row' = row \/ (\E v \in Users : Add(r, v)) \/ UpdateUser(r) \/ WriteToken(r)
             \/ WritePassword(r) \/ Del(r)
  BY <1>8 DEF Handled, Count, RefuseAdd, MakeAdmin, Lookup, RefuseUpdate, FindByToken, CheckName,
     ReadUser, RefuseWrite, GetToRemove, SetGroups, SetMembers, AddGroup, RefuseGroup, DelGroup,
     ReadName, ReadOwner, SetAliases, Reply, dbVars
<1> QED BY <1>2, <1>3, <1>4, <1>5, <1>6, <1>7, <1>8 DEF Next, vars, dbVars

(* No reset token that was used or replaced opens an account again. *)
THEOREM TokensCorrect == Spec => TokensSpent
<1>1. IInv /\ [Next]_vars
        => [\A u \in Users, t \in 1..secrets : row[u].token # t => row'[u].token # t]_vars
  BY TokensNew
<1> QED BY <1>1, Invariance, PTL DEF Spec, TokensSpent
=============================================================================
