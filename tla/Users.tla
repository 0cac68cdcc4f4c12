------------------------------- MODULE Users --------------------------------
(***************************************************************************)
(* The users and groups of a Cloudron and the names they take: a username  *)
(* is also a mailbox, a group name is a mailing list, an alias is one more *)
(* name for a mailbox, and no two of them may be the same.                 *)
(*                                                                         *)
(* A request (src/src/routes/user.js, groups.js, profile.js, oauth2.js) is *)
(* let in once and then goes through src/src/user.js or src/src/groups.js  *)
(* one database call at a time; other requests run in between.  A          *)
(* transaction of src/src/userdb.js, groupdb.js or mailboxdb.js is one     *)
(* step, which happens as a whole or not at all.                           *)
(*                                                                         *)
(* Who may ask is decided when the request is let in: routes below         *)
(* requireAdmin need a member of the admin group.  Email addresses,        *)
(* display names and login tokens are left out, and so is the demo mode.   *)
(***************************************************************************)
EXTENDS Naturals, FiniteSets

CONSTANTS
    Users,        \* user ids
    Groups,       \* ids of the groups users make
    Admin,        \* ADMIN_GROUP_ID, whose name is reserved and no mailbox
    Names,        \* valid usernames, group names and aliases, in lower case
    Blank,        \* the username ''
    None,         \* no username (NULL), no owner, nothing said
    Requests,     \* HTTP requests at work at once
    MaxRequests   \* bound: requests

ASSUME UsersAssumption ==
    /\ Users \cap Groups = {}
    /\ Admin \notin Users \cup Groups
    /\ None \notin Users \cup Groups \cup Names
    /\ Blank \notin Names \cup {None}
    /\ MaxRequests \in Nat

VARIABLES
    row,       \* row[u]: the user's row
    group,     \* group[g]: the group's row
    member,    \* groupMembers
    mailbox,   \* mailbox[n]: who owns the name n and, of an alias, the name it stands for
    request,   \* request[r]: how far a request is and what it has read
    requests,  \* requests so far
    secrets    \* passwords and reset tokens made so far, and the last one of them

dbVars == <<row, group, member, mailbox>>
vars == <<dbVars, request, requests, secrets>>

Owners == Users \cup Groups
Usernames == Names \cup {Blank, None}

NoUser == [state |-> "none", name |-> None, password |-> 0, token |-> 0]
NoGroup == [state |-> "none", name |-> None]
NoMailbox == [owner |-> None, target |-> None]

\* A row is there; one that was removed leaves an id that no new row gets.
Exists(u) == row[u].state = "here"
GroupExists(g) == g = Admin \/ (g \in Groups /\ group[g].state = "here")
Admins == {u \in Users : <<Admin, u>> \in member}

\* id is the user or owner, name, password and token a request's argument or
\* what it has read of a row, set a set of ids or names.
Idle == [kind |-> "none", step |-> "idle", id |-> None, name |-> None,
         password |-> 0, token |-> 0, set |-> {}]

Init ==
    /\ row = [u \in Users |-> NoUser]
    /\ group = [g \in Groups |-> NoGroup]
    /\ member = {}
    /\ mailbox = [n \in Names |-> NoMailbox]
    /\ request = [r \in Requests |-> Idle]
    /\ requests = 0
    /\ secrets = 0

-----------------------------------------------------------------------------
\* What is asked.

Ask(r, kind, step, id, name, token, set) ==
    /\ request[r] = Idle
    /\ requests < MaxRequests
    /\ request' = [request EXCEPT ![r] = [kind |-> kind, step |-> step, id |-> id, name |-> name,
                                          password |-> 0, token |-> token, set |-> set]]
    /\ requests' = requests + 1
    /\ UNCHANGED <<dbVars, secrets>>

\* Before there is a user nobody has to be logged in.
Activate(r, n) == Ask(r, "activate", "count", None, n, 0, {})

AskCreate(r, n) ==
    /\ Admins # {}
    /\ n \in Names \cup {None}
    /\ Ask(r, "create", "add", None, n, 0, {})

AskUpdate(r, u, n) ==
    /\ Admins # {}
    /\ row[u].state # "none"
    /\ n \in Names \cup {Blank}
    /\ Ask(r, "update", "lookup", u, n, 0, {})

\* Not oneself.
AskRemove(r, u) ==
    /\ Admins \ {u} # {}
    /\ row[u].state # "none"
    /\ Ask(r, "remove", "get", u, None, 0, {})

AskAliases(r, u, A) ==
    /\ Admins # {}
    /\ row[u].state # "none"
    /\ Ask(r, "aliases", "user", u, None, 0, A)

\* Not oneself out of the admin group.
AskGroups(r, u, S) ==
    /\ Admins # {}
    /\ Admins = {u} => Admin \in S
    /\ row[u].state # "none"
    /\ Ask(r, "groups", "groups", u, None, 0, S)

AskGroup(r, n) ==
    /\ Admins # {}
    /\ Ask(r, "group", "add group", None, n, 0, {})

AskMembers(r, g, U) ==
    /\ Admins # {}
    /\ g \in Groups => group[g].state # "none"
    /\ Ask(r, "members", "members", g, None, 0, U)

AskDelGroup(r, g) ==
    /\ Admins # {}
    /\ group[g].state # "none"
    /\ Ask(r, "remove group", "del group", g, None, 0, {})

\* An invite (sendInvite), or a forgotten password (resetPasswordByIdentifier),
\* for which it is enough to know the user's name or address.
AskToken(r, u) ==
    /\ row[u].state # "none"
    /\ Ask(r, "refresh", "read", u, None, 0, {})

\* Whoever has a mail with a token can set up the account or the password.
AskSetup(r, t, n) == t \in 1..secrets /\ Ask(r, "setup", "find", None, n, t, {})
AskReset(r, t) == t \in 1..secrets /\ Ask(r, "reset", "find", None, None, t, {})

ChangePassword(r, u) ==
    /\ Exists(u)
    /\ row[u].name \in Names
    /\ Ask(r, "change", "read", u, None, 0, {})

-----------------------------------------------------------------------------
\* How it is done.

Go(r, step) == request' = [request EXCEPT ![r].step = step]
Finish(r) == request' = [request EXCEPT ![r] = Idle]
Reply(r) == Finish(r) /\ UNCHANGED <<dbVars, requests, secrets>>

At(r, step) == request[r].step = step

\* The UNIQUE keys: users.username, where NULL is equal to nothing, and mailboxes.name.
UsernameFree(u, n) == n = None \/ \A v \in Users \ {u} : Exists(v) => row[v].name # n
MailboxFree(n) == mailbox[n] = NoMailbox

\* createOwner
Count(r) ==
    /\ At(r, "count")
    /\ IF \E u \in Users : Exists(u) THEN Finish(r) ELSE Go(r, "add")
    /\ UNCHANGED <<dbVars, requests, secrets>>

\* userdb.add
Add(r, u) ==
    LET n == request[r].name IN
    /\ At(r, "add")
    /\ row[u].state = "none"
    /\ UsernameFree(u, n)
    /\ n \in Names => MailboxFree(n)
    /\ row' = [row EXCEPT ![u] = [state |-> "here", name |-> n, password |-> secrets + 1,
                                  token |-> secrets + 1]]
    /\ mailbox' = IF n \in Names THEN [mailbox EXCEPT ![n] = [owner |-> u, target |-> None]]
                                 ELSE mailbox
    /\ secrets' = secrets + 1
    /\ IF request[r].kind = "activate"
       THEN request' = [request EXCEPT ![r].step = "make admin", ![r].id = u]
       ELSE Finish(r)
    /\ UNCHANGED <<group, member, requests>>

RefuseAdd(r) ==
    LET n == request[r].name IN
    /\ At(r, "add")
    /\ n \in Names
    /\ ~MailboxFree(n) \/ \E u \in Users : Exists(u) /\ row[u].name = n
    /\ Reply(r)

\* groupdb.addMember; the foreign key refuses a user that is gone.
MakeAdmin(r) ==
    /\ At(r, "make admin")
    /\ member' = IF Exists(request[r].id) THEN member \cup {<<Admin, request[r].id>>} ELSE member
    /\ Finish(r)
    /\ UNCHANGED <<row, group, mailbox, requests, secrets>>

\* userdb.update of user u with a username and perhaps more: may it, and the
\* mailboxes after it.  An UPDATE that matches no row does not stop the rest.
OwnMailbox(u, n) == mailbox[n] = [owner |-> u, target |-> None]
CanWrite(u, n) ==
    /\ Exists(u) => UsernameFree(u, n)
    /\ n \in Names => MailboxFree(n) \/ OwnMailbox(u, n)
\* Mutant: as if the old mailbox were kept.
MailboxesKept(u, n) ==
    IF n \notin Names THEN mailbox ELSE [mailbox EXCEPT ![n] = [owner |-> u, target |-> None]]
MailboxesAfter(u, n) ==
    IF n \notin Names THEN mailbox
    ELSE [m \in Names |-> IF m = n THEN [owner |-> u, target |-> None]
                          ELSE IF OwnMailbox(u, m) THEN NoMailbox ELSE mailbox[m]]

\* updateUser: userdb.get, then userdb.update with the username that was given.
Lookup(r) ==
    /\ At(r, "lookup")
    /\ IF Exists(request[r].id) THEN Go(r, "write") ELSE Finish(r)
    /\ UNCHANGED <<dbVars, requests, secrets>>

UpdateUser(r) ==
    LET u == request[r].id
        n == request[r].name
    IN  /\ At(r, "write")
        /\ CanWrite(u, n)
        /\ row' = IF Exists(u) THEN [row EXCEPT ![u].name = n] ELSE row
        /\ mailbox' = MailboxesAfter(u, n)
        /\ IF request[r].kind = "setup" /\ Exists(u) THEN Go(r, "read") ELSE Finish(r)
        /\ UNCHANGED <<group, member, requests, secrets>>

RefuseUpdate(r) ==
    /\ At(r, "write")
    /\ ~CanWrite(request[r].id, request[r].name)
    /\ Reply(r)

\* getByResetToken, before accountSetup and passwordReset.
FindByToken(r) ==
    /\ At(r, "find")
    /\ \/ \E u \in Users :
            /\ Exists(u) /\ row[u].token = request[r].token
            /\ request' = [request EXCEPT
                 ![r].id = u,
                 ![r].step = IF request[r].kind = "setup" THEN "lookup" ELSE "check"]
       \/ /\ \A u \in Users : ~(Exists(u) /\ row[u].token = request[r].token)
          /\ Finish(r)
    /\ UNCHANGED <<dbVars, requests, secrets>>

\* passwordReset is for users that have set a username.
CheckName(r) ==
    /\ At(r, "check")
    /\ IF Exists(request[r].id) /\ row[request[r].id].name \in Names
       THEN Go(r, "read") ELSE Finish(r)
    /\ UNCHANGED <<dbVars, requests, secrets>>

\* sendInvite, resetPasswordByIdentifier and setPassword read the whole row,
\* change the token or the password in their copy, and write the whole copy.
ReadUser(r) ==
    LET u == request[r].id IN
    /\ At(r, "read")
    /\ IF Exists(u)
       THEN request' = [request EXCEPT ![r] =
              [@ EXCEPT !.step = IF request[r].kind = "refresh" THEN "write token" ELSE "write password",
                        !.name = row[u].name, !.password = row[u].password,
                        !.token = row[u].token]]
       ELSE Finish(r)
    /\ UNCHANGED <<dbVars, requests, secrets>>

WriteBack(r, password, token) ==
    LET u == request[r].id
        n == request[r].name
    IN  /\ CanWrite(u, n)
        /\ row' = IF Exists(u) THEN [row EXCEPT ![u] = [state |-> "here", name |-> n,
                                                        password |-> password, token |-> token]]
                               ELSE row
        /\ mailbox' = MailboxesAfter(u, n)
        /\ secrets' = secrets + 1
        /\ Finish(r)
        /\ UNCHANGED <<group, member, requests>>

WriteToken(r) ==
    /\ At(r, "write token")
    /\ WriteBack(r, request[r].password, secrets + 1)

\* Mutant: as if setPassword left the reset token in its copy of the row.
WritePasswordOnly(r) ==
    /\ At(r, "write password")
    /\ WriteBack(r, secrets + 1, request[r].token)

WritePassword(r) ==
    /\ At(r, "write password")
    /\ WriteBack(r, secrets + 1, 0)

RefuseWrite(r) ==
    /\ At(r, "write token") \/ At(r, "write password")
    /\ ~CanWrite(request[r].id, request[r].name)
    /\ Reply(r)

\* removeUser: getUser, then userdb.del, mailboxes and aliases of the user included.
GetToRemove(r) ==
    /\ At(r, "get")
    /\ IF Exists(request[r].id) THEN Go(r, "del") ELSE Finish(r)
    /\ UNCHANGED <<dbVars, requests, secrets>>

MailboxesWithout(o) == [n \in Names |-> IF mailbox[n].owner = o THEN NoMailbox ELSE mailbox[n]]

\* Mutant: as if the memberships were left to the foreign key.
DelRow(r) ==
    /\ At(r, "del")
    /\ row' = [row EXCEPT ![request[r].id] = [NoUser EXCEPT !.state = "gone"]]
    /\ mailbox' = MailboxesWithout(request[r].id)
    /\ Finish(r)
    /\ UNCHANGED <<group, member, requests, secrets>>

Del(r) ==
    LET u == request[r].id IN
    /\ At(r, "del")
    /\ member' = {m \in member : m[2] # u}
    /\ row' = [row EXCEPT ![u] = [NoUser EXCEPT !.state = "gone"]]
    /\ mailbox' = MailboxesWithout(u)
    /\ Finish(r)
    /\ UNCHANGED <<group, requests, secrets>>

\* groupdb.setGroups and setMembers replace all; the foreign keys refuse the
\* whole when one row of it has no user or no group.
SetGroups(r) ==
    LET u == request[r].id
        S == request[r].set
    IN  /\ At(r, "groups")
        /\ member' = IF S = {} \/ (Exists(u) /\ \A g \in S : GroupExists(g))
                     THEN {m \in member : m[2] # u} \cup (S \X {u})
                     ELSE member
        /\ Finish(r)
        /\ UNCHANGED <<row, group, mailbox, requests, secrets>>

SetMembers(r) ==
    LET g == request[r].id
        U == request[r].set
    IN  /\ At(r, "members")
        /\ member' = IF U = {} \/ (GroupExists(g) /\ \A u \in U : Exists(u))
                     THEN {m \in member : m[1] # g} \cup ({g} \X U)
                     ELSE member
        /\ Finish(r)
        /\ UNCHANGED <<row, group, mailbox, requests, secrets>>

\* groupdb.add and del
AddGroup(r, g) ==
    LET n == request[r].name IN
    /\ At(r, "add group")
    /\ group[g].state = "none"
    /\ MailboxFree(n)
    /\ \A h \in Groups : group[h].name # n
    /\ group' = [group EXCEPT ![g] = [state |-> "here", name |-> n]]
    /\ mailbox' = [mailbox EXCEPT ![n] = [owner |-> g, target |-> None]]
    /\ Finish(r)
    /\ UNCHANGED <<row, member, requests, secrets>>

RefuseGroup(r) ==
    LET n == request[r].name IN
    /\ At(r, "add group")
    /\ ~MailboxFree(n) \/ \E h \in Groups : group[h].name = n
    /\ Reply(r)

DelGroup(r) ==
    LET g == request[r].id IN
    /\ At(r, "del group")
    /\ member' = {m \in member : m[1] # g}
    /\ group' = [group EXCEPT ![g] = [NoGroup EXCEPT !.state = "gone"]]
    /\ mailbox' = MailboxesWithout(g)
    /\ Finish(r)
    /\ UNCHANGED <<row, requests, secrets>>

\* setAliases: the username, then who owns that name, then the aliases, each
\* read in a call of its own.  A user without a username gets no answer at all.
ReadName(r) ==
    LET u == request[r].id IN
    /\ At(r, "user")
    /\ IF ~Exists(u) THEN Finish(r)
       ELSE IF row[u].name \in Names
         THEN request' = [request EXCEPT ![r].step = "owner", ![r].name = row[u].name]
         ELSE Go(r, "no answer")
    /\ UNCHANGED <<dbVars, requests, secrets>>

ReadOwner(r) ==
    LET n == request[r].name IN
    /\ At(r, "owner")
    /\ IF MailboxFree(n) THEN Finish(r)
       ELSE request' = [request EXCEPT ![r].step = "aliases", ![r].id = mailbox[n].owner]
    /\ UNCHANGED <<dbVars, requests, secrets>>

SetAliases(r) ==
    LET q == request[r]
        rest == [n \in Names |-> IF mailbox[n].target = q.name THEN NoMailbox ELSE mailbox[n]]
    IN  /\ At(r, "aliases")
        /\ mailbox' = IF \E n \in q.set : rest[n] # NoMailbox THEN mailbox
                      ELSE [n \in Names |-> IF n \in q.set THEN [owner |-> q.id, target |-> q.name]
                                            ELSE rest[n]]
        /\ Finish(r)
        /\ UNCHANGED <<row, group, member, requests, secrets>>

-----------------------------------------------------------------------------
Asked(r) ==
    \/ \E n \in Names : Activate(r, n) \/ AskGroup(r, n)
    \/ \E n \in Usernames : AskCreate(r, n)
    \/ \E u \in Users :
          \/ AskRemove(r, u) \/ AskToken(r, u) \/ ChangePassword(r, u)
          \/ \E n \in Usernames : AskUpdate(r, u, n)
          \/ \E A \in SUBSET Names : AskAliases(r, u, A)
          \/ \E S \in SUBSET (Groups \cup {Admin}) : AskGroups(r, u, S)
    \/ \E g \in Groups \cup {Admin}, U \in SUBSET Users : AskMembers(r, g, U)
    \/ \E g \in Groups : AskDelGroup(r, g)
    \/ \E t \in 1..secrets :
          \/ AskReset(r, t)
          \/ \E n \in Names \cup {Blank} : AskSetup(r, t, n)

Handled(r) ==
    \/ Count(r) \/ (\E u \in Users : Add(r, u)) \/ RefuseAdd(r) \/ MakeAdmin(r)
    \/ Lookup(r) \/ UpdateUser(r) \/ RefuseUpdate(r)
    \/ FindByToken(r) \/ CheckName(r)
    \/ ReadUser(r) \/ WriteToken(r) \/ WritePassword(r) \/ RefuseWrite(r)
    \/ GetToRemove(r) \/ Del(r)
    \/ SetGroups(r) \/ SetMembers(r)
    \/ (\E g \in Groups : AddGroup(r, g)) \/ RefuseGroup(r) \/ DelGroup(r)
    \/ ReadName(r) \/ ReadOwner(r) \/ SetAliases(r)

Next == \E r \in Requests : Asked(r) \/ Handled(r)

Spec == Init /\ [][Next]_vars

-----------------------------------------------------------------------------
Steps == {"idle", "count", "add", "make admin", "lookup", "write", "find", "check", "read",
          "write token", "write password", "get", "del", "groups", "members", "add group",
          "del group", "user", "owner", "aliases", "no answer"}
Kinds == {"none", "activate", "create", "update", "remove", "aliases", "groups", "group",
          "members", "remove group", "refresh", "setup", "reset", "change"}

\* Every variable holds what the code can put there, and, what the foreign keys
\* of groupMembers demand, only users and groups that are there are members and
\* have any (src/migrations/schema.sql:29, src/src/userdb.js:171,
\* src/src/groupdb.js:105).
TypeOK ==
    /\ row \in [Users -> [state : {"none", "here", "gone"}, name : Usernames,
                          password : 0..secrets, token : 0..secrets]]
    /\ group \in [Groups -> [state : {"none", "here", "gone"}, name : Names \cup {None}]]
    /\ member \subseteq {m \in (Groups \cup {Admin}) \X Users : GroupExists(m[1]) /\ Exists(m[2])}
    /\ mailbox \in [Names -> [owner : Owners \cup {None}, target : Names \cup {None}]]
    /\ request \in [Requests -> [kind : Kinds, step : Steps, id : Owners \cup {Admin, None},
                                 name : Usernames, password : 0..secrets, token : 0..secrets,
                                 set : (SUBSET (Owners \cup {Admin})) \cup (SUBSET Names)]]
    /\ requests \in 0..MaxRequests
    /\ secrets \in Nat

\* The mailboxes, other than aliases, that o owns.
MailboxesOf(o) == {n \in Names : OwnMailbox(o, n)}

\* Whatever requests come between each other: a user with a username gets mail
\* under that name and no other, and a group under its own.  So no name is taken
\* twice, and no rename, removal, alias or late write takes the mailbox of
\* another (src/src/userdb.js:212, src/src/groupdb.js:86, src/src/mailboxdb.js:159).
NamesHaveMailboxes ==
    /\ \A u \in Users : Exists(u) /\ row[u].name \in Names => MailboxesOf(u) = {row[u].name}
    /\ \A g \in Groups : group[g].state = "here" => MailboxesOf(g) = {group[g].name}

\* A token from an invite or a reset mail that does not open an account, since
\* it was used or another took its place, never opens it again, though tokens
\* are written back with stale copies of the row (src/src/user.js:495,
\* src/src/user.js:586, src/src/routes/oauth2.js:348).
TokensSpent ==
    [][\A u \in Users, t \in 1..secrets : row[u].token # t => row'[u].token # t]_vars

\* A name that is taken has an owner (src/src/userdb.js:259: "mailbox?").  The
\* code: an update, or a list of aliases, that arrives after its user was removed
\* inserts the mailbox, and nobody can have that name any more.
OwnersExist ==
    \A n \in Names : ~MailboxFree(n) =>
        \/ mailbox[n].owner \in Users /\ Exists(mailbox[n].owner)
        \/ mailbox[n].owner \in Groups /\ GroupExists(mailbox[n].owner)

\* An alias leads to a mailbox (src/src/mailboxdb.js:159).  The code: a rename
\* leaves the aliases of the old name behind.
AliasesLead ==
    \A n \in Names : mailbox[n].target # None => ~MailboxFree(mailbox[n].target)

\* A password that was replaced is not valid again (src/src/user.js:495).  The
\* code: an invite or a reset that read the row before writes the old one back.
PasswordsReplaced ==
    [][\A u \in Users, p \in 1..secrets : row[u].password # p => row'[u].password # p]_vars

\* "Owner already exists" (src/src/user.js:552).  The code: two activations that
\* both counted no user both make an owner, without any administrator asking.
OneActivation ==
    [][\A r \in Requests, u \in Users :
          request[r].kind = "activate" /\ Add(r, u) => \A v \in Users : ~Exists(v)]_vars

\* "Admin removing itself from admins is not allowed" (src/src/routes/user.js:191),
\* so that one is left.  The code: the members of the admin group can be set
\* through src/src/routes/groups.js:48 with no such test, and two administrators
\* can remove each other.
AdminRemains == [][Admins # {} => Admins' # {}]_vars

\* Every request is answered.  The code: src/src/user.js:619 returns the error of
\* a user without a username and calls nobody.
EveryoneAnswered == \A r \in Requests : ~At(r, "no answer")
=============================================================================
