------------------------------- MODULE SignIn -------------------------------
(***************************************************************************)
(* Accounts and the three ways into a relay session: sign-up and password   *)
(* login, and single sign-on through an OIDC provider, over the accounts    *)
(* database.                                                                *)
(*                                                                         *)
(* All requests share one aiosqlite connection and therefore one            *)
(* transaction: a COMMIT publishes what every request has executed so far,  *)
(* a ROLLBACK undoes it.  `queue` is the FIFO of the connection's worker    *)
(* thread; a step executes the statement of the request at its head and     *)
(* runs that request up to its next await.  A SELECT is three trips         *)
(* (execute, fetch, close the cursor); a write, commit or rollback is one.  *)
(***************************************************************************)
EXTENDS Integers, Sequences, FiniteSets

CONSTANTS
    Flows,        \* single sign-on attempts: /auth/oidc/login, then /callback
    Signups,      \* POST /auth/signup
    Logins,       \* POST /auth/login
    Agents,       \* those of Logins that are POST /auth/agent-token
    Admins,       \* POST /admin/users/{id}/active
    Subjects, Subject,   \* the provider's `sub` of each flow
    Bases, Base,         \* the user name derived from a subject's claims
    SignupNames,  \* names people sign up with
    Browsers, Browser,   \* where each flow and login is started
    NoOne,        \* absence of a request
    Tries,        \* candidate names tried for a new single sign-on account (50)
    Traffic,      \* sets of requests that arrive in one behaviour
    Early,        \* sign-ups that may have happened before, in their order
    MaxCrashes    \* bound on relay crashes

Requests == Flows \cup Signups \cup Logins \cup Admins
Names == Bases \X (1..Tries)
MaxId == Cardinality(Flows) * Tries + Cardinality(Signups)
Ids == 0..MaxId

ASSUME SignInAssumption ==
    /\ Subject \in [Flows -> Subjects] /\ Base \in [Subjects -> Bases]
    /\ Browser \in [Flows \cup Logins -> Browsers]
    /\ Agents \subseteq Logins /\ SignupNames \subseteq Names
    /\ NoOne \notin Requests /\ Tries \in Nat \ {0} /\ MaxCrashes \in Nat
    /\ Traffic \subseteq SUBSET Requests
    /\ Early \in Seq(Signups) /\ Len(Early) <= Tries /\ Bases # {}
    /\ \A i, j \in DOMAIN Early : Early[i] = Early[j] => i = j
    /\ IsFiniteSet(Flows) /\ IsFiniteSet(Signups)
    \* A request is of one kind.
    /\ Flows \cap (Signups \cup Logins \cup Admins) = {}
    /\ Signups \cap (Logins \cup Admins) = {} /\ Logins \cap Admins = {}

VARIABLES
    traffic,   \* the requests that arrive
    rows,      \* users, external_identities and sqlite_sequence as the connection sees them
    disk,      \* ... as last committed
    pc,        \* where each request is
    name,      \* the user name it is about
    user,      \* the User it holds: what its SELECT found or its INSERT made
    queue,     \* requests waiting for the database worker
    hop,       \* trips a pending SELECT has made
    jar,       \* the cookies of each browser
    at,        \* the browser in which each flow's callback was opened
    crashes

vars == <<traffic, rows, disk, pc, name, user, queue, hop, jar, at, crashes>>

\* A row of users.  `key` stands for the password hash: the request whose
\* password (or random sentinel) it hashes.
User == [id : Ids, name : Names, key : Flows \cup Signups, active : BOOLEAN]
NoUser == [id |-> 0]
Link == [sub : Subjects, id : Ids]
Session == [by : Flows \cup Logins, id : Ids]
NoSession == [by |-> NoOne]
Tables == [users : SUBSET User, links : SUBSET Link, seq : Ids]

Selects == {"link", "relink", "exists", "taken", "login"}
Places == Selects \cup {"idle", "away", "exchange", "insert", "ins_link", "commit",
    "rollback", "create", "create_commit", "update", "update_commit", "done", "failed"}

-----------------------------------------------------------------------------
(***************************************************************************)
(* The database worker.                                                     *)
(***************************************************************************)
AtHead(t) == queue # <<>> /\ Head(queue) = t
\* t awaits its next statement, behind everybody who already waits.
Await(t, place) ==
    /\ pc' = [pc EXCEPT ![t] = place]
    /\ queue' = Append(IF AtHead(t) THEN Tail(queue) ELSE queue, t)
Answer(t, place) ==
    /\ pc' = [pc EXCEPT ![t] = place]
    /\ queue' = IF AtHead(t) THEN Tail(queue) ELSE queue

OneOf(found) == IF found = {} THEN NoUser ELSE CHOOSE u \in found : TRUE
ByName(n) == OneOf({u \in rows.users : u.name = n})
ByExternalId(s) ==
    OneOf({u \in rows.users : \E l \in rows.links : l.sub = s /\ l.id = u.id})

Execute(t) ==
    /\ AtHead(t) /\ pc[t] \in Selects /\ hop[t] = 0
    /\ user' = [user EXCEPT ![t] =
           IF pc[t] \in {"link", "relink"} THEN ByExternalId(Subject[t]) ELSE ByName(name[t])]
    /\ hop' = [hop EXCEPT ![t] = 1]
    /\ Await(t, pc[t])
    /\ UNCHANGED <<traffic, rows, disk, name, jar, at, crashes>>

Fetch(t) ==
    /\ AtHead(t) /\ hop[t] = 1
    /\ hop' = [hop EXCEPT ![t] = 2]
    /\ Await(t, pc[t])
    /\ UNCHANGED <<traffic, rows, disk, name, user, jar, at, crashes>>

\* The cursor is closed: the request goes on with what was fetched.
Selected(t, place) ==
    /\ AtHead(t) /\ hop[t] = 2 /\ pc[t] = place
    /\ hop' = [hop EXCEPT ![t] = 0]
    /\ UNCHANGED <<traffic, rows, disk, at, crashes>>

\* INSERT INTO users: fails when the name is taken, else takes the next id.
Taken(n) == \E u \in rows.users : u.name = n
NewUser(t) == [id |-> rows.seq + 1, name |-> name[t], key |-> t, active |-> TRUE]
InsertUser(t) ==
    /\ rows' = [rows EXCEPT !.users = @ \cup {NewUser(t)}, !.seq = @ + 1]
    /\ user' = [user EXCEPT ![t] = NewUser(t)]

Commit(t) == disk' = rows
Rollback(t) == rows' = disk

Arrives(t) == t \in traffic /\ pc[t] = "idle"
-----------------------------------------------------------------------------
(***************************************************************************)
(* Sign-up: create_user.                                                    *)
(***************************************************************************)
Signup(t) ==
    /\ Arrives(t)
    /\ \E n \in SignupNames : name' = [name EXCEPT ![t] = n]
    /\ Await(t, "taken")
    /\ UNCHANGED <<traffic, rows, disk, user, hop, jar, at, crashes>>

\* A password that bcrypt cannot take is refused before the database.
WeakPassword(t) ==
    /\ Arrives(t) /\ Answer(t, "failed")
    /\ UNCHANGED <<traffic, rows, disk, name, user, hop, jar, at, crashes>>

SignupChecked(t) ==
    /\ Selected(t, "taken")
    /\ \/ user[t] # NoUser /\ Answer(t, "failed")
       \/ user[t] = NoUser /\ Await(t, "create")
    /\ UNCHANGED <<name, user, jar>>

SignupInsert(t) ==
    /\ AtHead(t) /\ pc[t] = "create"
    /\ \/ Taken(name[t]) /\ Answer(t, "failed") /\ UNCHANGED <<rows, user>>
       \/ ~Taken(name[t]) /\ InsertUser(t) /\ Await(t, "create_commit")
    /\ UNCHANGED <<traffic, disk, name, hop, jar, at, crashes>>

\* Mutant: create_user answers without committing.
SignupUncommitted(t) ==
    /\ AtHead(t) /\ pc[t] = "create_commit" /\ Answer(t, "done")
    /\ UNCHANGED <<traffic, rows, disk, name, user, hop, jar, at, crashes>>
SignupCommit(t) ==
    /\ AtHead(t) /\ pc[t] = "create_commit"
    /\ Commit(t) /\ Answer(t, "done")
    /\ UNCHANGED <<traffic, rows, name, user, hop, jar, at, crashes>>

-----------------------------------------------------------------------------
(***************************************************************************)
(* Password login, and the agent's variant that only returns a token.       *)
(***************************************************************************)
\* A person logs in with the name and the password they signed up with.
Login(t) ==
    /\ Arrives(t)
    /\ \E k \in Signups : pc[k] # "idle" /\ name' = [name EXCEPT ![t] = name[k]]
    /\ Await(t, "login")
    /\ UNCHANGED <<traffic, rows, disk, user, hop, jar, at, crashes>>

\* verify_password, and the account must not be disabled.
Verified(t, k) == user[t] # NoUser /\ user[t].key = k /\ user[t].active

\* login sets the session cookie of the account.
LoginChecked(t) ==
    /\ t \notin Agents /\ Selected(t, "login")
    /\ \E k \in Signups :
          /\ name[k] = name[t]
          /\ \/ /\ Verified(t, k) /\ Answer(t, "done")
                /\ jar' = [jar EXCEPT ![Browser[t]].session = [by |-> t, id |-> user[t].id]]
             \/ ~Verified(t, k) /\ Answer(t, "failed") /\ UNCHANGED jar
    /\ UNCHANGED <<name, user>>

\* agent_token makes the same checks; its token goes to the agent.
AgentToken(t) ==
    /\ t \in Agents /\ Selected(t, "login")
    /\ \E k \in Signups :
          name[k] = name[t] /\ Answer(t, IF Verified(t, k) THEN "done" ELSE "failed")
    /\ UNCHANGED <<name, user, jar>>

\* /auth/logout; a session older than its maximum age is ignored likewise.
Logout(b) ==
    /\ jar[b].session # NoSession
    /\ jar' = [jar EXCEPT ![b].session = NoSession]
    /\ UNCHANGED <<traffic, rows, disk, pc, name, user, queue, hop, at, crashes>>

-----------------------------------------------------------------------------
(***************************************************************************)
(* Enabling and disabling an account.                                       *)
(***************************************************************************)
SetUserActive(t) ==
    /\ Arrives(t) /\ Await(t, "update")
    /\ UNCHANGED <<traffic, rows, disk, name, user, hop, jar, at, crashes>>

UpdateActive(t) ==
    /\ AtHead(t) /\ pc[t] = "update"
    /\ \E i \in Ids \ {0}, flag \in BOOLEAN :
          \/ /\ \E u \in rows.users : u.id = i
             /\ rows' = [rows EXCEPT !.users =
                    {IF u.id = i THEN [u EXCEPT !.active = flag] ELSE u : u \in @}]
             /\ Await(t, "update_commit")
          \/ /\ ~\E u \in rows.users : u.id = i
             /\ Answer(t, "failed") /\ UNCHANGED rows
    /\ UNCHANGED <<traffic, disk, name, user, hop, jar, at, crashes>>

UpdateCommit(t) ==
    /\ AtHead(t) /\ pc[t] = "update_commit"
    /\ Commit(t) /\ Answer(t, "done")
    /\ UNCHANGED <<traffic, rows, name, user, hop, jar, at, crashes>>

-----------------------------------------------------------------------------
(***************************************************************************)
(* Single sign-on: oidc_login and oidc_callback.                            *)
(***************************************************************************)
\* The nonce t goes into the signed state and into the browser's cookie.
OidcLogin(t) ==
    /\ Arrives(t) /\ Answer(t, "away")
    /\ jar' = [jar EXCEPT ![Browser[t]].csrf = t]
    /\ UNCHANGED <<traffic, rows, disk, name, user, hop, at, crashes>>

\* Discovery of the provider failed: no redirect and no cookie.
OidcLoginFails(t) ==
    /\ Arrives(t) /\ Answer(t, "failed")
    /\ UNCHANGED <<traffic, rows, disk, name, user, hop, jar, at, crashes>>

ClearCsrf(b) == jar' = [jar EXCEPT ![b].csrf = NoOne]

\* Mutant: any nonce in the cookie will do.
CsrfUnchecked(t, b) == jar[b].csrf # NoOne
\* The callback arrives with the state of flow t, from any browser.
CsrfMatches(t, b) == jar[b].csrf = t

OidcCallback(t, b) ==
    /\ pc[t] = "away"
    /\ \/ CsrfMatches(t, b) /\ Answer(t, "exchange") /\ UNCHANGED jar
       \/ ~CsrfMatches(t, b) /\ Answer(t, "failed") /\ ClearCsrf(b)
    /\ at' = [at EXCEPT ![t] = b]
    /\ UNCHANGED <<traffic, rows, disk, name, user, hop, crashes>>

\* The provider reports an error, or the signed state is too old.
OidcRefused(t, b) ==
    /\ pc[t] = "away"
    /\ Answer(t, "failed") /\ ClearCsrf(b)
    /\ UNCHANGED <<traffic, rows, disk, name, user, hop, at, crashes>>

\* The code cannot be exchanged, or userinfo has no subject.
ExchangeFails(t) ==
    /\ pc[t] = "exchange"
    /\ Answer(t, "failed") /\ ClearCsrf(at[t])
    /\ UNCHANGED <<traffic, rows, disk, name, user, hop, at, crashes>>

Userinfo(t) ==
    /\ pc[t] = "exchange" /\ Await(t, "link")
    /\ UNCHANGED <<traffic, rows, disk, name, user, hop, jar, at, crashes>>

\* The end of oidc_callback: the session cookie is set, the nonce cleared.
Issue(t, u) ==
    /\ Answer(t, "done")
    /\ jar' = [jar EXCEPT ![at[t]] = [csrf |-> NoOne, session |-> [by |-> t, id |-> u.id]]]

\* _resolve_or_create: the linked account, or else the first candidate name.
Resolve(t) ==
    /\ Selected(t, "link") /\ UNCHANGED user
    /\ \/ user[t] # NoUser /\ Issue(t, user[t]) /\ UNCHANGED name
       \/ /\ user[t] = NoUser
          /\ name' = [name EXCEPT ![t] = <<Base[Subject[t]], 1>>]
          /\ Await(t, "exists") /\ UNCHANGED jar

\* create_external_user: the name must be free, before bcrypt and the INSERTs.
ExternalChecked(t) ==
    /\ Selected(t, "exists")
    /\ \/ user[t] # NoUser /\ Await(t, "relink")
       \/ user[t] = NoUser /\ Await(t, "insert")
    /\ UNCHANGED <<name, user, jar>>

\* Mutant: the IntegrityError of the first INSERT is swallowed.
InsertErrorIgnored(t) ==
    /\ AtHead(t) /\ pc[t] = "insert" /\ Await(t, "ins_link")
    /\ \/ Taken(name[t]) /\ UNCHANGED <<rows, user>>
       \/ ~Taken(name[t]) /\ InsertUser(t)
    /\ UNCHANGED <<traffic, disk, name, hop, jar, at, crashes>>
ExternalInsert(t) ==
    /\ AtHead(t) /\ pc[t] = "insert"
    /\ \/ Taken(name[t]) /\ Await(t, "rollback") /\ UNCHANGED <<rows, user>>
       \/ ~Taken(name[t]) /\ InsertUser(t) /\ Await(t, "ins_link")
    /\ UNCHANGED <<traffic, disk, name, hop, jar, at, crashes>>

Linked(s) == \E l \in rows.links : l.sub = s
\* Mutant: the link is never written.
LinkForgotten(t) ==
    /\ AtHead(t) /\ pc[t] = "ins_link" /\ Await(t, "commit")
    /\ UNCHANGED <<traffic, rows, disk, name, user, hop, jar, at, crashes>>
InsertLink(t) ==
    /\ AtHead(t) /\ pc[t] = "ins_link"
    /\ Await(t, IF Linked(Subject[t]) THEN "rollback" ELSE "commit")
    /\ rows' = IF Linked(Subject[t]) THEN rows
               ELSE [rows EXCEPT !.links = @ \cup {[sub |-> Subject[t], id |-> user[t].id]}]
    /\ UNCHANGED <<traffic, disk, name, user, hop, jar, at, crashes>>

ExternalRollback(t) ==
    /\ AtHead(t) /\ pc[t] = "rollback"
    /\ Rollback(t) /\ Await(t, "relink")
    /\ UNCHANGED <<traffic, disk, name, user, hop, jar, at, crashes>>

ExternalCommit(t) ==
    /\ AtHead(t) /\ pc[t] = "commit"
    /\ Commit(t) /\ Issue(t, user[t])
    /\ UNCHANGED <<traffic, rows, name, user, hop, at, crashes>>

\* After a clash: adopt an account linked meanwhile, or try the next name.
Adopt(t) ==
    /\ Selected(t, "relink") /\ UNCHANGED user
    /\ \/ user[t] # NoUser /\ Issue(t, user[t]) /\ UNCHANGED name
       \/ /\ user[t] = NoUser /\ name[t][2] < Tries
          /\ name' = [name EXCEPT ![t][2] = @ + 1]
          /\ Await(t, "exists") /\ UNCHANGED jar
       \/ /\ user[t] = NoUser /\ name[t][2] = Tries
          /\ Answer(t, "failed") /\ UNCHANGED <<name, jar>>

-----------------------------------------------------------------------------
\* The relay dies: uncommitted statements and requests in progress are lost.
\* Browsers keep their cookies, and a session outlives the process.
Crash ==
    /\ crashes < MaxCrashes /\ crashes' = crashes + 1
    /\ rows' = disk /\ queue' = <<>>
    /\ hop' = [t \in Requests |-> 0]
    /\ pc' = [t \in Requests |->
                 IF pc[t] \in {"idle", "away", "done", "failed"} THEN pc[t] ELSE "failed"]
    /\ UNCHANGED <<traffic, disk, name, user, jar, at>>

\* The accounts of the first k early sign-ups, called ann, ann-2, ...
EarlyUser(i) == [id |-> i, name |-> <<CHOOSE b \in Bases : TRUE, i>>,
                 key |-> Early[i], active |-> TRUE]
EarlyTables(k) == [users |-> {EarlyUser(i) : i \in 1..k}, links |-> {}, seq |-> k]
IsEarly(t, k) == \E i \in 1..k : Early[i] = t

Init ==
    /\ traffic \in Traffic
    /\ \E k \in 0..Len(Early) :
          /\ \A t \in traffic : ~IsEarly(t, k)
          /\ rows = EarlyTables(k) /\ disk = EarlyTables(k)
          /\ pc = [t \in Requests |-> IF IsEarly(t, k) THEN "done" ELSE "idle"]
          /\ user = [t \in Requests |->
                 OneOf({EarlyUser(i) : i \in {i \in 1..k : Early[i] = t}})]
          /\ name = [t \in Requests |-> IF IsEarly(t, k) THEN user[t].name
                                        ELSE <<CHOOSE b \in Bases : TRUE, 1>>]
    /\ queue = <<>>
    /\ hop = [t \in Requests |-> 0]
    /\ jar = [b \in Browsers |-> [csrf |-> NoOne, session |-> NoSession]]
    /\ at = [t \in Flows |-> Browser[t]]
    /\ crashes = 0

Worker(t) == Execute(t) \/ Fetch(t)
SignupNext(t) == Signup(t) \/ WeakPassword(t) \/ SignupChecked(t) \/ SignupInsert(t) \/ SignupCommit(t)
LoginNext(t) == Login(t) \/ LoginChecked(t) \/ AgentToken(t)
AdminNext(t) == SetUserActive(t) \/ UpdateActive(t) \/ UpdateCommit(t)
FlowNext(t) ==
    \/ OidcLogin(t) \/ OidcLoginFails(t) \/ (\E b \in Browsers : OidcCallback(t, b) \/ OidcRefused(t, b))
    \/ ExchangeFails(t) \/ Userinfo(t) \/ Resolve(t) \/ ExternalChecked(t) \/ ExternalInsert(t)
    \/ InsertLink(t) \/ ExternalRollback(t) \/ ExternalCommit(t) \/ Adopt(t)

Next ==
    \/ \E t \in Requests : Worker(t)
    \/ \E t \in Signups : SignupNext(t)
    \/ \E t \in Logins : LoginNext(t)
    \/ \E t \in Admins : AdminNext(t)
    \/ \E t \in Flows : FlowNext(t)
    \/ \E b \in Browsers : Logout(b)
    \/ Crash

Spec == Init /\ [][Next]_vars

-----------------------------------------------------------------------------
(***************************************************************************)
(* Properties.                                                              *)
(***************************************************************************)
\* Every variable has its type; a request waits in the queue at most once.
TypeOK ==
    /\ traffic \in Traffic /\ crashes \in 0..MaxCrashes
    /\ rows \in Tables /\ disk \in Tables
    /\ pc \in [Requests -> Places] /\ name \in [Requests -> Names]
    /\ user \in [Requests -> User \cup {NoUser}]
    /\ queue \in Seq(Requests) /\ hop \in [Requests -> 0..2]
    /\ \A i, j \in DOMAIN queue : queue[i] = queue[j] => i = j
    /\ at \in [Flows -> Browsers]
    /\ jar \in [Browsers -> [csrf : Flows \cup {NoOne}, session : Session \cup {NoSession}]]

MadeFor(u, s) == u.key \in Flows /\ Subject[u.key] = s

\* create_external_user, users and external_identities: a committed link of a
\* (provider, subject) leads to a committed account that was made for that
\* subject, whatever was rolled back, half committed or lost in a crash.
LinkHasAccount ==
    \A l \in disk.links : \E u \in disk.users : u.id = l.id /\ MadeFor(u, l.sub)

\* The tables are well formed, and so is what a crash leaves of them.
AccountsSound == TypeOK /\ LinkHasAccount

\* create_user: an account reported to the person who signed up is on disk,
\* though a failing single sign-on may roll the shared transaction back.
SignupDurable ==
    \A t \in Signups : pc[t] = "done" =>
        \E u \in disk.users : u.id = user[t].id /\ u.key = t

\* oidc_callback: two sessions of one subject name the same account, also when
\* both are a first login and run at the same time.
SessionsAgree ==
    \A b, c \in Browsers :
        LET s == jar[b].session  r == jar[c].session IN
        (s.by \in Flows /\ r.by \in Flows /\ Subject[s.by] = Subject[r.by]) => s.id = r.id

\* _resolve_or_create, "A new SSO subject gets a new local account": the account
\* that a single sign-on session names was not made for anybody else.  No run
\* checks it: two people of one user name refute it (MCSignIn!TwoSignOns).
OwnAccount ==
    \A b \in Browsers : jar[b].session.by \in Flows =>
        \A u \in rows.users : u.id = jar[b].session.id => MadeFor(u, Subject[jar[b].session.by])

\* oidc_callback, the CSRF cookie: a session lands only in the browser that
\* began the flow, wherever the callback is opened.
OwnBrowser ==
    \A b \in Browsers : jar[b].session # NoSession => Browser[jar[b].session.by] = b
=============================================================================
