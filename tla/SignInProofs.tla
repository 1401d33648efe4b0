---------------------------- MODULE SignInProofs ----------------------------
(***************************************************************************)
(* Theorems about SignIn, for every value of its constants.  What the shared *)
(* transaction can break depends on who is there at once, so most of them   *)
(* name the traffic for which they hold.                                    *)
(***************************************************************************)
EXTENDS SignIn, FiniteSetTheorems, SequenceTheorems, TLAPS

(***************************************************************************)
(* The parts of the inductive invariant.                                    *)
(***************************************************************************)
Busy == Selects \cup {"insert", "ins_link", "commit", "rollback", "create", "create_commit",
                      "update", "update_commit"}
InQueue(t) == \E i \in DOMAIN queue : queue[i] = t
Before(t, r) == \E i, j \in DOMAIN queue : i < j /\ queue[i] = t /\ queue[j] = r
\* The table holds request k's account with id i.
Holds(table, i, k) == \E u \in table.users : u.id = i /\ u.key = k
Within(old, new) == \A u \in old.users : \E v \in new.users : v.id = u.id /\ v.key = u.key /\ v.name = u.name

\* Exactly the requests that await the database are in its queue, once.
QueueInv ==
    /\ \A i, j \in DOMAIN queue : queue[i] = queue[j] => i = j
    /\ \A t \in Requests : pc[t] \in Busy <=> InQueue(t)

\* A request is at a place of its own handler; only those that arrived move.
PlaceOf(t) ==
    /\ t \in Flows => pc[t] \in {"idle", "away", "exchange", "link", "relink", "exists", "insert",
                                 "ins_link", "commit", "rollback", "done", "failed"}
    /\ t \in Signups => pc[t] \in {"idle", "taken", "create", "create_commit", "done", "failed"}
    /\ t \in Logins => pc[t] \in {"idle", "login", "done", "failed"}
    /\ t \in Admins => pc[t] \in {"idle", "update", "update_commit", "done", "failed"}
    /\ hop[t] # 0 => pc[t] \in Selects
    /\ t \notin traffic => pc[t] = "idle" \/ (t \in Signups /\ pc[t] = "done")
PlaceInv == \A t \in Requests : PlaceOf(t)

\* Ids are unique and below the counter; what is committed is also there now.
TableInv ==
    /\ \A u \in rows.users : u.id \in 1..rows.seq
    /\ \A u \in disk.users : u.id \in 1..disk.seq
    /\ \A u, v \in rows.users : u.id = v.id => u = v
    /\ \A u, v \in disk.users : u.id = v.id => u = v
    /\ Within(disk, rows)
    /\ disk.links \subseteq rows.links /\ disk.seq <= rows.seq
    \* An account of somebody who signed up is committed, or about to be.
    /\ \A u \in rows.users : u.key \in Signups =>
          \/ Holds(disk, u.id, u.key)
          \/ pc[u.key] = "create_commit" /\ user[u.key].id = u.id

\* Each sign-up, and each name of a flow, has taken at most one id.
SpentSignups == {t \in Signups : pc[t] \notin {"idle", "taken", "create"}}
SpentNames == {p \in Flows \X (1..Tries) :
    \/ p[2] < name[p[1]][2]
    \/ p[2] = name[p[1]][2]
       /\ pc[p[1]] \in {"ins_link", "commit", "rollback", "relink", "done", "failed"}}
CountInv ==
    /\ rows.seq <= Cardinality(SpentSignups) + Cardinality(SpentNames)
    /\ \A t \in Flows : pc[t] \in {"idle", "away", "exchange", "link"} => name[t][2] = 1

\* The nonce binds a flow to the browser it began in.
BrowserInv ==
    /\ \A b \in Browsers : jar[b].csrf # NoOne => Browser[jar[b].csrf] = b
    /\ \A t \in Flows : pc[t] \notin {"idle", "away", "done", "failed"} => at[t] = Browser[t]
    /\ OwnBrowser

-----------------------------------------------------------------------------
(***************************************************************************)
(* The traffic under which the tables stay sound.                           *)
(***************************************************************************)
OneFlow == \A f, g \in traffic \cap Flows : f = g
OneSignup == \A s, t \in traffic \cap Signups : s = t
NoFlow == traffic \cap Flows = {}
NoSignup == traffic \cap Signups = {}
OneSubject(T) == \A f, g \in T \cap Flows : Subject[f] = Subject[g]
TwoFlows == \A f, g, h \in traffic \cap Flows : f = g \/ g = h \/ f = h
\* At most two sign-ins of one person, and nobody signs up.
Couple == TwoFlows /\ OneSubject(traffic) /\ NoSignup
\* No single sign-on can roll a sign-up back.
Unrivalled == NoSignup \/ NoFlow \/ (OneFlow /\ OneSignup)

\* A flow found its name free, and has not inserted it yet.
FoundFree(f) ==
    \/ pc[f] = "exists" /\ hop[f] > 0 /\ user[f] = NoUser
    \/ pc[f] = "insert"
\* With one flow and one sign-up, only that sign-up's account can clash.
RivalInv ==
    OneFlow /\ OneSignup =>
        \A f \in traffic \cap Flows :
            /\ (FoundFree(f) /\ Taken(name[f])) \/ pc[f] = "rollback" =>
                  \E s \in traffic \cap Signups : pc[s] \in {"create_commit", "done"}
            /\ \A s \in traffic \cap Signups :
                  pc[f] = "rollback" /\ pc[s] = "create_commit" => Before(s, f)
SignupInv ==
    Unrivalled =>
        /\ \A t \in Signups :
              /\ pc[t] = "create_commit" => Holds(rows, user[t].id, t)
              /\ pc[t] = "done" => Holds(disk, user[t].id, t)
        /\ \A t \in Logins :
              pc[t] = "login" /\ hop[t] > 0 /\ user[t] # NoUser /\ user[t].key \in Signups =>
                  \/ Holds(disk, user[t].id, user[t].key)
                  \/ /\ hop[t] = 1 /\ pc[user[t].key] = "create_commit"
                     /\ user[user[t].key].id = user[t].id /\ Before(user[t].key, t)
        /\ \A b \in Browsers : jar[b].session.by \in Logins =>
              \E k \in Signups : Holds(disk, jar[b].session.id, k)

\* Of two sign-ins of one person at most one rolls back, and only after the
\* other has written what it is going to.
CoupleInv ==
    Couple =>
        /\ rows.links # {} => \E f \in traffic \cap Flows : pc[f] \in {"commit", "done", "failed"}
        /\ \A f, g \in traffic \cap Flows : f # g =>
              /\ (FoundFree(f) /\ Taken(name[f])) \/ pc[f] = "rollback" =>
                    pc[g] \in {"ins_link", "commit", "done", "failed"}
              /\ pc[f] = "rollback" /\ pc[g] = "ins_link" => Before(g, f)
\* A link leads to its account, and one about to be written has its account.
LinksHold(table) == \A l \in table.links : \E u \in table.users : u.id = l.id /\ MadeFor(u, l.sub)
LinkInv ==
    OneFlow \/ Couple =>
        /\ \A f \in Flows : pc[f] = "ins_link" => Holds(rows, user[f].id, f)
        /\ LinksHold(rows) /\ LinksHold(disk)

\* With one flow, the account it signed in to is its own, and committed.
OneFlowInv ==
    OneFlow =>
        \A f \in traffic \cap Flows :
            /\ rows.links # {} => pc[f] \in {"commit", "done", "failed"}
            /\ pc[f] \in {"link", "relink"} /\ hop[f] > 0 => user[f] = NoUser
            /\ pc[f] = "commit" => Holds(rows, user[f].id, f)
            /\ \A b \in Browsers : jar[b].session.by = f => Holds(disk, jar[b].session.id, f)
SessionTraffic == \A b \in Browsers : jar[b].session # NoSession => jar[b].session.by \in traffic

\* Two sign-ins of one person get the id after k, the last one before them.
NoAdmin == traffic \cap Admins = {}
AgreeInv(k) ==
    /\ \A l \in rows.links : l.id = k + 1 /\ \E f \in traffic \cap Flows : l.sub = Subject[f]
    /\ disk.links = {} => disk.seq = k
    /\ rows.links = {} =>
          \/ rows.seq = k /\ \A f \in Flows : pc[f] # "ins_link"
          \/ \E f \in traffic \cap Flows :
                /\ pc[f] = "ins_link" /\ user[f].id = k + 1
                /\ \A g \in Flows \ {f} : pc[g] = "ins_link" => Before(f, g)
    /\ \A f \in Flows :
          /\ pc[f] = "commit" => user[f].id = k + 1
          /\ pc[f] \in {"link", "relink"} /\ hop[f] > 0 /\ user[f] # NoUser => user[f].id = k + 1
          /\ pc[f] = "commit" /\ rows.links = {} =>
                /\ rows.seq = k
                /\ \A g \in (traffic \cap Flows) \ {f} : pc[g] = "relink" /\ hop[g] = 0 /\ Before(f, g)
    /\ \A b \in Browsers : jar[b].session.by \in Flows => jar[b].session.id = k + 1
CoupleAgrees == Couple /\ NoAdmin => \E k \in Nat : AgreeInv(k)
-----------------------------------------------------------------------------
(***************************************************************************)
(* The queue.                                                               *)
(***************************************************************************)
\* What a step of t does to the queue: the others keep their order, and t, if
\* it waits again, is behind them.
Shifts(t) ==
    /\ \A x, y \in Requests \ {t} : Before(x, y) => Before(x, y)'
    /\ \A x \in Requests \ {t} : pc'[x] = pc[x]
    /\ \A x \in Requests \ {t} : pc[x] \in Busy /\ pc'[t] \in Busy => Before(x, t)'
Moves(t, p) ==
    /\ AtHead(t) \/ pc[t] \notin Busy
    /\ (Await(t, p) /\ p \in Busy) \/ (Answer(t, p) /\ p \notin Busy)
Types ==
    /\ pc \in [Requests -> Places] /\ name \in [Requests -> Names]
    /\ queue \in Seq(Requests) /\ hop \in [Requests -> 0..2]

LEMMA Moved ==
  ASSUME NEW t, NEW p, Await(t, p) \/ Answer(t, p)
  PROVE  pc' = [pc EXCEPT ![t] = p]
BY DEF Await, Answer

\* The head of the queue waits, and nobody is before it.
LEMMA HeadFirst ==
  ASSUME Types, QueueInv, NEW t \in Requests, AtHead(t)
  PROVE  pc[t] \in Busy /\ \A x : ~Before(x, t)
<1>1. queue # <<>> /\ queue[1] = t /\ 1 \in DOMAIN queue /\ DOMAIN queue = 1..Len(queue) /\ Len(queue) \in Nat
  BY HeadTailProperties DEF AtHead, Types
<1>2. InQueue(t)
  BY <1>1 DEF InQueue
<1> QED BY <1>1, <1>2 DEF QueueInv, Before

LEMMA Dequeued ==
  ASSUME NEW q \in Seq(Requests), q # <<>>
  PROVE  /\ Tail(q) \in Seq(Requests) /\ Len(Tail(q)) = Len(q) - 1 /\ Len(q) \in Nat \ {0}
         /\ q[1] = Head(q)
         /\ \A i \in 1..(Len(q) - 1) : Tail(q)[i] = q[i + 1]
BY HeadTailProperties, EmptySeq

LEMMA Rest ==
  ASSUME Types, QueueInv, NEW t \in Requests, AtHead(t) \/ pc[t] \notin Busy
  PROVE  LET q == IF AtHead(t) THEN Tail(queue) ELSE queue IN
         /\ q \in Seq(Requests)
         /\ \A i, j \in 1..Len(q) : q[i] = q[j] => i = j
         /\ \A i \in 1..Len(q) : q[i] # t
         /\ \A x \in Requests \ {t} : InQueue(x) <=> \E i \in 1..Len(q) : q[i] = x
         /\ \A x, y \in Requests \ {t} : Before(x, y) =>
               \E i, j \in 1..Len(q) : i < j /\ q[i] = x /\ q[j] = y
<1>0. queue \in Seq(Requests) /\ Len(queue) \in Nat /\ DOMAIN queue = 1..Len(queue)
  BY LenProperties DEF Types
<1>1. CASE AtHead(t)
  <2>1. /\ Tail(queue) \in Seq(Requests) /\ Len(Tail(queue)) = Len(queue) - 1 /\ Len(queue) \in Nat \ {0}
        /\ queue[1] = t
        /\ \A i \in 1..(Len(queue) - 1) : Tail(queue)[i] = queue[i + 1]
    BY <1>0, <1>1, Dequeued DEF AtHead
  <2>2. \A i, j \in 1..Len(queue) : queue[i] = queue[j] => i = j
    BY <1>0 DEF QueueInv
  <2> DEFINE q == Tail(queue)
  <2>3. \A i, j \in 1..Len(q) : q[i] = q[j] => i = j
    <3> SUFFICES ASSUME NEW i \in 1..Len(q), NEW j \in 1..Len(q), q[i] = q[j] PROVE i = j
      OBVIOUS
    <3>1. q[i] = queue[i + 1] /\ q[j] = queue[j + 1] /\ i + 1 \in 1..Len(queue) /\ j + 1 \in 1..Len(queue)
      BY <2>1
    <3>2. i + 1 = j + 1
      BY <2>2, <3>1
    <3> QED BY <3>2, <2>1
  <2>4. \A i \in 1..Len(q) : q[i] # t
    BY <2>1, <2>2
  <2>5. \A i \in 1..Len(queue) : queue[i] # t => i - 1 \in 1..Len(q) /\ q[i - 1] = queue[i]
    BY <2>1
  <2>6. ASSUME NEW x \in Requests \ {t}
        PROVE  InQueue(x) <=> \E i \in 1..Len(q) : q[i] = x
    <3>1. ASSUME InQueue(x) PROVE \E i \in 1..Len(q) : q[i] = x
      <4>1. PICK i \in 1..Len(queue) : queue[i] = x
        BY <1>0, <3>1 DEF InQueue
      <4> QED BY <4>1, <2>5
    <3>2. ASSUME NEW i \in 1..Len(q), q[i] = x PROVE InQueue(x)
      BY <1>0, <2>1, <3>2 DEF InQueue
    <3> QED BY <3>1, <3>2
  <2>7. ASSUME NEW x \in Requests \ {t}, NEW y \in Requests \ {t}, Before(x, y)
        PROVE  \E i, j \in 1..Len(q) : i < j /\ q[i] = x /\ q[j] = y
    <3>1. PICK i \in 1..Len(queue), j \in 1..Len(queue) : i < j /\ queue[i] = x /\ queue[j] = y
      BY <1>0, <2>7 DEF Before
    <3>2. /\ i - 1 \in 1..Len(q) /\ q[i - 1] = x
          /\ j - 1 \in 1..Len(q) /\ q[j - 1] = y /\ i - 1 < j - 1
      BY <2>5, <3>1
    <3> QED BY <3>2
  <2> QED BY <1>1, <2>1, <2>3, <2>4, <2>6, <2>7
<1>2. CASE ~AtHead(t)
  <2>1. ~InQueue(t)
    BY <1>2 DEF QueueInv
  <2> QED BY <1>0, <1>2, <2>1 DEF InQueue, Before, QueueInv
<1> QED BY <1>1, <1>2

\* A step of one request keeps the queue in order.
LEMMA QueueStep ==
  ASSUME Types, QueueInv, NEW t \in Requests, NEW p \in Places, Moves(t, p)
  PROVE  QueueInv' /\ queue' \in Seq(Requests) /\ pc' = [pc EXCEPT ![t] = p] /\ Shifts(t)
<1> DEFINE q == IF AtHead(t) THEN Tail(queue) ELSE queue
<1>1. /\ q \in Seq(Requests)
      /\ \A i, j \in 1..Len(q) : q[i] = q[j] => i = j
      /\ \A i \in 1..Len(q) : q[i] # t
      /\ \A x \in Requests \ {t} : InQueue(x) <=> \E i \in 1..Len(q) : q[i] = x
      /\ \A x, y \in Requests \ {t} : Before(x, y) =>
            \E i, j \in 1..Len(q) : i < j /\ q[i] = x /\ q[j] = y
  BY Rest DEF Moves
<1>2. pc' = [pc EXCEPT ![t] = p]
  BY Moved DEF Moves
<1>3. \/ p \in Busy /\ queue' = Append(q, t)
      \/ p \notin Busy /\ queue' = q
  BY DEF Moves, Await, Answer
<1> HIDE DEF q
<1>4. pc'[t] = p /\ \A x \in Requests \ {t} : pc'[x] = pc[x]
  BY <1>2 DEF Types
<1>5. Len(q) \in Nat
  BY <1>1, LenProperties
<1>6. CASE p \in Busy
  <2>1. /\ queue' \in Seq(Requests) /\ Len(queue') = Len(q) + 1 /\ DOMAIN queue' = 1..(Len(q) + 1)
        /\ \A i \in 1..Len(q) : queue'[i] = q[i]
        /\ queue'[Len(q) + 1] = t
    BY <1>1, <1>3, <1>6, AppendProperties, LenProperties
  <2>2. \A x \in Requests : pc'[x] \in Busy <=> InQueue(x)'
    <3>1. InQueue(t)'
      BY <1>5, <2>1 DEF InQueue
    <3>2. ASSUME NEW x \in Requests \ {t} PROVE InQueue(x)' <=> InQueue(x)
      BY <1>1, <1>5, <2>1 DEF InQueue
    <3> QED BY <1>4, <1>6, <3>1, <3>2 DEF QueueInv
  <2>3. \A i, j \in DOMAIN queue' : queue'[i] = queue'[j] => i = j
    BY <1>1, <1>5, <2>1
  <2>4. ASSUME NEW x \in Requests \ {t}, NEW y \in Requests \ {t}, Before(x, y) PROVE Before(x, y)'
    <3>1. PICK i \in 1..Len(q), j \in 1..Len(q) : i < j /\ q[i] = x /\ q[j] = y
      BY <1>1, <2>4
    <3>2. i \in DOMAIN queue' /\ j \in DOMAIN queue' /\ queue'[i] = x /\ queue'[j] = y
      BY <1>5, <2>1, <3>1
    <3> QED BY <3>1, <3>2 DEF Before
  <2>5. ASSUME NEW x \in Requests \ {t}, pc[x] \in Busy PROVE Before(x, t)'
    <3>1. PICK i \in 1..Len(q) : q[i] = x
      BY <1>1, <2>5 DEF QueueInv
    <3>2. i \in DOMAIN queue' /\ Len(q) + 1 \in DOMAIN queue' /\ i < Len(q) + 1 /\ queue'[i] = x
      BY <1>5, <2>1, <3>1
    <3> QED BY <2>1, <3>2 DEF Before
  <2> QED BY <1>2, <1>4, <2>1, <2>2, <2>3, <2>4, <2>5 DEF QueueInv, Shifts
<1>7. CASE p \notin Busy
  <2>1. queue' = q /\ DOMAIN queue' = 1..Len(q)
    BY <1>1, <1>3, <1>7, LenProperties
  <2>2. \A x \in Requests : pc'[x] \in Busy <=> InQueue(x)'
    BY <1>1, <1>4, <1>7, <2>1 DEF InQueue, QueueInv
  <2>3. \A x, y \in Requests \ {t} : Before(x, y) => Before(x, y)'
    BY <1>1, <2>1 DEF Before
  <2>4. pc'[t] \notin Busy
    BY <1>4, <1>7 DEF Types
  <2> QED BY <1>1, <1>2, <1>4, <2>1, <2>2, <2>3, <2>4 DEF QueueInv, Shifts
<1> QED BY <1>6, <1>7

-----------------------------------------------------------------------------
(***************************************************************************)
(* Steps.                                                                   *)
(***************************************************************************)
Step(t) ==
    \/ Worker(t)
    \/ t \in Signups /\ SignupNext(t)
    \/ t \in Logins /\ LoginNext(t)
    \/ t \in Admins /\ AdminNext(t)
    \/ t \in Flows /\ FlowNext(t)
AnyStep == (\E t \in Requests : Step(t)) \/ (\E b \in Browsers : Logout(b)) \/ Crash \/ UNCHANGED vars

LEMMA NextSteps == [Next]_vars => AnyStep
BY DEF Next, AnyStep, Step, Requests

LEMMA StepMoves ==
  ASSUME Types, QueueInv, PlaceInv, NEW t \in Requests, Step(t)
  PROVE  \E p \in Places : Moves(t, p)
<1>1. CASE Execute(t)
  BY <1>1 DEF Execute, Moves, Types, PlaceInv, PlaceOf, Busy, Places
<1>2. CASE Fetch(t)
  BY <1>2 DEF Fetch, Moves, Types, PlaceInv, PlaceOf, Busy, Places
<1>3. CASE t \in Signups /\ Signup(t)
  BY <1>3 DEF Signup, Arrives, Moves, Busy, Selects, Places
<1>4. CASE t \in Signups /\ WeakPassword(t)
  BY <1>4 DEF WeakPassword, Arrives, Moves, Busy, Selects, Places
<1>5. CASE t \in Signups /\ SignupChecked(t)
  BY <1>5 DEF SignupChecked, Selected, Moves, Busy, Selects, Places
<1>6. CASE t \in Signups /\ SignupInsert(t)
  BY <1>6 DEF SignupInsert, Moves, Busy, Selects, Places
<1>7. CASE t \in Signups /\ SignupCommit(t)
  BY <1>7 DEF SignupCommit, Moves, Busy, Selects, Places
<1>8. CASE t \in Logins /\ Login(t)
  BY <1>8 DEF Login, Arrives, Moves, Busy, Selects, Places
<1>9. CASE t \in Logins /\ LoginChecked(t)
  BY <1>9 DEF LoginChecked, Selected, Moves, Busy, Selects, Places
<1>10. CASE t \in Logins /\ AgentToken(t)
  BY <1>10 DEF AgentToken, Selected, Moves, Busy, Selects, Places
<1>11. CASE t \in Admins /\ SetUserActive(t)
  BY <1>11 DEF SetUserActive, Arrives, Moves, Busy, Selects, Places
<1>12. CASE t \in Admins /\ UpdateActive(t)
  BY <1>12 DEF UpdateActive, Moves, Busy, Selects, Places
<1>13. CASE t \in Admins /\ UpdateCommit(t)
  BY <1>13 DEF UpdateCommit, Moves, Busy, Selects, Places
<1>14. CASE t \in Flows /\ OidcLogin(t)
  BY <1>14 DEF OidcLogin, Arrives, Moves, Busy, Selects, Places
<1>15. CASE t \in Flows /\ OidcLoginFails(t)
  BY <1>15 DEF OidcLoginFails, Arrives, Moves, Busy, Selects, Places
<1>16. CASE t \in Flows /\ (\E b \in Browsers : OidcCallback(t, b))
  BY <1>16 DEF OidcCallback, Moves, Busy, Selects, Places
<1>17. CASE t \in Flows /\ (\E b \in Browsers : OidcRefused(t, b))
  BY <1>17 DEF OidcRefused, Moves, Busy, Selects, Places
<1>18. CASE t \in Flows /\ ExchangeFails(t)
  BY <1>18 DEF ExchangeFails, Moves, Busy, Selects, Places
<1>19. CASE t \in Flows /\ Userinfo(t)
  BY <1>19 DEF Userinfo, Moves, Busy, Selects, Places
<1>20. CASE t \in Flows /\ Resolve(t)
  BY <1>20 DEF Resolve, Selected, Issue, Moves, Busy, Selects, Places
<1>21. CASE t \in Flows /\ ExternalChecked(t)
  BY <1>21 DEF ExternalChecked, Selected, Moves, Busy, Selects, Places
<1>22. CASE t \in Flows /\ ExternalInsert(t)
  BY <1>22 DEF ExternalInsert, Moves, Busy, Selects, Places
<1>23. CASE t \in Flows /\ InsertLink(t)
  BY <1>23 DEF InsertLink, Moves, Busy, Selects, Places
<1>24. CASE t \in Flows /\ ExternalRollback(t)
  BY <1>24 DEF ExternalRollback, Moves, Busy, Selects, Places
<1>25. CASE t \in Flows /\ ExternalCommit(t)
  BY <1>25 DEF ExternalCommit, Issue, Moves, Busy, Selects, Places
<1>26. CASE t \in Flows /\ Adopt(t)
  BY <1>26 DEF Adopt, Selected, Issue, Moves, Busy, Selects, Places
<1> QED BY <1>1, <1>2, <1>3, <1>4, <1>5, <1>6, <1>7, <1>8, <1>9, <1>10, <1>11, <1>12, <1>13, <1>14, <1>15, <1>16, <1>17, <1>18, <1>19, <1>20, <1>21, <1>22, <1>23, <1>24, <1>25, <1>26
  DEF Step, Worker, SignupNext, LoginNext, AdminNext, FlowNext

\* What every step needs to know of the queue.
LEMMA StepQueue ==
  ASSUME Types, QueueInv, PlaceInv, NEW t \in Requests, Step(t)
  PROVE  QueueInv' /\ queue' \in Seq(Requests) /\ pc' \in [Requests -> Places] /\ Shifts(t)
<1>1. PICK p \in Places : Moves(t, p)
  BY StepMoves
<1>2. QueueInv' /\ queue' \in Seq(Requests) /\ pc' = [pc EXCEPT ![t] = p] /\ Shifts(t)
  BY <1>1, QueueStep
<1> QED BY <1>2 DEF Types

-----------------------------------------------------------------------------
(***************************************************************************)
(* Ids.                                                                     *)
(***************************************************************************)
LEMMA SpentSize ==
  ASSUME NEW S \in SUBSET Signups, NEW N \in SUBSET (Flows \X (1..Tries))
  PROVE  /\ IsFiniteSet(S) /\ IsFiniteSet(N) /\ Cardinality(S) \in Nat /\ Cardinality(N) \in Nat
         /\ Cardinality(S) + Cardinality(N) <= MaxId /\ MaxId \in Nat
<1>1. IsFiniteSet(Signups) /\ IsFiniteSet(Flows) /\ Tries \in Nat
  BY SignInAssumption
<1>2. /\ IsFiniteSet(S) /\ Cardinality(S) <= Cardinality(Signups)
      /\ Cardinality(S) \in Nat /\ Cardinality(Signups) \in Nat
  BY <1>1, FS_Subset, FS_CardinalityType
<1>3. IsFiniteSet(1..Tries) /\ Cardinality(1..Tries) = Tries
  BY <1>1, FS_Interval
<1>4. /\ IsFiniteSet(Flows \X (1..Tries))
      /\ Cardinality(Flows \X (1..Tries)) = Cardinality(Flows) * Tries
  BY <1>1, <1>3, FS_Product
<1>5. /\ IsFiniteSet(N) /\ Cardinality(N) <= Cardinality(Flows \X (1..Tries))
      /\ Cardinality(N) \in Nat /\ Cardinality(Flows \X (1..Tries)) \in Nat
  BY <1>4, FS_Subset, FS_CardinalityType
<1> QED BY <1>2, <1>4, <1>5 DEF MaxId

LEMMA SpentSets ==
  /\ SpentSignups \in SUBSET Signups /\ SpentNames \in SUBSET (Flows \X (1..Tries))
  /\ SpentSignups' \in SUBSET Signups /\ SpentNames' \in SUBSET (Flows \X (1..Tries))
BY DEF SpentSignups, SpentNames

\* What has been spent stays spent.
Grow == SpentSignups \subseteq SpentSignups' /\ SpentNames \subseteq SpentNames'

LEMMA SpentMore ==
  ASSUME Grow, rows.seq \in Nat, rows.seq <= Cardinality(SpentSignups) + Cardinality(SpentNames)
  PROVE  /\ rows.seq <= Cardinality(SpentSignups') + Cardinality(SpentNames')
         /\ SpentSignups # SpentSignups' \/ SpentNames # SpentNames' =>
               rows.seq + 1 <= Cardinality(SpentSignups') + Cardinality(SpentNames')
<1>1. /\ IsFiniteSet(SpentSignups') /\ IsFiniteSet(SpentNames')
      /\ Cardinality(SpentSignups') \in Nat /\ Cardinality(SpentNames') \in Nat
  BY SpentSets, SpentSize
<1>2. /\ Cardinality(SpentSignups) \in Nat /\ Cardinality(SpentNames) \in Nat
      /\ Cardinality(SpentSignups) <= Cardinality(SpentSignups')
      /\ Cardinality(SpentNames) <= Cardinality(SpentNames')
      /\ SpentSignups # SpentSignups' => Cardinality(SpentSignups) < Cardinality(SpentSignups')
      /\ SpentNames # SpentNames' => Cardinality(SpentNames) < Cardinality(SpentNames')
  BY <1>1, SpentSets, SpentSize, FS_Subset DEF Grow
<1> QED BY <1>1, <1>2

\* A step that leaves the flows' names, and moves no flow back, spends no less.
LEMMA GrowsIf ==
  ASSUME \A t \in Signups : pc[t] \notin {"idle", "taken", "create"} =>
            pc'[t] \notin {"idle", "taken", "create"},
         \A t \in Flows : /\ name[t][2] \in Nat /\ name'[t][2] \in Nat
                          /\ \/ name'[t][2] > name[t][2]
                             \/ /\ name'[t][2] = name[t][2]
                                /\ pc[t] \in {"ins_link", "commit", "rollback", "relink", "done", "failed"} =>
                                      pc'[t] \in {"ins_link", "commit", "rollback", "relink", "done", "failed"}
  PROVE  Grow
<1>1. SpentSignups \subseteq SpentSignups'
  BY DEF SpentSignups
<1>2. ASSUME NEW p \in SpentNames PROVE p \in SpentNames'
  <2>1. p \in Flows \X (1..Tries) /\ p[1] \in Flows /\ p[2] \in Nat
    BY SignInAssumption DEF SpentNames
  <2>2. CASE p[2] < name[p[1]][2]
    BY <2>1, <2>2 DEF SpentNames
  <2>3. CASE p[2] = name[p[1]][2] /\ pc[p[1]] \in {"ins_link", "commit", "rollback", "relink", "done", "failed"}
    BY <2>1, <2>3 DEF SpentNames
  <2> QED BY <2>2, <2>3 DEF SpentNames
<1> QED BY <1>1, <1>2 DEF Grow

LEMMA NameType ==
  ASSUME name \in [Requests -> Names]
  PROVE  \A t \in Requests : name[t] = <<name[t][1], name[t][2]>> /\ name[t][1] \in Bases
                             /\ name[t][2] \in 1..Tries /\ name[t][2] \in Nat
<1> SUFFICES ASSUME NEW t \in Requests
             PROVE name[t] = <<name[t][1], name[t][2]>> /\ name[t][1] \in Bases
                             /\ name[t][2] \in 1..Tries /\ name[t][2] \in Nat
  OBVIOUS
<1>1. name[t] \in Bases \X (1..Tries)
  BY DEF Names
<1> QED BY <1>1, SignInAssumption

\* The name of a request changes when it picks one.
LEMMA NameStep ==
  ASSUME Types, PlaceInv, NEW t \in Requests, Step(t)
  PROVE  name' \in [Requests -> Names] /\ \A x \in Requests \ {t} : name'[x] = name[x]
<1>1. CASE t \in Signups /\ Signup(t)
  BY <1>1, SignInAssumption DEF Signup, Types
<1>2. CASE t \in Logins /\ Login(t)
  <2>1. PICK k \in Signups : name' = [name EXCEPT ![t] = name[k]]
    BY <1>2 DEF Login
  <2> QED BY <2>1 DEF Types, Requests
<1>3. CASE t \in Flows /\ Resolve(t)
  <2>1. <<Base[Subject[t]], 1>> \in Names
    BY <1>3, SignInAssumption DEF Names
  <2>2. UNCHANGED name \/ name' = [name EXCEPT ![t] = <<Base[Subject[t]], 1>>]
    BY <1>3 DEF Resolve
  <2> QED BY <2>1, <2>2 DEF Types
<1>4. CASE t \in Flows /\ Adopt(t)
  <2>1. \/ UNCHANGED name
        \/ name[t][2] < Tries /\ name' = [name EXCEPT ![t] = [name[t] EXCEPT ![2] = name[t][2] + 1]]
    BY <1>4 DEF Adopt
  <2>2. name[t] = <<name[t][1], name[t][2]>> /\ name[t][1] \in Bases /\ name[t][2] \in 1..Tries
    BY NameType DEF Types
  <2>3. [name[t] EXCEPT ![2] = name[t][2] + 1] = <<name[t][1], name[t][2] + 1>>
    BY <2>2
  <2>4. name[t][2] < Tries => <<name[t][1], name[t][2] + 1>> \in Names
    BY <2>2, SignInAssumption DEF Names
  <2>5. \/ UNCHANGED name
        \/ <<name[t][1], name[t][2] + 1>> \in Names
           /\ name' = [name EXCEPT ![t] = <<name[t][1], name[t][2] + 1>>]
    BY <2>1, <2>3, <2>4
  <2> QED BY <2>5 DEF Types
<1>5. CASE UNCHANGED name
  BY <1>5 DEF Types
<1> QED BY <1>1, <1>2, <1>3, <1>4, <1>5
  DEF Step, Worker, SignupNext, LoginNext, AdminNext, FlowNext, Execute, Fetch, WeakPassword, SignupChecked,
      SignupInsert, SignupCommit, LoginChecked, AgentToken, SetUserActive, UpdateActive, UpdateCommit,
      OidcLogin, OidcLoginFails, OidcCallback, OidcRefused, ExchangeFails, Userinfo, ExternalChecked,
      ExternalInsert, InsertLink, ExternalRollback, ExternalCommit

\* A flow's steps go forward through the names it tries.
Spender == {"ins_link", "commit", "rollback", "relink", "done", "failed"}
LEMMA FlowForward ==
  ASSUME Types, PlaceInv, CountInv, NEW t \in Flows, FlowNext(t)
  PROVE  /\ \/ name'[t][2] > name[t][2]
            \/ name'[t][2] = name[t][2] /\ (pc[t] \in Spender => pc'[t] \in Spender)
         /\ pc'[t] \in {"idle", "away", "exchange", "link"} => name'[t][2] = 1
<1>0. t \in Requests /\ t \in DOMAIN pc /\ t \in DOMAIN name
  BY DEF Requests, Types
<1>00. pc[t] \in {"idle", "away", "exchange", "link"} => name[t][2] = 1
  BY DEF CountInv
<1>1. CASE OidcLogin(t)
  BY <1>0, <1>00, <1>1, Moved DEF OidcLogin, Arrives, Spender
<1>2. CASE OidcLoginFails(t)
  BY <1>0, <1>00, <1>2, Moved DEF OidcLoginFails, Arrives, Spender
<1>3. CASE \E b \in Browsers : OidcCallback(t, b)
  BY <1>0, <1>00, <1>3, Moved DEF OidcCallback, Spender
<1>4. CASE \E b \in Browsers : OidcRefused(t, b)
  BY <1>0, <1>00, <1>4, Moved DEF OidcRefused, Spender
<1>5. CASE ExchangeFails(t)
  BY <1>0, <1>00, <1>5, Moved DEF ExchangeFails, Spender
<1>6. CASE Userinfo(t)
  BY <1>0, <1>00, <1>6, Moved DEF Userinfo, Spender
<1>7. CASE Resolve(t)
  <2>1. \/ UNCHANGED name /\ pc' = [pc EXCEPT ![t] = "done"]
        \/ name' = [name EXCEPT ![t] = <<Base[Subject[t]], 1>>] /\ pc' = [pc EXCEPT ![t] = "exists"]
    BY <1>7, Moved DEF Resolve, Issue
  <2>2. pc[t] = "link" /\ name[t][2] = 1
    BY <1>7, <1>00 DEF Resolve, Selected
  <2> QED BY <1>0, <2>1, <2>2 DEF Spender
<1>8. CASE ExternalChecked(t)
  BY <1>0, <1>00, <1>8, Moved DEF ExternalChecked, Selected, Spender
<1>9. CASE ExternalInsert(t)
  BY <1>0, <1>00, <1>9, Moved DEF ExternalInsert, Spender
<1>10. CASE InsertLink(t)
  BY <1>0, <1>00, <1>10, Moved DEF InsertLink, Spender
<1>11. CASE ExternalRollback(t)
  BY <1>0, <1>00, <1>11, Moved DEF ExternalRollback, Spender
<1>12. CASE ExternalCommit(t)
  BY <1>0, <1>00, <1>12, Moved DEF ExternalCommit, Issue, Spender
<1>13. CASE Adopt(t)
  <2>1. \/ UNCHANGED name /\ pc' = [pc EXCEPT ![t] = "done"]
        \/ name' = [name EXCEPT ![t] = [name[t] EXCEPT ![2] = name[t][2] + 1]] /\ pc' = [pc EXCEPT ![t] = "exists"]
        \/ UNCHANGED name /\ pc' = [pc EXCEPT ![t] = "failed"]
    BY <1>13, Moved DEF Adopt, Issue
  <2>2. name[t] = <<name[t][1], name[t][2]>> /\ name[t][2] \in Nat
    BY <1>0, NameType DEF Types
  <2>3. [name[t] EXCEPT ![2] = name[t][2] + 1][2] = name[t][2] + 1
    BY <2>2
  <2> QED BY <1>0, <2>1, <2>2, <2>3 DEF Spender
<1> QED BY <1>1, <1>2, <1>3, <1>4, <1>5, <1>6, <1>7, <1>8, <1>9, <1>10, <1>11, <1>12, <1>13 DEF FlowNext

LEMMA SignupForward ==
  ASSUME Types, PlaceInv, NEW t \in Signups, SignupNext(t)
  PROVE  pc[t] \notin {"idle", "taken", "create"} => pc'[t] \notin {"idle", "taken", "create"}
BY Moved DEF SignupNext, Signup, WeakPassword, SignupChecked, SignupInsert, SignupCommit, Arrives, Selected,
             Types, Requests

\* A step of any request.
LEMMA GrowStep ==
  ASSUME Types, QueueInv, PlaceInv, CountInv, NEW t \in Requests, Step(t)
  PROVE  /\ Grow
         /\ \A x \in Flows : pc'[x] \in {"idle", "away", "exchange", "link"} => name'[x][2] = 1
<1>1. \A x \in Requests \ {t} : pc'[x] = pc[x] /\ name'[x] = name[x]
  BY StepQueue, NameStep DEF Shifts
<1>2. \A x \in Requests : name[x][2] \in Nat /\ name'[x][2] \in Nat
  <2>1. name' \in [Requests -> Names]
    BY NameStep
  <2>2. ASSUME NEW x \in Requests PROVE name'[x][2] \in Nat
    <3>1. name'[x] \in Bases \X (1..Tries)
      BY <2>1 DEF Names
    <3> QED BY <3>1, SignInAssumption
  <2> QED BY <2>2, NameType DEF Types
<1>3. /\ t \in Flows => t \notin Signups /\ t \notin Logins /\ t \notin Admins
      /\ t \in Signups => t \notin Flows /\ t \notin Logins /\ t \notin Admins
      /\ t \in Logins => t \notin Flows /\ t \notin Signups /\ t \notin Admins
  BY SignInAssumption
<1>4. CASE Worker(t)
  <2>1. pc' = [pc EXCEPT ![t] = pc[t]] /\ UNCHANGED name
    BY <1>4, Moved DEF Worker, Execute, Fetch
  <2>2. \A x \in Requests : pc'[x] = pc[x] /\ name'[x] = name[x]
    BY <2>1 DEF Types
  <2>3. Grow
    BY <1>2, <2>2, GrowsIf DEF Requests
  <2> QED BY <2>2, <2>3 DEF CountInv, Requests
<1>5. CASE t \in Signups /\ SignupNext(t)
  <2>1. Grow
    BY <1>1, <1>2, <1>3, <1>5, SignupForward, GrowsIf DEF Requests
  <2> QED BY <1>1, <1>3, <1>5, <2>1 DEF CountInv, Requests
<1>6. CASE t \in Logins \/ t \in Admins
  <2>1. t \notin Flows /\ t \notin Signups
    BY <1>3, <1>6
  <2>2. Grow
    BY <1>1, <1>2, <2>1, GrowsIf DEF Requests
  <2> QED BY <1>1, <2>1, <2>2 DEF CountInv, Requests
<1>7. CASE t \in Flows /\ FlowNext(t)
  <2>1. Grow
    BY <1>1, <1>2, <1>3, <1>7, FlowForward, GrowsIf DEF Requests, Spender
  <2> QED BY <1>1, <1>7, <2>1, FlowForward DEF CountInv, Requests
<1> QED BY <1>4, <1>5, <1>6, <1>7 DEF Step

-----------------------------------------------------------------------------
(***************************************************************************)
(* What a step does to the tables.                                          *)
(***************************************************************************)
Goes(t, p, q) == pc[t] = p /\ pc' = [pc EXCEPT ![t] = q]
Keeps(t) == UNCHANGED <<rows, disk>> /\ pc[t] \notin {"create_commit", "update_commit", "commit"}
Inserts(t) ==
    /\ AtHead(t) /\ ~Taken(name[t]) /\ UNCHANGED <<disk, jar, name, hop>>
    /\ rows' = [users |-> rows.users \cup {NewUser(t)}, links |-> rows.links, seq |-> rows.seq + 1]
    /\ user' = [user EXCEPT ![t] = NewUser(t)]
    /\ \/ t \in Signups /\ Goes(t, "create", "create_commit")
       \/ t \in Flows /\ Goes(t, "insert", "ins_link")
Commits(t) ==
    /\ AtHead(t) /\ disk' = rows /\ UNCHANGED <<rows, user, name, hop>>
    /\ \/ t \in Signups /\ Goes(t, "create_commit", "done") /\ UNCHANGED jar
       \/ t \in Admins /\ Goes(t, "update_commit", "done") /\ UNCHANGED jar
       \/ t \in Flows /\ Goes(t, "commit", "done") /\ Issue(t, user[t])
RollsBack(t) ==
    /\ AtHead(t) /\ t \in Flows /\ rows' = disk /\ UNCHANGED <<disk, user, name, hop, jar>>
    /\ Goes(t, "rollback", "relink")
Links(t) ==
    /\ AtHead(t) /\ t \in Flows /\ ~Linked(Subject[t]) /\ UNCHANGED <<disk, user, name, hop, jar>>
    /\ rows' = [users |-> rows.users, links |-> rows.links \cup {[sub |-> Subject[t], id |-> user[t].id]},
                seq |-> rows.seq]
    /\ Goes(t, "ins_link", "commit")
Updates(t) ==
    /\ AtHead(t) /\ t \in Admins /\ UNCHANGED <<disk, user, name, hop, jar>>
    /\ \E i \in Ids \ {0}, flag \in BOOLEAN :
          rows' = [users |-> {IF u.id = i THEN [u EXCEPT !.active = flag] ELSE u : u \in rows.users},
                   links |-> rows.links, seq |-> rows.seq]
    /\ Goes(t, "update", "update_commit")

LEMMA TypesOfTypeOK ==
  ASSUME TypeOK
  PROVE  Types /\ rows = [users |-> rows.users, links |-> rows.links, seq |-> rows.seq]
         /\ rows.users \subseteq User /\ rows.links \subseteq Link /\ rows.seq \in Nat
         /\ disk.users \subseteq User /\ disk.links \subseteq Link /\ disk.seq \in Nat
         /\ rows.seq \in Ids /\ disk.seq \in Ids
BY DEF TypeOK, Types, Tables, Ids

LEMMA TableStep ==
  ASSUME TypeOK, QueueInv, PlaceInv, NEW t \in Requests, Step(t)
  PROVE  Keeps(t) \/ Inserts(t) \/ Commits(t) \/ RollsBack(t) \/ Links(t) \/ Updates(t)
<1>0. /\ Types /\ rows = [users |-> rows.users, links |-> rows.links, seq |-> rows.seq]
  BY TypesOfTypeOK
<1>1. CASE t \in Signups /\ SignupInsert(t)
  <2>1. CASE Taken(name[t])
    BY <1>1, <2>1 DEF SignupInsert, Keeps
  <2>2. CASE ~Taken(name[t])
    <3>1. rows' = [users |-> rows.users \cup {NewUser(t)}, links |-> rows.links, seq |-> rows.seq + 1]
      BY <1>0, <1>1, <2>2 DEF SignupInsert, InsertUser
    <3> QED BY <1>1, <2>2, <3>1, Moved DEF SignupInsert, InsertUser, Inserts, Goes
  <2> QED BY <2>1, <2>2
<1>2. CASE t \in Flows /\ ExternalInsert(t)
  <2>1. CASE Taken(name[t])
    BY <1>2, <2>1 DEF ExternalInsert, Keeps
  <2>2. CASE ~Taken(name[t])
    <3>1. rows' = [users |-> rows.users \cup {NewUser(t)}, links |-> rows.links, seq |-> rows.seq + 1]
      BY <1>0, <1>2, <2>2 DEF ExternalInsert, InsertUser
    <3> QED BY <1>2, <2>2, <3>1, Moved DEF ExternalInsert, InsertUser, Inserts, Goes
  <2> QED BY <2>1, <2>2
<1>3. CASE t \in Signups /\ SignupCommit(t)
  BY <1>3, Moved DEF SignupCommit, Commit, Commits, Goes
<1>4. CASE t \in Admins /\ UpdateCommit(t)
  BY <1>4, Moved DEF UpdateCommit, Commit, Commits, Goes
<1>5. CASE t \in Flows /\ ExternalCommit(t)
  BY <1>5, Moved DEF ExternalCommit, Commit, Commits, Goes, Issue
<1>6. CASE t \in Flows /\ ExternalRollback(t)
  BY <1>6, Moved DEF ExternalRollback, Rollback, RollsBack, Goes
<1>7. CASE t \in Flows /\ InsertLink(t)
  <2>1. CASE Linked(Subject[t])
    BY <1>7, <2>1 DEF InsertLink, Keeps
  <2>2. CASE ~Linked(Subject[t])
    <3>1. rows' = [users |-> rows.users, links |-> rows.links \cup {[sub |-> Subject[t], id |-> user[t].id]},
                   seq |-> rows.seq]
      BY <1>0, <1>7, <2>2 DEF InsertLink
    <3> QED BY <1>7, <2>2, <3>1, Moved DEF InsertLink, Links, Goes
  <2> QED BY <2>1, <2>2
<1>8. CASE t \in Admins /\ UpdateActive(t)
  <2>1. PICK i \in Ids \ {0}, flag \in BOOLEAN :
          \/ /\ rows' = [rows EXCEPT !.users =
                    {IF u.id = i THEN [u EXCEPT !.active = flag] ELSE u : u \in @}]
             /\ Await(t, "update_commit")
          \/ Answer(t, "failed") /\ UNCHANGED rows
    BY <1>8 DEF UpdateActive
  <2>2. CASE UNCHANGED rows
    BY <1>8, <2>2 DEF UpdateActive, Keeps
  <2>3. CASE /\ rows' = [rows EXCEPT !.users =
                    {IF u.id = i THEN [u EXCEPT !.active = flag] ELSE u : u \in @}]
             /\ Await(t, "update_commit")
    <3>1. rows' = [users |-> {IF u.id = i THEN [u EXCEPT !.active = flag] ELSE u : u \in rows.users},
                   links |-> rows.links, seq |-> rows.seq]
      BY <1>0, <2>3
    <3> QED BY <1>8, <2>3, <3>1, Moved DEF UpdateActive, Updates, Goes
  <2> QED BY <2>1, <2>2, <2>3
<1>9. CASE Execute(t)
  BY <1>9 DEF Execute, Keeps, Selects, PlaceInv, PlaceOf
<1>10. CASE Fetch(t)
  BY <1>10, <1>0 DEF Fetch, Keeps, Selects, PlaceInv, PlaceOf
<1>11. CASE t \in Signups /\ Signup(t)
  BY <1>11 DEF Signup, Arrives, Keeps
<1>12. CASE t \in Signups /\ WeakPassword(t)
  BY <1>12 DEF WeakPassword, Arrives, Keeps
<1>13. CASE t \in Signups /\ SignupChecked(t)
  BY <1>13 DEF SignupChecked, Selected, Keeps
<1>14. CASE t \in Logins /\ Login(t)
  BY <1>14 DEF Login, Arrives, Keeps
<1>15. CASE t \in Logins /\ LoginChecked(t)
  BY <1>15 DEF LoginChecked, Selected, Keeps
<1>16. CASE t \in Logins /\ AgentToken(t)
  BY <1>16 DEF AgentToken, Selected, Keeps
<1>17. CASE t \in Admins /\ SetUserActive(t)
  BY <1>17 DEF SetUserActive, Arrives, Keeps
<1>18. CASE t \in Flows /\ OidcLogin(t)
  BY <1>18 DEF OidcLogin, Arrives, Keeps
<1>19. CASE t \in Flows /\ OidcLoginFails(t)
  BY <1>19 DEF OidcLoginFails, Arrives, Keeps
<1>20. CASE t \in Flows /\ (\E b \in Browsers : OidcCallback(t, b))
  BY <1>20 DEF OidcCallback, Keeps
<1>21. CASE t \in Flows /\ (\E b \in Browsers : OidcRefused(t, b))
  BY <1>21 DEF OidcRefused, Keeps
<1>22. CASE t \in Flows /\ ExchangeFails(t)
  BY <1>22 DEF ExchangeFails, Keeps
<1>23. CASE t \in Flows /\ Userinfo(t)
  BY <1>23 DEF Userinfo, Keeps
<1>24. CASE t \in Flows /\ Resolve(t)
  BY <1>24 DEF Resolve, Selected, Keeps
<1>25. CASE t \in Flows /\ ExternalChecked(t)
  BY <1>25 DEF ExternalChecked, Selected, Keeps
<1>26. CASE t \in Flows /\ Adopt(t)
  BY <1>26 DEF Adopt, Selected, Keeps
<1> QED BY <1>1, <1>2, <1>3, <1>4, <1>5, <1>6, <1>7, <1>8, <1>9, <1>10, <1>11, <1>12, <1>13, <1>14, <1>15, <1>16, <1>17, <1>18, <1>19, <1>20, <1>21, <1>22, <1>23, <1>24, <1>25, <1>26
  DEF Step, Worker, SignupNext, LoginNext, AdminNext, FlowNext

\* Only the request that steps changes what it holds.
LEMMA OthersKeep ==
  ASSUME TypeOK, NEW t \in Requests, Step(t)
  PROVE  \A x \in Requests \ {t} : user'[x] = user[x] /\ hop'[x] = hop[x]
BY DEF Step, Worker, SignupNext, LoginNext, AdminNext, FlowNext, TypeOK,
  Execute, Fetch, Selected, Signup, WeakPassword, SignupChecked, SignupInsert, SignupCommit, InsertUser,
  Login, LoginChecked, AgentToken, SetUserActive, UpdateActive, UpdateCommit,
  OidcLogin, OidcLoginFails, OidcCallback, OidcRefused, ExchangeFails, Userinfo, Resolve, ExternalChecked,
  ExternalInsert, InsertLink, ExternalRollback, ExternalCommit, Adopt

\* CountInv, for a step of one request and for the others.
LEMMA CountStep ==
  ASSUME TypeOK, QueueInv, PlaceInv, TableInv, CountInv, NEW t \in Requests, Step(t)
  PROVE  CountInv'
<1>0. Types /\ rows.seq \in Nat /\ disk.seq \in Nat
  BY TypesOfTypeOK
<1>1. Grow /\ \A x \in Flows : pc'[x] \in {"idle", "away", "exchange", "link"} => name'[x][2] = 1
  BY <1>0, GrowStep
<1>2. /\ rows.seq <= Cardinality(SpentSignups') + Cardinality(SpentNames')
      /\ SpentSignups # SpentSignups' \/ SpentNames # SpentNames' =>
               rows.seq + 1 <= Cardinality(SpentSignups') + Cardinality(SpentNames')
  BY <1>0, <1>1, SpentMore DEF CountInv
<1>3. /\ IsFiniteSet(SpentSignups') /\ IsFiniteSet(SpentNames')
      /\ Cardinality(SpentSignups') \in Nat /\ Cardinality(SpentNames') \in Nat
  BY SpentSets, SpentSize
<1>4. rows'.seq <= Cardinality(SpentSignups') + Cardinality(SpentNames')
  <2>1. CASE Inserts(t)
    <3>1. rows'.seq = rows.seq + 1
      BY <2>1 DEF Inserts
    <3>2. SpentSignups # SpentSignups' \/ SpentNames # SpentNames'
      <4>1. CASE t \in Signups /\ Goes(t, "create", "create_commit")
        BY <1>0, <4>1 DEF Goes, SpentSignups, Types
      <4>2. CASE t \in Flows /\ Goes(t, "insert", "ins_link") /\ UNCHANGED name
        <5>1. <<t, name[t][2]>> \in Flows \X (1..Tries)
          BY <1>0, <4>2, NameType DEF Types
        <5>2. <<t, name[t][2]>> \notin SpentNames
          BY <1>0, <4>2, NameType DEF Goes, SpentNames, Types
        <5>3. <<t, name[t][2]>> \in SpentNames'
          BY <1>0, <4>2, <5>1 DEF Goes, SpentNames, Types
        <5> QED BY <5>2, <5>3
      <4> QED BY <2>1, <4>1, <4>2 DEF Inserts
    <3> QED BY <1>2, <3>1, <3>2
  <2>2. CASE RollsBack(t)
    BY <1>0, <1>2, <1>3, <2>2 DEF RollsBack, TableInv
  <2>3. CASE Keeps(t) \/ Commits(t) \/ Links(t) \/ Updates(t)
    <3>1. rows'.seq = rows.seq
      BY <2>3 DEF Keeps, Commits, Links, Updates
    <3> QED BY <1>2, <3>1
  <2> QED BY <2>1, <2>2, <2>3, TableStep
<1> QED BY <1>1, <1>4 DEF CountInv

-----------------------------------------------------------------------------
(***************************************************************************)
(* Types.                                                                   *)
(***************************************************************************)
Cookies == [csrf : Flows \cup {NoOne}, session : Session \cup {NoSession}]

LEMMA FoundType ==
  ASSUME NEW S, NEW T, S \subseteq T
  PROVE  OneOf(S) \in T \cup {NoUser} /\ (S # {} => OneOf(S) \in S) /\ (S = {} => OneOf(S) = NoUser)
BY DEF OneOf

LEMMA IdType ==
  ASSUME NEW u \in User \cup {NoUser}
  PROVE  u.id \in Ids
<1>1. MaxId \in Nat
  BY SpentSize
<1> QED BY <1>1 DEF User, NoUser, Ids

LEMMA CsrfType ==
  ASSUME jar \in [Browsers -> Cookies], NEW b \in Browsers, NEW c \in Flows \cup {NoOne}
  PROVE  [jar EXCEPT ![b].csrf = c] \in [Browsers -> Cookies]
BY DEF Cookies

LEMMA SessionType ==
  ASSUME jar \in [Browsers -> Cookies], NEW b \in Browsers, NEW s \in Session \cup {NoSession}
  PROVE  /\ [jar EXCEPT ![b].session = s] \in [Browsers -> Cookies]
         /\ [jar EXCEPT ![b] = [csrf |-> NoOne, session |-> s]] \in [Browsers -> Cookies]
BY DEF Cookies

LEMMA JarStep ==
  ASSUME TypeOK, PlaceInv, NEW t \in Requests, Step(t)
  PROVE  jar' \in [Browsers -> Cookies] /\ at' \in [Flows -> Browsers]
<1>0. /\ jar \in [Browsers -> Cookies] /\ at \in [Flows -> Browsers] /\ user[t].id \in Ids
      /\ user[t] \in User \cup {NoUser}
  BY IdType DEF TypeOK, Cookies
<1>1. CASE t \in Logins /\ LoginChecked(t)
  <2>1. [by |-> t, id |-> user[t].id] \in Session /\ Browser[t] \in Browsers
    BY <1>0, <1>1, SignInAssumption DEF Session
  <2>2. \/ jar' = [jar EXCEPT ![Browser[t]].session = [by |-> t, id |-> user[t].id]]
        \/ UNCHANGED jar
    BY <1>1 DEF LoginChecked
  <2>3. [jar EXCEPT ![Browser[t]].session = [by |-> t, id |-> user[t].id]] \in [Browsers -> Cookies]
    BY <1>0, <2>1, SessionType
  <2> QED BY <1>0, <1>1, <2>2, <2>3 DEF LoginChecked, Selected
<1>2. CASE t \in Flows /\ OidcLogin(t)
  <2>1. Browser[t] \in Browsers
    BY <1>2, SignInAssumption
  <2> QED BY <1>0, <1>2, <2>1, CsrfType DEF OidcLogin
<1>3. CASE t \in Flows /\ \E b \in Browsers : OidcCallback(t, b) \/ OidcRefused(t, b)
  <2>1. PICK b \in Browsers : (UNCHANGED jar \/ ClearCsrf(b)) /\ (UNCHANGED at \/ at' = [at EXCEPT ![t] = b])
    BY <1>3 DEF OidcCallback, OidcRefused
  <2>2. jar' \in [Browsers -> Cookies]
    BY <1>0, <2>1, CsrfType DEF ClearCsrf
  <2> QED BY <1>0, <2>1, <2>2
<1>4. CASE t \in Flows /\ ExchangeFails(t)
  <2>1. at[t] \in Browsers
    BY <1>0, <1>4
  <2> QED BY <1>0, <1>4, <2>1, CsrfType DEF ExchangeFails, ClearCsrf
<1>5. CASE t \in Flows /\ (UNCHANGED jar \/ Issue(t, user[t])) /\ UNCHANGED at
  <2>1. [by |-> t, id |-> user[t].id] \in Session /\ at[t] \in Browsers
    BY <1>0, <1>5 DEF Session
  <2>2. [jar EXCEPT ![at[t]] = [csrf |-> NoOne, session |-> [by |-> t, id |-> user[t].id]]]
           \in [Browsers -> Cookies]
    BY <1>0, <2>1, SessionType
  <2> QED BY <1>0, <1>5, <2>2 DEF Issue
<1>6. CASE UNCHANGED <<jar, at>>
  BY <1>0, <1>6
<1> QED BY <1>1, <1>2, <1>3, <1>4, <1>5, <1>6
  DEF Step, Worker, SignupNext, LoginNext, AdminNext, FlowNext, Execute, Fetch, Signup, WeakPassword,
      SignupChecked, SignupInsert, SignupCommit, Login, AgentToken, SetUserActive, UpdateActive, UpdateCommit,
      OidcLoginFails, Userinfo, Resolve, ExternalChecked, ExternalInsert, InsertLink, ExternalRollback,
      ExternalCommit, Adopt, Selected

LEMMA TablesType ==
  ASSUME NEW r, NEW U \in SUBSET User, NEW L \in SUBSET Link, NEW n \in Ids,
         r = [users |-> U, links |-> L, seq |-> n]
  PROVE  r \in Tables
BY DEF Tables

LEMMA TableTypes ==
  ASSUME TypeOK, QueueInv, PlaceInv, TableInv, CountInv, NEW t \in Requests, Step(t)
  PROVE  rows' \in Tables /\ disk' \in Tables /\ (Inserts(t) => NewUser(t) \in User)
<1>0. /\ Types /\ rows.users \subseteq User /\ rows.links \subseteq Link /\ rows.seq \in Nat /\ rows.seq \in Ids
      /\ rows \in Tables /\ disk \in Tables
  BY TypesOfTypeOK DEF TypeOK
<1>1. CASE Inserts(t)
  <2>1. rows'.seq = rows.seq + 1
    BY <1>1 DEF Inserts
  <2>2. rows.seq + 1 \in Ids
    <3>1. rows.seq + 1 <= Cardinality(SpentSignups') + Cardinality(SpentNames')
      BY <2>1, CountStep DEF CountInv
    <3>2. /\ Cardinality(SpentSignups') \in Nat /\ Cardinality(SpentNames') \in Nat
          /\ Cardinality(SpentSignups') + Cardinality(SpentNames') <= MaxId /\ MaxId \in Nat
      BY SpentSets, SpentSize
    <3> QED BY <1>0, <3>1, <3>2 DEF Ids
  <2>3. t \in Flows \cup Signups
    BY <1>1 DEF Inserts
  <2>4. NewUser(t) \in User
    BY <1>0, <2>2, <2>3 DEF NewUser, User, Types
  <2>5. rows' = [users |-> rows.users \cup {NewUser(t)}, links |-> rows.links, seq |-> rows.seq + 1]
    BY <1>1 DEF Inserts
  <2>6. rows.users \cup {NewUser(t)} \in SUBSET User /\ rows.links \in SUBSET Link
    BY <1>0, <2>4
  <2>7. rows' \in Tables
    BY <2>2, <2>5, <2>6, TablesType
  <2> QED BY <1>0, <1>1, <2>4, <2>7 DEF Inserts
<1>2. CASE Links(t)
  <2>1. [sub |-> Subject[t], id |-> user[t].id] \in Link
    <3>1. user[t].id \in Ids
      BY IdType DEF TypeOK
    <3> QED BY <1>2, <3>1, SignInAssumption DEF Link, Links
  <2>2. rows' = [users |-> rows.users, links |-> rows.links \cup {[sub |-> Subject[t], id |-> user[t].id]},
                seq |-> rows.seq] /\ UNCHANGED disk /\ ~Inserts(t)
    BY <1>0, <1>2 DEF Links, Inserts, Goes
  <2>3. rows.users \in SUBSET User /\ rows.links \cup {[sub |-> Subject[t], id |-> user[t].id]} \in SUBSET Link
    BY <1>0, <2>1
  <2> HIDE DEF Links
  <2>4. rows' \in Tables
    BY <1>0, <2>2, <2>3, TablesType
  <2> QED BY <1>0, <2>2, <2>4
<1>3. CASE Updates(t)
  <2>1. PICK i \in Ids \ {0}, flag \in BOOLEAN :
          rows' = [users |-> {IF u.id = i THEN [u EXCEPT !.active = flag] ELSE u : u \in rows.users},
                   links |-> rows.links, seq |-> rows.seq]
    BY <1>3 DEF Updates
  <2>2. {IF u.id = i THEN [u EXCEPT !.active = flag] ELSE u : u \in rows.users} \in SUBSET User
    BY <1>0 DEF User
  <2>3. rows' \in Tables
    BY <1>0, <2>1, <2>2, TablesType
  <2> QED BY <1>0, <1>3, <2>3 DEF Updates, Inserts, Goes
<1>4. CASE (Keeps(t) \/ Commits(t) \/ RollsBack(t)) /\ ~Inserts(t)
  BY <1>0, <1>4 DEF Keeps, Commits, RollsBack
<1> QED BY <1>1, <1>2, <1>3, <1>4, TableStep

LEMMA HeldStep ==
  ASSUME TypeOK, QueueInv, PlaceInv, TableInv, CountInv, NEW t \in Requests, Step(t)
  PROVE  user' \in [Requests -> User \cup {NoUser}] /\ hop' \in [Requests -> 0..2]
<1>0. rows.users \subseteq User /\ user \in [Requests -> User \cup {NoUser}] /\ hop \in [Requests -> 0..2]
  BY TypesOfTypeOK DEF TypeOK
<1>1. CASE Execute(t)
  <2>1. ByName(name[t]) \in User \cup {NoUser} /\ ByExternalId(Subject[t]) \in User \cup {NoUser}
    BY <1>0, FoundType DEF ByName, ByExternalId
  <2> QED BY <1>0, <1>1, <2>1 DEF Execute
<1>2. CASE (t \in Signups /\ SignupInsert(t)) \/ (t \in Flows /\ ExternalInsert(t))
  <2>1. UNCHANGED hop /\ (UNCHANGED user \/ user' = [user EXCEPT ![t] = NewUser(t)])
    BY <1>2 DEF SignupInsert, ExternalInsert, InsertUser
  <2>2. UNCHANGED user \/ Inserts(t)
    <3>1. Types /\ rows = [users |-> rows.users, links |-> rows.links, seq |-> rows.seq]
      BY TypesOfTypeOK
    <3>2. ~Taken(name[t]) /\ InsertUser(t) =>
             rows' = [users |-> rows.users \cup {NewUser(t)}, links |-> rows.links, seq |-> rows.seq + 1]
      BY <3>1 DEF InsertUser
    <3> QED BY <1>2, <3>2, Moved DEF SignupInsert, ExternalInsert, InsertUser, Inserts, Goes
  <2>3. Inserts(t) => NewUser(t) \in User
    BY TableTypes
  <2> QED BY <1>0, <2>1, <2>2, <2>3
<1>3. CASE UNCHANGED user /\ (UNCHANGED hop \/ hop' = [hop EXCEPT ![t] = 0] \/ hop' = [hop EXCEPT ![t] = 2])
  BY <1>0, <1>3
<1> QED BY <1>1, <1>2, <1>3
  DEF Step, Worker, SignupNext, LoginNext, AdminNext, FlowNext, Fetch, Signup, WeakPassword,
      SignupChecked, SignupCommit, Login, LoginChecked, AgentToken, SetUserActive, UpdateActive, UpdateCommit,
      OidcLogin, OidcLoginFails, OidcCallback, OidcRefused, ExchangeFails, Userinfo, Resolve, ExternalChecked,
      InsertLink, ExternalRollback, ExternalCommit, Adopt, Selected

LEMMA TypeStep ==
  ASSUME TypeOK, QueueInv, PlaceInv, TableInv, CountInv, NEW t \in Requests, Step(t)
  PROVE  TypeOK' /\ UNCHANGED <<traffic, crashes>>
<1>1. UNCHANGED <<traffic, crashes>>
  BY DEF Step, Worker, SignupNext, LoginNext, AdminNext, FlowNext, Execute, Fetch, Selected, Signup, WeakPassword,
      SignupChecked, SignupInsert, SignupCommit, Login, LoginChecked, AgentToken, SetUserActive, UpdateActive,
      UpdateCommit, OidcLogin, OidcLoginFails, OidcCallback, OidcRefused, ExchangeFails, Userinfo, Resolve,
      ExternalChecked, ExternalInsert, InsertLink, ExternalRollback, ExternalCommit, Adopt
<1>2. Types
  BY TypesOfTypeOK
<1>3. QueueInv' /\ queue' \in Seq(Requests) /\ pc' \in [Requests -> Places]
  BY <1>2, StepQueue
<1>4. name' \in [Requests -> Names]
  BY <1>2, NameStep
<1>5. jar' \in [Browsers -> Cookies] /\ at' \in [Flows -> Browsers]
  BY JarStep
<1>6. rows' \in Tables /\ disk' \in Tables
  BY TableTypes
<1>7. user' \in [Requests -> User \cup {NoUser}] /\ hop' \in [Requests -> 0..2]
  BY HeldStep
<1> QED BY <1>1, <1>3, <1>4, <1>5, <1>6, <1>7 DEF TypeOK, QueueInv, Cookies

-----------------------------------------------------------------------------
(***************************************************************************)
(* Places, tables and browsers.                                             *)
(***************************************************************************)
LEMMA Kinds ==
  ASSUME NEW t
  PROVE  /\ t \in Flows => t \notin Signups /\ t \notin Logins /\ t \notin Admins
         /\ t \in Signups => t \notin Flows /\ t \notin Logins /\ t \notin Admins
         /\ t \in Logins => t \notin Flows /\ t \notin Signups /\ t \notin Admins
         /\ t \in Admins => t \notin Flows /\ t \notin Signups /\ t \notin Logins
BY SignInAssumption

LEMMA PlaceStep ==
  ASSUME TypeOK, QueueInv, PlaceInv, NEW t \in Requests, Step(t), UNCHANGED traffic
  PROVE  PlaceInv'
<1>0. Types /\ PlaceOf(t)
  BY TypesOfTypeOK DEF PlaceInv
<1>00. ASSUME NEW x \in Requests \ {t} PROVE PlaceOf(x)'
  <2>1. pc'[x] = pc[x] /\ hop'[x] = hop[x]
    BY <1>0, OthersKeep, StepQueue DEF Shifts
  <2> QED BY <2>1 DEF PlaceInv, PlaceOf
<1> SUFFICES PlaceOf(t)'
  BY <1>00 DEF PlaceInv
<1>000. t \in DOMAIN pc /\ t \in DOMAIN hop
  BY <1>0 DEF Types
<1>1. CASE Execute(t)
  BY <1>0, <1>000, <1>1, Moved, Kinds DEF Execute, PlaceOf, Selects
<1>2. CASE Fetch(t)
  BY <1>0, <1>000, <1>2, Moved, Kinds DEF Fetch, PlaceOf, Selects
<1>3. CASE t \in Signups /\ Signup(t)
  BY <1>0, <1>000, <1>3, Moved, Kinds DEF Signup, Arrives, PlaceOf, Selects
<1>4. CASE t \in Signups /\ WeakPassword(t)
  BY <1>0, <1>000, <1>4, Moved, Kinds DEF WeakPassword, Arrives, PlaceOf, Selects
<1>5. CASE t \in Signups /\ SignupChecked(t)
  BY <1>0, <1>000, <1>5, Moved, Kinds DEF SignupChecked, Selected, PlaceOf, Selects
<1>6. CASE t \in Signups /\ SignupInsert(t)
  BY <1>0, <1>000, <1>6, Moved, Kinds DEF SignupInsert, PlaceOf, Selects
<1>7. CASE t \in Signups /\ SignupCommit(t)
  BY <1>0, <1>000, <1>7, Moved, Kinds DEF SignupCommit, PlaceOf, Selects
<1>8. CASE t \in Logins /\ Login(t)
  BY <1>0, <1>000, <1>8, Moved, Kinds DEF Login, Arrives, PlaceOf, Selects
<1>9. CASE t \in Logins /\ LoginChecked(t)
  BY <1>0, <1>000, <1>9, Moved, Kinds DEF LoginChecked, Selected, PlaceOf, Selects
<1>10. CASE t \in Logins /\ AgentToken(t)
  BY <1>0, <1>000, <1>10, Moved, Kinds DEF AgentToken, Selected, PlaceOf, Selects
<1>11. CASE t \in Admins /\ SetUserActive(t)
  BY <1>0, <1>000, <1>11, Moved, Kinds DEF SetUserActive, Arrives, PlaceOf, Selects
<1>12. CASE t \in Admins /\ UpdateActive(t)
  BY <1>0, <1>000, <1>12, Moved, Kinds DEF UpdateActive, PlaceOf, Selects
<1>13. CASE t \in Admins /\ UpdateCommit(t)
  BY <1>0, <1>000, <1>13, Moved, Kinds DEF UpdateCommit, PlaceOf, Selects
<1>14. CASE t \in Flows /\ OidcLogin(t)
  BY <1>0, <1>000, <1>14, Moved, Kinds DEF OidcLogin, Arrives, PlaceOf, Selects
<1>15. CASE t \in Flows /\ OidcLoginFails(t)
  BY <1>0, <1>000, <1>15, Moved, Kinds DEF OidcLoginFails, Arrives, PlaceOf, Selects
<1>16. CASE t \in Flows /\ (\E b \in Browsers : OidcCallback(t, b))
  BY <1>0, <1>000, <1>16, Moved, Kinds DEF OidcCallback, PlaceOf, Selects
<1>17. CASE t \in Flows /\ (\E b \in Browsers : OidcRefused(t, b))
  BY <1>0, <1>000, <1>17, Moved, Kinds DEF OidcRefused, PlaceOf, Selects
<1>18. CASE t \in Flows /\ ExchangeFails(t)
  BY <1>0, <1>000, <1>18, Moved, Kinds DEF ExchangeFails, PlaceOf, Selects
<1>19. CASE t \in Flows /\ Userinfo(t)
  BY <1>0, <1>000, <1>19, Moved, Kinds DEF Userinfo, PlaceOf, Selects
<1>20. CASE t \in Flows /\ Resolve(t)
  BY <1>0, <1>000, <1>20, Moved, Kinds DEF Resolve, Selected, Issue, PlaceOf, Selects
<1>21. CASE t \in Flows /\ ExternalChecked(t)
  BY <1>0, <1>000, <1>21, Moved, Kinds DEF ExternalChecked, Selected, PlaceOf, Selects
<1>22. CASE t \in Flows /\ ExternalInsert(t)
  BY <1>0, <1>000, <1>22, Moved, Kinds DEF ExternalInsert, PlaceOf, Selects
<1>23. CASE t \in Flows /\ InsertLink(t)
  BY <1>0, <1>000, <1>23, Moved, Kinds DEF InsertLink, PlaceOf, Selects
<1>24. CASE t \in Flows /\ ExternalRollback(t)
  BY <1>0, <1>000, <1>24, Moved, Kinds DEF ExternalRollback, PlaceOf, Selects
<1>25. CASE t \in Flows /\ ExternalCommit(t)
  BY <1>0, <1>000, <1>25, Moved, Kinds DEF ExternalCommit, Issue, PlaceOf, Selects
<1>26. CASE t \in Flows /\ Adopt(t)
  BY <1>0, <1>000, <1>26, Moved, Kinds DEF Adopt, Selected, Issue, PlaceOf, Selects
<1> QED BY <1>1, <1>2, <1>3, <1>4, <1>5, <1>6, <1>7, <1>8, <1>9, <1>10, <1>11, <1>12, <1>13, <1>14, <1>15, <1>16, <1>17, <1>18, <1>19, <1>20, <1>21, <1>22, <1>23, <1>24, <1>25, <1>26
  DEF Step, Worker, SignupNext, LoginNext, AdminNext, FlowNext

LEMMA UpdateHolds ==
  ASSUME TypeOK, NEW t, Updates(t)
  PROVE  /\ \A v \in rows'.users : \E u \in rows.users : v.id = u.id /\ v.key = u.key /\ v.name = u.name
         /\ \A u \in rows.users : \E v \in rows'.users : v.id = u.id /\ v.key = u.key /\ v.name = u.name
         /\ (\A u, v \in rows.users : u.id = v.id => u = v) => \A u, v \in rows'.users : u.id = v.id => u = v
         /\ disk' = disk /\ rows'.seq = rows.seq /\ rows.links = rows'.links /\ UNCHANGED user
<1>1. rows.users \subseteq User
  BY TypesOfTypeOK
<1>2. PICK i \in Ids \ {0}, flag \in BOOLEAN :
          rows' = [users |-> {IF u.id = i THEN [u EXCEPT !.active = flag] ELSE u : u \in rows.users},
                   links |-> rows.links, seq |-> rows.seq]
  BY DEF Updates
<1> DEFINE New(u) == IF u.id = i THEN [u EXCEPT !.active = flag] ELSE u
<1>3. \A u \in rows.users : New(u).id = u.id /\ New(u).key = u.key /\ New(u).name = u.name
  BY <1>1 DEF User
<1>4. rows'.users = {New(u) : u \in rows.users}
  BY <1>2
<1> HIDE DEF New
<1>5. \A v \in rows'.users : \E u \in rows.users : v = New(u)
  BY <1>4
<1>6. \A u \in rows.users : New(u) \in rows'.users
  BY <1>4
<1>7. rows'.seq = rows.seq /\ rows.links = rows'.links
  BY <1>2
<1>8. disk' = disk /\ UNCHANGED user
  BY DEF Updates
<1> QED BY <1>3, <1>5, <1>6, <1>7, <1>8

LEMMA TableStepInv ==
  ASSUME TypeOK, QueueInv, PlaceInv, TableInv, CountInv, NEW t \in Requests, Step(t)
  PROVE  TableInv'
<1>0. /\ Types /\ rows.users \subseteq User /\ rows.seq \in Nat /\ disk.seq \in Nat
      /\ disk.users \subseteq User
  BY TypesOfTypeOK
<1>1. \A x \in Requests \ {t} : user'[x] = user[x] /\ pc'[x] = pc[x]
  BY <1>0, OthersKeep, StepQueue DEF Shifts
<1>2. \A u \in rows.users : u.key \in Flows \cup Signups
  BY <1>0 DEF User
<1>3. CASE Keeps(t)
  <2>1. \A k \in Signups : pc[k] = "create_commit" => pc'[k] = pc[k] /\ user'[k] = user[k]
    BY <1>1, <1>3 DEF Keeps, Requests
  <2> QED BY <1>3, <2>1 DEF Keeps, TableInv, Holds, Within
<1>4. CASE Inserts(t)
  <2>1. /\ rows' = [users |-> rows.users \cup {NewUser(t)}, links |-> rows.links, seq |-> rows.seq + 1]
        /\ UNCHANGED disk /\ user' = [user EXCEPT ![t] = NewUser(t)] /\ user'[t] = NewUser(t)
    BY <1>4 DEF Inserts, TypeOK
  <2>2. NewUser(t).id = rows.seq + 1 /\ NewUser(t).key = t
    BY DEF NewUser
  <2>3. t \in Signups => pc'[t] = "create_commit"
    BY <1>0, <1>4, Kinds DEF Inserts, Goes, Types
  <2>4. \A k \in Signups : pc[k] = "create_commit" => pc'[k] = pc[k] /\ user'[k] = user[k]
    BY <1>1, <1>4, Kinds DEF Inserts, Goes, Requests
  <2>5. /\ \A u \in rows'.users : u.id \in 1..rows'.seq
        /\ \A u, v \in rows'.users : u.id = v.id => u = v
    BY <1>0, <2>1, <2>2 DEF TableInv
  <2>6. \A i, k : Holds(rows, i, k) => Holds(rows, i, k)'
    BY <2>1 DEF Holds
  <2>7. \A i, k : Holds(disk, i, k) <=> Holds(disk, i, k)'
    BY <2>1 DEF Holds
  <2>8. \A u \in rows'.users : u.key \in Signups =>
          \/ Holds(disk, u.id, u.key)'
          \/ pc'[u.key] = "create_commit" /\ user'[u.key].id = u.id
    BY <2>1, <2>2, <2>3, <2>4, <2>7 DEF TableInv
  <2>9. rows'.links = rows.links /\ rows'.seq = rows.seq + 1 /\ UNCHANGED disk
    BY <2>1
  <2>10. Within(disk, rows)'
    BY <2>1 DEF TableInv, Within
  <2> QED BY <1>0, <2>5, <2>6, <2>7, <2>8, <2>9, <2>10 DEF TableInv
<1>5. CASE Commits(t)
  <2>1. disk' = rows /\ rows' = rows
    BY <1>5 DEF Commits
  <2>2. \A u \in rows.users : Holds(rows, u.id, u.key)
    BY DEF Holds
  <2>3. \A i, k : (Holds(rows, i, k) <=> Holds(rows, i, k)') /\ (Holds(rows, i, k) <=> Holds(disk, i, k)')
    BY <2>1 DEF Holds
  <2>4. Within(disk, rows)'
    BY <2>1 DEF Within
  <2> QED BY <1>0, <2>1, <2>2, <2>3, <2>4 DEF TableInv
<1>6. CASE RollsBack(t)
  <2>1. disk' = disk /\ rows' = disk
    BY <1>6 DEF RollsBack
  <2>2. \A u \in disk.users : Holds(disk, u.id, u.key)
    BY DEF Holds
  <2>3. \A i, k : (Holds(disk, i, k) <=> Holds(rows, i, k)') /\ (Holds(disk, i, k) <=> Holds(disk, i, k)')
    BY <2>1 DEF Holds
  <2>4. Within(disk, rows)'
    BY <2>1 DEF Within
  <2> QED BY <1>0, <2>1, <2>2, <2>3, <2>4 DEF TableInv
<1>7. CASE Links(t)
  <2>1. /\ disk' = disk /\ rows'.users = rows.users /\ rows'.seq = rows.seq /\ rows.links \subseteq rows'.links
        /\ UNCHANGED user
    BY <1>7 DEF Links
  <2>2. \A k \in Signups : pc[k] = "create_commit" => pc'[k] = pc[k]
    BY <1>1, <1>7, Kinds DEF Links, Requests
  <2>3. \A i, k : (Holds(rows, i, k) <=> Holds(rows, i, k)') /\ (Holds(disk, i, k) <=> Holds(disk, i, k)')
    BY <2>1 DEF Holds
  <2>4. Within(disk, rows)'
    BY <2>1 DEF TableInv, Within
  <2> QED BY <1>0, <2>1, <2>2, <2>3, <2>4 DEF TableInv
<1>8. CASE Updates(t)
  <2>2. disk' = disk /\ rows'.seq = rows.seq /\ rows.links = rows'.links /\ UNCHANGED user
    BY <1>8, UpdateHolds
  <2>3. /\ \A v \in rows'.users : \E u \in rows.users : v.id = u.id /\ v.key = u.key /\ v.name = u.name
        /\ \A u \in rows.users : \E v \in rows'.users : v.id = u.id /\ v.key = u.key /\ v.name = u.name
    BY <1>8, UpdateHolds
  <2>4. \A k \in Signups : pc[k] = "create_commit" => pc'[k] = pc[k]
    BY <1>1, <1>8, Kinds DEF Updates, Requests
  <2>5. \A j, k : (Holds(rows, j, k) <=> Holds(rows, j, k)') /\ (Holds(disk, j, k) <=> Holds(disk, j, k)')
    <3>1. ASSUME NEW j, NEW k PROVE Holds(rows, j, k) <=> Holds(rows, j, k)'
      BY <2>3 DEF Holds
    <3>2. ASSUME NEW j, NEW k PROVE Holds(disk, j, k) <=> Holds(disk, j, k)'
      BY <2>2 DEF Holds
    <3> QED BY <3>1, <3>2
  <2>6. \A u \in rows'.users : u.id \in 1..rows'.seq
    BY <2>2, <2>3 DEF TableInv
  <2>7. \A u, v \in rows'.users : u.id = v.id => u = v
    BY <1>8, UpdateHolds DEF TableInv
  <2>8. \A v \in rows'.users : v.key \in Signups =>
          \/ Holds(disk, v.id, v.key)'
          \/ pc'[v.key] = "create_commit" /\ user'[v.key].id = v.id
    BY <2>2, <2>3, <2>4, <2>5 DEF TableInv
  <2>9. Within(disk, rows)'
    BY <2>2, <2>3 DEF TableInv, Within
  <2> QED BY <1>0, <2>2, <2>5, <2>6, <2>7, <2>8, <2>9 DEF TableInv
<1> QED BY <1>3, <1>4, <1>5, <1>6, <1>7, <1>8, TableStep

\* How a cookie may change: login and oidc_callback set the session, oidc_login
\* sets the nonce, and a callback clears it.
CsrfChange(t, c) ==
    jar'[c].csrf \in {jar[c].csrf, NoOne} \/ (t \in Flows /\ c = Browser[t] /\ jar'[c].csrf = t)
NewSession(t) == [by |-> t, id |-> user[t].id]
LoggedIn(t) ==
    /\ t \in Logins /\ pc[t] = "login" /\ hop[t] = 2 /\ user[t] # NoUser /\ user[t].key \in Signups
SignedIn(t) ==
    /\ t \in Flows /\ pc'[t] = "done"
    /\ \/ pc[t] \in {"link", "relink"} /\ hop[t] = 2 /\ user[t] # NoUser
       \/ pc[t] = "commit"
SessionChange(t, c) ==
    \/ jar'[c].session = jar[c].session
    \/ LoggedIn(t) /\ c = Browser[t] /\ jar'[c].session = NewSession(t)
    \/ SignedIn(t) /\ c = at[t] /\ jar'[c].session = NewSession(t)

LEMMA JarChange ==
  ASSUME TypeOK, PlaceInv, NEW t \in Requests, Step(t)
  PROVE  \A c \in Browsers : CsrfChange(t, c) /\ SessionChange(t, c)
<1>0. jar \in [Browsers -> Cookies] /\ at \in [Flows -> Browsers] /\ t \in DOMAIN pc
  BY DEF TypeOK, Cookies
<1>1. CASE t \in Logins /\ LoginChecked(t)
  <2>1. \/ /\ \E k \in Signups : Verified(t, k)
           /\ jar' = [jar EXCEPT ![Browser[t]].session = NewSession(t)]
        \/ UNCHANGED jar
    BY <1>1 DEF LoginChecked, NewSession
  <2>2. pc[t] = "login" /\ hop[t] = 2
    BY <1>1 DEF LoginChecked, Selected
  <2>3. CASE UNCHANGED jar
    BY <2>3 DEF CsrfChange, SessionChange
  <2>4. CASE /\ \E k \in Signups : Verified(t, k)
             /\ jar' = [jar EXCEPT ![Browser[t]].session = NewSession(t)]
    <3>1. LoggedIn(t)
      BY <1>1, <2>2, <2>4 DEF LoggedIn, Verified
    <3>2. \A c \in Browsers : /\ jar'[c].csrf = jar[c].csrf
                              /\ c # Browser[t] => jar'[c].session = jar[c].session
                              /\ c = Browser[t] => jar'[c].session = NewSession(t)
      BY <1>0, <2>4 DEF Cookies
    <3> QED BY <3>1, <3>2 DEF CsrfChange, SessionChange
  <2> QED BY <2>1, <2>3, <2>4
<1>2. CASE t \in Flows /\ OidcLogin(t)
  <2>1. jar' = [jar EXCEPT ![Browser[t]].csrf = t]
    BY <1>2 DEF OidcLogin
  <2>2. \A c \in Browsers : /\ jar'[c].session = jar[c].session
                            /\ c # Browser[t] => jar'[c].csrf = jar[c].csrf
                            /\ c = Browser[t] => jar'[c].csrf = t
    BY <1>0, <2>1 DEF Cookies
  <2> QED BY <1>2, <2>2 DEF CsrfChange, SessionChange
<1>3. CASE \E b \in Browsers : ClearCsrf(b)
  <2>1. PICK b \in Browsers : jar' = [jar EXCEPT ![b].csrf = NoOne]
    BY <1>3 DEF ClearCsrf
  <2>2. \A c \in Browsers : /\ jar'[c].session = jar[c].session
                            /\ c # b => jar'[c].csrf = jar[c].csrf
                            /\ c = b => jar'[c].csrf = NoOne
    BY <1>0, <2>1 DEF Cookies
  <2> QED BY <2>2 DEF CsrfChange, SessionChange
<1>4. CASE t \in Flows /\ (Resolve(t) \/ ExternalCommit(t) \/ Adopt(t)) /\ Issue(t, user[t])
  <2>1. jar' = [jar EXCEPT ![at[t]] = [csrf |-> NoOne, session |-> NewSession(t)]]
    BY <1>4 DEF Issue, NewSession
  <2>2. \A c \in Browsers : /\ c # at[t] => jar'[c] = jar[c]
                            /\ c = at[t] => jar'[c].csrf = NoOne /\ jar'[c].session = NewSession(t)
    BY <1>0, <2>1
  <2>3. pc'[t] = "done"
    BY <1>0, <1>4, Moved DEF Issue
  <2>4. CASE ExternalCommit(t)
    <3>1. SignedIn(t)
      BY <1>4, <2>3, <2>4 DEF SignedIn, ExternalCommit
    <3> QED BY <2>2, <3>1 DEF CsrfChange, SessionChange
  <2>5. CASE Resolve(t) \/ Adopt(t)
    <3>1. pc[t] \in {"link", "relink"} /\ hop[t] = 2
      BY <2>5 DEF Resolve, Adopt, Selected
    <3>2. user[t] # NoUser
      <4>1. \/ user[t] # NoUser
            \/ pc' = [pc EXCEPT ![t] = "exists"] \/ pc' = [pc EXCEPT ![t] = "failed"]
        BY <2>5, Moved DEF Resolve, Adopt
      <4> QED BY <1>0, <2>3, <4>1
    <3>3. SignedIn(t)
      BY <1>4, <2>3, <3>1, <3>2 DEF SignedIn
    <3> QED BY <2>2, <3>3 DEF CsrfChange, SessionChange
  <2> QED BY <1>4, <2>4, <2>5
<1>5. CASE UNCHANGED jar
  BY <1>5 DEF CsrfChange, SessionChange
<1>6. CASE t \in Flows /\ \E b \in Browsers : OidcCallback(t, b) \/ OidcRefused(t, b)
  BY <1>3, <1>5, <1>6 DEF OidcCallback, OidcRefused
<1>7. CASE t \in Flows /\ ExchangeFails(t)
  BY <1>0, <1>3, <1>7 DEF ExchangeFails
<1> QED BY <1>1, <1>2, <1>4, <1>5, <1>6, <1>7
  DEF Step, Worker, SignupNext, LoginNext, AdminNext, FlowNext, Execute, Fetch, Signup, WeakPassword,
      SignupChecked, SignupInsert, SignupCommit, Login, AgentToken, SetUserActive, UpdateActive, UpdateCommit,
      OidcLoginFails, Userinfo, Resolve, ExternalChecked, ExternalInsert, InsertLink, ExternalRollback,
      ExternalCommit, Adopt, Selected

LEMMA BrowserStep ==
  ASSUME TypeOK, QueueInv, PlaceInv, BrowserInv, NEW t \in Requests, Step(t)
  PROVE  BrowserInv'
<1>0. Types /\ jar \in [Browsers -> Cookies] /\ at \in [Flows -> Browsers] /\ t \in DOMAIN pc
  BY TypesOfTypeOK DEF TypeOK, Cookies
<1>1. \A c \in Browsers : CsrfChange(t, c) /\ SessionChange(t, c)
  BY JarChange
<1>2. \A x \in Requests \ {t} : pc'[x] = pc[x]
  BY <1>0, StepQueue DEF Shifts
<1>3. \A b \in Browsers : jar'[b].csrf # NoOne => Browser[jar'[b].csrf] = b
  BY <1>1 DEF CsrfChange, BrowserInv
<1>4. \A f \in Flows : pc'[f] \notin {"idle", "away", "done", "failed"} => at'[f] = Browser[f]
  <2>1. CASE t \in Flows /\ \E b \in Browsers : OidcCallback(t, b)
    <3>1. PICK b \in Browsers : OidcCallback(t, b)
      BY <2>1
    <3>2. at' = [at EXCEPT ![t] = b]
      BY <3>1 DEF OidcCallback
    <3>3. CASE CsrfMatches(t, b)
      <4>1. jar[b].csrf = t /\ t # NoOne
        BY <3>3, SignInAssumption DEF CsrfMatches
      <4>2. Browser[t] = b
        BY <4>1 DEF BrowserInv
      <4> QED BY <1>0, <1>2, <3>2, <4>2 DEF BrowserInv, Requests
    <3>4. CASE ~CsrfMatches(t, b)
      <4>1. pc'[t] = "failed"
        BY <1>0, <3>1, <3>4, Moved DEF OidcCallback
      <4> QED BY <1>0, <1>2, <3>2, <4>1 DEF BrowserInv, Requests
    <3> QED BY <3>3, <3>4
  <2>2. CASE UNCHANGED at /\ (pc'[t] \notin {"idle", "away", "done", "failed"} =>
                                 pc[t] \notin {"idle", "away", "done", "failed"})
    BY <1>2, <2>2 DEF BrowserInv, Requests
  <2>3. CASE t \notin Flows /\ UNCHANGED at
    BY <1>2, <2>3 DEF BrowserInv, Requests
  <2>4. CASE t \in Flows /\ Step(t) /\ ~\E b \in Browsers : OidcCallback(t, b)
    <3>1. UNCHANGED at
      BY <2>4, Kinds DEF Step, Worker, SignupNext, LoginNext, AdminNext, FlowNext, Execute, Fetch, Signup, WeakPassword,
      SignupChecked, SignupInsert, SignupCommit, Login, AgentToken, SetUserActive, UpdateActive, UpdateCommit,
      OidcLoginFails, Userinfo, Resolve, ExternalChecked, ExternalInsert, InsertLink, ExternalRollback,
      ExternalCommit, Adopt, Selected, OidcLogin, OidcRefused, ExchangeFails
    <3>2. pc'[t] \notin {"idle", "away", "done", "failed"} => pc[t] \notin {"idle", "away", "done", "failed"}
      <4>1. CASE Worker(t)
        BY <1>0, <4>1, Moved DEF Worker, Execute, Fetch, Selects, PlaceInv, PlaceOf
      <4>2. CASE OidcLogin(t) \/ OidcLoginFails(t) \/ (\E b \in Browsers : OidcRefused(t, b)) \/ ExchangeFails(t)
        BY <1>0, <4>2, Moved DEF OidcLogin, OidcLoginFails, OidcRefused, ExchangeFails
      <4>3. CASE \/ Userinfo(t) \/ Resolve(t) \/ ExternalChecked(t) \/ ExternalInsert(t)
                 \/ InsertLink(t) \/ ExternalRollback(t) \/ ExternalCommit(t) \/ Adopt(t)
        BY <4>3 DEF Userinfo, Resolve, ExternalChecked, ExternalInsert,
                    InsertLink, ExternalRollback, ExternalCommit, Adopt, Selected
      <4> QED BY <2>4, <4>1, <4>2, <4>3, Kinds DEF Step, FlowNext
    <3> QED BY <2>2, <3>1, <3>2
  <2>5. CASE t \notin Flows
    <3>1. UNCHANGED at
      BY <2>5 DEF Step, Worker, SignupNext, LoginNext, AdminNext, FlowNext, Execute, Fetch, Signup, WeakPassword,
      SignupChecked, SignupInsert, SignupCommit, Login, AgentToken, SetUserActive, UpdateActive, UpdateCommit,
      OidcLoginFails, Userinfo, Resolve, ExternalChecked, ExternalInsert, InsertLink, ExternalRollback,
      ExternalCommit, Adopt, Selected, LoginChecked
    <3> QED BY <2>3, <2>5, <3>1
  <2> QED BY <2>1, <2>4, <2>5
<1>5. OwnBrowser'
  <2>1. SignedIn(t) => at[t] = Browser[t]
    BY DEF SignedIn, BrowserInv
  <2> SUFFICES ASSUME NEW b \in Browsers, jar'[b].session # NoSession
               PROVE  Browser[jar'[b].session.by] = b
    BY DEF OwnBrowser
  <2> QED BY <1>1, <2>1 DEF SessionChange, NewSession, BrowserInv, OwnBrowser
<1> QED BY <1>3, <1>4, <1>5 DEF BrowserInv

LEMMA SessionTrafficStep ==
  ASSUME TypeOK, QueueInv, PlaceInv, SessionTraffic, NEW t \in Requests, Step(t), UNCHANGED traffic
  PROVE  SessionTraffic'
<1>1. \A c \in Browsers : SessionChange(t, c)
  BY JarChange
<1>2. LoggedIn(t) \/ SignedIn(t) => t \in traffic
  BY DEF LoggedIn, SignedIn, PlaceInv, PlaceOf
<1> SUFFICES ASSUME NEW b \in Browsers, jar'[b].session # NoSession
             PROVE  jar'[b].session.by \in traffic
  BY DEF SessionTraffic
<1> QED BY <1>1, <1>2 DEF SessionChange, NewSession, SessionTraffic

-----------------------------------------------------------------------------
(***************************************************************************)
(* The part of the invariant that holds for any traffic.                    *)
(***************************************************************************)
Basics == TypeOK /\ QueueInv /\ PlaceInv /\ TableInv /\ CountInv /\ BrowserInv /\ SessionTraffic

LEMMA LogoutBasics ==
  ASSUME Basics, NEW b \in Browsers, Logout(b)
  PROVE  Basics'
<1>0. /\ UNCHANGED <<traffic, rows, disk, pc, name, user, queue, hop, at, crashes>>
      /\ jar' = [jar EXCEPT ![b].session = NoSession]
      /\ jar \in [Browsers -> Cookies]
  BY DEF Logout, Basics, TypeOK, Cookies
<1>1. jar' \in [Browsers -> Cookies]
  BY <1>0, SessionType
<1>2. \A c \in Browsers : jar'[c].csrf = jar[c].csrf /\ jar'[c].session \in {jar[c].session, NoSession}
  BY <1>0 DEF Cookies
<1>3. TypeOK'
  BY <1>0, <1>1 DEF Basics, TypeOK, Cookies
<1>4. QueueInv' /\ PlaceInv'
  BY <1>0 DEF Basics, QueueInv, InQueue, PlaceInv, PlaceOf
<1>5. TableInv'
  BY <1>0 DEF Basics, TableInv, Holds, Within
<1>6. CountInv'
  BY <1>0 DEF Basics, CountInv, SpentSignups, SpentNames
<1>7. BrowserInv' /\ SessionTraffic'
  BY <1>0, <1>2 DEF Basics, BrowserInv, OwnBrowser, SessionTraffic
<1> QED BY <1>3, <1>4, <1>5, <1>6, <1>7 DEF Basics

LEMMA CrashBasics ==
  ASSUME Basics, Crash
  PROVE  Basics'
<1>0. /\ crashes < MaxCrashes /\ crashes' = crashes + 1 /\ rows' = disk /\ queue' = <<>>
      /\ hop' = [t \in Requests |-> 0]
      /\ pc' = [t \in Requests |-> IF pc[t] \in {"idle", "away", "done", "failed"} THEN pc[t] ELSE "failed"]
      /\ UNCHANGED <<traffic, disk, name, user, jar, at>>
  BY DEF Crash
<1>1. \A t \in Requests : pc'[t] = (IF pc[t] \in {"idle", "away", "done", "failed"} THEN pc[t] ELSE "failed")
  BY <1>0
<1>2. TypeOK'
  <2>1. pc' \in [Requests -> Places]
    BY <1>0 DEF Places
  <2>2. queue' \in Seq(Requests) /\ DOMAIN queue' = {}
    BY <1>0, EmptySeq
  <2>3. crashes' \in 0..MaxCrashes
    BY <1>0, SignInAssumption DEF Basics, TypeOK
  <2> QED BY <1>0, <2>1, <2>2, <2>3 DEF Basics, TypeOK
<1>3. QueueInv'
  <2>1. DOMAIN queue' = {}
    BY <1>0, EmptySeq
  <2>2. \A t \in Requests : pc'[t] \notin Busy
    BY <1>1 DEF Busy, Selects
  <2> QED BY <2>1, <2>2 DEF QueueInv, InQueue
<1>4. PlaceInv'
  BY <1>0, <1>1 DEF Basics, PlaceInv, PlaceOf
<1>5. TableInv'
  <2>1. \A u \in disk.users : Holds(disk, u.id, u.key)
    BY DEF Holds
  <2>2. \A i, k : (Holds(disk, i, k) <=> Holds(rows, i, k)') /\ (Holds(disk, i, k) <=> Holds(disk, i, k)')
    BY <1>0 DEF Holds
  <2>3. disk.seq \in Nat
    BY TypesOfTypeOK DEF Basics
  <2>4. Within(disk, rows)'
    BY <1>0 DEF Within
  <2> QED BY <1>0, <2>1, <2>2, <2>3, <2>4 DEF Basics, TableInv
<1>6. CountInv'
  <2>1. Grow
    <3>1. \A t \in Flows : name[t][2] \in Nat
      BY NameType DEF Basics, TypeOK, Requests
    <3> QED BY <1>0, <1>1, <3>1, GrowsIf DEF Requests
  <2>2. rows.seq \in Nat /\ disk.seq \in Nat /\ disk.seq <= rows.seq
    BY TypesOfTypeOK DEF Basics, TableInv
  <2>3. rows.seq <= Cardinality(SpentSignups') + Cardinality(SpentNames')
    BY <2>1, <2>2, SpentMore DEF Basics, CountInv
  <2>4. Cardinality(SpentSignups') \in Nat /\ Cardinality(SpentNames') \in Nat
    BY SpentSets, SpentSize
  <2> QED BY <1>0, <1>1, <2>2, <2>3, <2>4 DEF Basics, CountInv, Requests
<1>7. BrowserInv' /\ SessionTraffic'
  BY <1>0, <1>1 DEF Basics, BrowserInv, OwnBrowser, SessionTraffic, Requests
<1> QED BY <1>2, <1>3, <1>4, <1>5, <1>6, <1>7 DEF Basics

LEMMA StepBasics ==
  ASSUME Basics, NEW t \in Requests, Step(t)
  PROVE  Basics' /\ UNCHANGED traffic /\ Shifts(t)
<1>1. TypeOK' /\ UNCHANGED <<traffic, crashes>>
  BY TypeStep DEF Basics
<1>2. QueueInv' /\ Shifts(t)
  BY StepQueue, TypesOfTypeOK DEF Basics
<1>3. PlaceInv' /\ BrowserInv' /\ SessionTraffic'
  BY <1>1, PlaceStep, BrowserStep, SessionTrafficStep DEF Basics
<1>4. TableInv' /\ CountInv'
  BY TableStepInv, CountStep DEF Basics
<1> QED BY <1>1, <1>2, <1>3, <1>4 DEF Basics

\* The accounts of the early sign-ups.
LEMMA EarlyTypes ==
  ASSUME NEW k \in 0..Len(Early)
  PROVE  /\ Len(Early) \in Nat /\ k \in Nat
         /\ \A i \in 1..k : /\ Early[i] \in Signups /\ EarlyUser(i) \in User
                            /\ EarlyUser(i).id = i /\ EarlyUser(i).key = Early[i]
                            /\ EarlyUser(i).name \in Names
         /\ \A i, j \in 1..k : Early[i] = Early[j] => i = j
         /\ k <= Cardinality({Early[i] : i \in 1..k})
         /\ EarlyTables(k) \in Tables
<1>1. /\ Len(Early) \in Nat /\ DOMAIN Early = 1..Len(Early) /\ Early \in [1..Len(Early) -> Signups]
      /\ Len(Early) <= Tries /\ Tries \in Nat
      /\ \A i, j \in 1..Len(Early) : Early[i] = Early[j] => i = j
  BY SignInAssumption, LenProperties
<1>2. \A i \in 1..k : Early[i] \in Signups /\ i \in 1..Tries
  BY <1>1
<1> DEFINE S == {Early[i] : i \in 1..k}
<1>3. S \in SUBSET Signups /\ {} \in SUBSET (Flows \X (1..Tries))
  BY <1>2
<1>4. IsFiniteSet(S) /\ Cardinality(S) \in Nat /\ Cardinality(S) <= MaxId /\ MaxId \in Nat
  <2>1. Cardinality(S) \in Nat /\ Cardinality({}) \in Nat /\ Cardinality(S) + Cardinality({}) <= MaxId
        /\ MaxId \in Nat /\ IsFiniteSet(S)
    BY <1>3, SpentSize
  <2> QED BY <2>1
<1>5. k <= Cardinality(S)
  <2> SUFFICES ASSUME Cardinality(S) < k PROVE FALSE
    BY <1>1, <1>4
  <2>1. IsFiniteSet(1..k) /\ Cardinality(1..k) = k
    BY <1>1, FS_Interval
  <2> DEFINE f == [i \in 1..k |-> Early[i]]
  <2>2. f \in [1..k -> S]
    OBVIOUS
  <2>3. \E x, y \in 1..k : x # y /\ f[x] = f[y]
    <3> HIDE DEF S, f
    <3> QED BY <1>4, <2>1, <2>2, FS_PigeonHole
  <2> QED BY <1>1, <2>3
<1>6. \A i \in 1..k : i \in Ids
  BY <1>1, <1>4, <1>5 DEF Ids
<1>7. \A i \in 1..k : <<CHOOSE b \in Bases : TRUE, i>> \in Names
  BY <1>2, SignInAssumption DEF Names
<1>8. ASSUME NEW i \in 1..k PROVE EarlyUser(i) \in User
  BY <1>2, <1>6, <1>7 DEF EarlyUser, User
<1>9. EarlyTables(k) \in Tables
  <2>1. {EarlyUser(i) : i \in 1..k} \in SUBSET User
    BY <1>8
  <2>2. k \in Ids
    BY <1>1, <1>4, <1>5 DEF Ids
  <2> QED BY <2>1, <2>2 DEF EarlyTables, Tables
<1> QED BY <1>1, <1>2, <1>5, <1>7, <1>8, <1>9 DEF EarlyUser

EarlyAccount(t, k) == OneOf({EarlyUser(i) : i \in {i \in 1..k : Early[i] = t}})
LEMMA EarlyHeld ==
  ASSUME NEW k \in 0..Len(Early), NEW t
  PROVE  /\ IsEarly(t, k) => \E i \in 1..k : Early[i] = t /\ EarlyAccount(t, k) = EarlyUser(i)
         /\ ~IsEarly(t, k) => EarlyAccount(t, k) = NoUser
<1> DEFINE S == {EarlyUser(i) : i \in {i \in 1..k : Early[i] = t}}
<1>1. IsEarly(t, k) => S # {}
  BY DEF IsEarly
<1>2. ~IsEarly(t, k) => S = {}
  BY DEF IsEarly
<1>3. (S # {} => OneOf(S) \in S) /\ (S = {} => OneOf(S) = NoUser)
  BY FoundType
<1>4. EarlyAccount(t, k) = OneOf(S)
  BY DEF EarlyAccount
<1> QED BY <1>1, <1>2, <1>3, <1>4

\* The start: k early accounts, nobody signed in and nobody under way.
Start(k) ==
    /\ traffic \in Traffic
    /\ \A t \in traffic : ~IsEarly(t, k)
    /\ rows = EarlyTables(k) /\ disk = EarlyTables(k)
    /\ pc = [t \in Requests |-> IF IsEarly(t, k) THEN "done" ELSE "idle"]
    /\ user = [t \in Requests |-> OneOf({EarlyUser(i) : i \in {i \in 1..k : Early[i] = t}})]
    /\ name = [t \in Requests |-> IF IsEarly(t, k) THEN user[t].name ELSE <<CHOOSE b \in Bases : TRUE, 1>>]
    /\ queue = <<>>
    /\ hop = [t \in Requests |-> 0]
    /\ jar = [b \in Browsers |-> [csrf |-> NoOne, session |-> NoSession]]
    /\ at = [t \in Flows |-> Browser[t]]
    /\ crashes = 0

LEMMA InitStart == Init => \E k \in 0..Len(Early) : Start(k)
BY DEF Init, Start

LEMMA StartFacts ==
  ASSUME NEW k \in 0..Len(Early), Start(k)
  PROVE  /\ k \in Nat /\ rows.seq = k /\ disk.seq = k /\ rows.links = {} /\ disk.links = {}
         /\ rows.users = disk.users
         /\ \A u \in rows.users : \E i \in 1..k : u = EarlyUser(i) /\ u.id = i /\ u.key = Early[i]
                                     /\ Early[i] \in Signups
         /\ \A t \in Requests : IF IsEarly(t, k)
               THEN t \in Signups \ traffic /\ pc[t] = "done" /\ user[t] \in rows.users /\ user[t].key = t
               ELSE pc[t] = "idle" /\ user[t] = NoUser
         /\ \A b \in Browsers : jar[b].session = NoSession /\ jar[b].csrf = NoOne
         /\ \A t \in Requests : hop[t] = 0
         /\ \A i \in 1..k : IsEarly(Early[i], k)
<1>1. /\ k \in Nat /\ \A i \in 1..k : /\ Early[i] \in Signups /\ EarlyUser(i) \in User
                            /\ EarlyUser(i).id = i /\ EarlyUser(i).key = Early[i]
  BY EarlyTypes
<1>2. /\ rows.seq = k /\ disk.seq = k /\ rows.links = {} /\ disk.links = {} /\ rows.users = disk.users
      /\ rows.users = {EarlyUser(i) : i \in 1..k}
  BY DEF Start, EarlyTables
<1>3. \A t : IsEarly(t, k) => t \in Signups
  BY <1>1 DEF IsEarly
<1>4. ASSUME NEW t \in Requests
      PROVE  IF IsEarly(t, k)
             THEN t \in Signups \ traffic /\ pc[t] = "done" /\ user[t] \in rows.users /\ user[t].key = t
             ELSE pc[t] = "idle" /\ user[t] = NoUser
  <2>1. user[t] = EarlyAccount(t, k)
    BY DEF Start, EarlyAccount
  <2>2. CASE IsEarly(t, k)
    <3>1. PICK i \in 1..k : Early[i] = t /\ user[t] = EarlyUser(i)
      BY <2>1, <2>2, EarlyHeld
    <3> QED BY <1>1, <1>2, <1>3, <2>2, <3>1 DEF Start
  <2>3. CASE ~IsEarly(t, k)
    BY <2>1, <2>3, EarlyHeld DEF Start
  <2> QED BY <2>2, <2>3
<1>5. \A b \in Browsers : jar[b].session = NoSession /\ jar[b].csrf = NoOne
  BY DEF Start
<1>6. \A i \in 1..k : IsEarly(Early[i], k)
  BY DEF IsEarly
<1>7. \A u \in rows.users : \E i \in 1..k : u = EarlyUser(i) /\ u.id = i /\ u.key = Early[i]
                                     /\ Early[i] \in Signups
  BY <1>1, <1>2
<1>8. \A t \in Requests : hop[t] = 0
  BY DEF Start
<1> QED BY <1>1, <1>2, <1>4, <1>5, <1>6, <1>7, <1>8

LEMMA StartBasics ==
  ASSUME NEW k \in 0..Len(Early), Start(k)
  PROVE  Basics
<1>1. /\ k \in Nat /\ rows.seq = k /\ disk.seq = k /\ rows.links = {} /\ disk.links = {}
      /\ rows.users = disk.users
      /\ \A u \in rows.users : \E i \in 1..k : u = EarlyUser(i) /\ u.id = i /\ u.key = Early[i]
                                     /\ Early[i] \in Signups
      /\ \A t \in Requests : IF IsEarly(t, k)
               THEN t \in Signups \ traffic /\ pc[t] = "done" /\ user[t] \in rows.users /\ user[t].key = t
               ELSE pc[t] = "idle" /\ user[t] = NoUser
      /\ \A b \in Browsers : jar[b].session = NoSession /\ jar[b].csrf = NoOne
      /\ \A t \in Requests : hop[t] = 0
      /\ \A i \in 1..k : IsEarly(Early[i], k)
  BY StartFacts
<1>2. DOMAIN queue = {} /\ queue \in Seq(Requests)
  BY EmptySeq DEF Start
<1>3. rows \in Tables /\ disk \in Tables /\ rows.users \subseteq User
  <2>1. EarlyTables(k) \in Tables /\ rows = EarlyTables(k) /\ disk = EarlyTables(k)
    BY EarlyTypes DEF Start
  <2> QED BY <2>1 DEF Tables
<1>4. ASSUME NEW t \in Requests PROVE name[t] \in Names /\ (t \in Flows => name[t][2] = 1)
  <2>1. name[t] = IF IsEarly(t, k) THEN user[t].name ELSE <<CHOOSE b \in Bases : TRUE, 1>>
    BY DEF Start
  <2>2. CASE IsEarly(t, k)
    BY <1>1, <1>3, <2>1, <2>2, Kinds DEF User
  <2>3. CASE ~IsEarly(t, k)
    <3>1. <<CHOOSE b \in Bases : TRUE, 1>> \in Names
      BY SignInAssumption DEF Names
    <3> QED BY <2>1, <2>3, <3>1
  <2> QED BY <2>2, <2>3
<1>5. TypeOK
  <2>1. name \in [Requests -> Names]
    BY <1>4 DEF Start
  <2>2. user \in [Requests -> User \cup {NoUser}]
    <3>1. \A t \in Requests : user[t] \in User \cup {NoUser}
      BY <1>1, <1>3
    <3> QED BY <3>1 DEF Start
  <2>3. pc \in [Requests -> Places]
    BY DEF Start, Places
  <2>4. at \in [Flows -> Browsers] /\ crashes \in 0..MaxCrashes /\ hop \in [Requests -> 0..2]
        /\ traffic \in Traffic
    BY SignInAssumption DEF Start
  <2>5. jar \in [Browsers -> [csrf : Flows \cup {NoOne}, session : Session \cup {NoSession}]]
    BY DEF Start
  <2> QED BY <1>2, <1>3, <2>1, <2>2, <2>3, <2>4, <2>5 DEF TypeOK
<1>6. QueueInv
  BY <1>1, <1>2 DEF QueueInv, InQueue, Busy, Selects
<1>7. PlaceInv
  BY <1>1, Kinds DEF PlaceInv, PlaceOf
<1>8. TableInv
  <2>1. \A u \in rows.users : Holds(rows, u.id, u.key) /\ Holds(disk, u.id, u.key)
    BY <1>1 DEF Holds
  <2>2. \A u, v \in rows.users : u.id = v.id => u = v
    BY <1>1
  <2>3. Within(disk, rows)
    BY <1>1 DEF Within
  <2> QED BY <1>1, <2>1, <2>2, <2>3 DEF TableInv
<1>9. CountInv
  <2>1. {Early[i] : i \in 1..k} = SpentSignups
    <3>1. ASSUME NEW t \in SpentSignups PROVE t \in {Early[i] : i \in 1..k}
      <4>1. IsEarly(t, k)
        BY <1>1 DEF SpentSignups, Requests
      <4> QED BY <4>1 DEF IsEarly
    <3>2. ASSUME NEW i \in 1..k PROVE Early[i] \in SpentSignups
      <4>1. Early[i] \in Signups /\ IsEarly(Early[i], k)
        BY <1>1, EarlyTypes
      <4>2. pc[Early[i]] = "done"
        BY <1>1, <4>1 DEF Requests
      <4> QED BY <4>1, <4>2 DEF SpentSignups
    <3> QED BY <3>1, <3>2
  <2>2. k <= Cardinality(SpentSignups)
    BY <2>1, EarlyTypes
  <2>3. Cardinality(SpentSignups) \in Nat /\ Cardinality(SpentNames) \in Nat
    BY SpentSets, SpentSize
  <2> QED BY <1>1, <1>4, <2>2, <2>3 DEF CountInv, Requests
<1>10. BrowserInv /\ SessionTraffic
  BY <1>1, SignInAssumption DEF BrowserInv, OwnBrowser, SessionTraffic, Start
<1> QED BY <1>5, <1>6, <1>7, <1>8, <1>9, <1>10 DEF Basics

-----------------------------------------------------------------------------
(***************************************************************************)
(* Accounts only come, except for a roll-back.                              *)
(***************************************************************************)
LEMMA RowsGrow ==
  ASSUME Basics, NEW t \in Requests, Step(t), ~RollsBack(t)
  PROVE  /\ \A i, k : Holds(rows, i, k) => Holds(rows, i, k)'
         /\ Within(rows, rows') /\ rows.links \subseteq rows'.links
<1>1. CASE Updates(t)
  <2>1. TypeOK
    BY DEF Basics
  <2> QED BY <1>1, <2>1, UpdateHolds DEF Holds, Within
<1>2. CASE Keeps(t) \/ Commits(t) \/ Links(t)
  <2>1. rows'.users = rows.users /\ rows.links \subseteq rows'.links
    BY <1>2 DEF Keeps, Commits, Links
  <2> QED BY <2>1 DEF Holds, Within
<1>3. CASE Inserts(t)
  <2>1. rows'.users = rows.users \cup {NewUser(t)} /\ rows'.links = rows.links
    BY <1>3 DEF Inserts
  <2> QED BY <2>1 DEF Holds, Within
<1> QED BY <1>1, <1>2, <1>3, TableStep DEF Basics

LEMMA DiskGrows ==
  ASSUME Basics, NEW t \in Requests, Step(t)
  PROVE  /\ \A i, k : Holds(disk, i, k) => Holds(disk, i, k)'
         /\ disk.links \subseteq disk'.links /\ disk.seq <= disk'.seq
<1>0. disk.seq \in Nat /\ rows.seq \in Nat
  BY TypesOfTypeOK DEF Basics
<1>1. CASE Commits(t)
  <2>1. disk' = rows
    BY <1>1 DEF Commits
  <2> QED BY <1>0, <2>1 DEF Basics, TableInv, Within, Holds
<1>2. CASE UNCHANGED disk
  BY <1>0, <1>2 DEF Holds
<1> QED BY <1>1, <1>2, TableStep DEF Basics, Keeps, Inserts, RollsBack, Links, Updates

\* Links only come when a flow adds its own.
LEMMA LinksCome ==
  ASSUME Basics, NEW t \in Requests, Step(t), ~Links(t)
  PROVE  rows'.links \subseteq rows.links
<1>1. CASE Updates(t)
  BY <1>1, UpdateHolds DEF Basics
<1> QED BY <1>1, TableStep DEF Basics, TableInv, Keeps, Inserts, Commits, RollsBack

\* A name is taken only by an INSERT.
LEMMA NamesCome ==
  ASSUME Basics, NEW t \in Requests, Step(t), ~Inserts(t), NEW n, Taken(n)'
  PROVE  Taken(n)
<1>1. PICK v \in rows'.users : v.name = n
  BY DEF Taken
<1>2. \E u \in rows.users : u.name = n
  <2>1. CASE Updates(t)
    BY <1>1, <2>1, UpdateHolds DEF Basics
  <2>2. CASE RollsBack(t)
    BY <1>1, <2>2 DEF RollsBack, Basics, TableInv, Within
  <2>3. CASE Keeps(t) \/ Commits(t) \/ Links(t)
    BY <1>1, <2>3 DEF Keeps, Commits, Links
  <2> QED BY <2>1, <2>2, <2>3, TableStep DEF Basics
<1> QED BY <1>2 DEF Taken

\* A SELECT that found nothing.
LEMMA FoundNone ==
  ASSUME Basics
  PROVE  /\ \A n : ByName(n) = NoUser => ~Taken(n)
         /\ \A n : ByName(n) # NoUser => ByName(n) \in rows.users
         /\ \A s : ByExternalId(s) # NoUser =>
               /\ ByExternalId(s) \in rows.users
               /\ \E l \in rows.links : l.sub = s /\ l.id = ByExternalId(s).id
<1>1. \A u \in rows.users : u.id \in 1..rows.seq /\ rows.seq \in Nat
  BY TypesOfTypeOK DEF Basics, TableInv
<1>2. \A u \in rows.users : u # NoUser
  BY <1>1 DEF NoUser
<1>3. ASSUME NEW n
      PROVE  (ByName(n) = NoUser => ~Taken(n)) /\ (ByName(n) # NoUser => ByName(n) \in rows.users)
  <2> DEFINE S == {u \in rows.users : u.name = n}
  <2>1. (S # {} => OneOf(S) \in S) /\ (S = {} => OneOf(S) = NoUser)
    BY FoundType
  <2>2. ByName(n) = OneOf(S)
    BY DEF ByName
  <2> QED BY <1>2, <2>1, <2>2 DEF Taken
<1>4. ASSUME NEW s, ByExternalId(s) # NoUser
      PROVE  /\ ByExternalId(s) \in rows.users
             /\ \E l \in rows.links : l.sub = s /\ l.id = ByExternalId(s).id
  <2> DEFINE S == {u \in rows.users : \E l \in rows.links : l.sub = s /\ l.id = u.id}
  <2>1. (S # {} => OneOf(S) \in S) /\ (S = {} => OneOf(S) = NoUser)
    BY FoundType
  <2>2. ByExternalId(s) = OneOf(S)
    BY DEF ByExternalId
  <2> QED BY <1>4, <2>1, <2>2
<1> QED BY <1>3, <1>4

\* A request that steps has arrived.
LEMMA Arrived ==
  ASSUME Basics, NEW t \in Requests, Step(t)
  PROVE  t \in traffic
<1>1. pc[t] \notin {"idle", "done"} \/ t \in traffic
  <2>1. Worker(t) => pc[t] \in Selects
    BY DEF Worker, Execute, Fetch, Basics, PlaceInv, PlaceOf
  <2> QED BY <2>1
    DEF Step, Selects, SignupNext, LoginNext, AdminNext, FlowNext, Signup, WeakPassword, Selected, Arrives,
      SignupChecked, SignupInsert, SignupCommit, Login, LoginChecked, AgentToken, SetUserActive, UpdateActive,
      UpdateCommit, OidcLogin, OidcLoginFails, OidcCallback, OidcRefused, ExchangeFails, Userinfo, Resolve,
      ExternalChecked, ExternalInsert, InsertLink, ExternalRollback, ExternalCommit, Adopt
<1> QED BY <1>1 DEF Basics, PlaceInv, PlaceOf

-----------------------------------------------------------------------------
(***************************************************************************)
(* Where a request goes from where it is.                                   *)
(***************************************************************************)
FlowTurn(t) ==
    \/ Execute(t) /\ pc[t] \in {"link", "relink", "exists"} /\ pc'[t] = pc[t] /\ hop'[t] = 1 /\ Keeps(t)
    \/ Fetch(t) /\ pc[t] \in {"link", "relink", "exists"} /\ pc'[t] = pc[t] /\ hop'[t] = 2 /\ Keeps(t)
    \/ pc[t] \in {"idle", "away", "exchange", "relink"} /\ pc'[t] \in {"away", "exchange", "failed"} /\ Keeps(t)
    \/ pc[t] = "exchange" /\ pc'[t] = "link" /\ hop'[t] = 0 /\ Keeps(t)
    \/ pc[t] \in {"link", "relink"} /\ hop[t] = 2 /\ user[t] # NoUser /\ pc'[t] = "done" /\ Keeps(t)
    \/ pc[t] \in {"link", "relink"} /\ hop[t] = 2 /\ user[t] = NoUser /\ pc'[t] = "exists" /\ hop'[t] = 0 /\ Keeps(t)
    \/ pc[t] = "exists" /\ hop[t] = 2 /\ user[t] # NoUser /\ pc'[t] = "relink" /\ hop'[t] = 0 /\ Keeps(t)
    \/ /\ pc[t] = "exists" /\ hop[t] = 2 /\ user[t] = NoUser /\ pc'[t] = "insert"
       /\ name'[t] = name[t] /\ Keeps(t)
    \/ pc[t] = "insert" /\ Taken(name[t]) /\ pc'[t] = "rollback" /\ name'[t] = name[t] /\ Keeps(t)
    \/ pc[t] = "ins_link" /\ Linked(Subject[t]) /\ pc'[t] = "rollback" /\ name'[t] = name[t] /\ Keeps(t)
    \/ Inserts(t) /\ pc[t] = "insert" /\ pc'[t] = "ins_link"
    \/ Links(t) /\ pc[t] = "ins_link" /\ pc'[t] = "commit"
    \/ RollsBack(t) /\ pc[t] = "rollback" /\ pc'[t] = "relink" /\ hop'[t] = 0
    \/ Commits(t) /\ pc[t] = "commit" /\ pc'[t] = "done"

LEMMA FlowTurns ==
  ASSUME Basics, NEW t \in Flows, Step(t)
  PROVE  FlowTurn(t)
<1>0. /\ TypeOK /\ Types /\ t \in Requests /\ t \in DOMAIN pc /\ PlaceOf(t) /\ t \in DOMAIN hop
      /\ rows = [users |-> rows.users, links |-> rows.links, seq |-> rows.seq]
  BY TypesOfTypeOK DEF Basics, Requests, Types, PlaceInv
<1>1. t \notin Signups /\ t \notin Logins /\ t \notin Admins
  BY Kinds
<1>2. Keeps(t) \/ Inserts(t) \/ Commits(t) \/ RollsBack(t) \/ Links(t)
  BY <1>0, <1>1, TableStep DEF Basics, Updates
<1>3. CASE ~Keeps(t)
  <2>1. pc[t] = "rollback" => hop[t] = 0
    BY <1>0 DEF PlaceOf, Selects
  <2> QED BY <1>0, <1>1, <1>2, <1>3, <2>1 DEF FlowTurn, Inserts, Commits, RollsBack, Links, Goes
<1>4. CASE Keeps(t) /\ Execute(t)
  <2>1. pc[t] \in {"link", "relink", "exists"}
    BY <1>0, <1>4 DEF Execute, PlaceOf, Selects
  <2> QED BY <1>0, <1>4, <2>1 DEF Execute, FlowTurn, Await
<1>5. CASE Keeps(t) /\ Fetch(t)
  <2>1. pc[t] \in {"link", "relink", "exists"}
    BY <1>0, <1>5 DEF Fetch, PlaceOf, Selects
  <2> QED BY <1>0, <1>5, <2>1 DEF Fetch, FlowTurn, Await
<1>6. CASE Keeps(t) /\ FlowNext(t)
  <2>1. CASE OidcLogin(t) \/ OidcLoginFails(t) \/ (\E b \in Browsers : OidcCallback(t, b) \/ OidcRefused(t, b))
             \/ ExchangeFails(t)
    BY <1>0, <1>6, <2>1 DEF FlowTurn, OidcLogin, OidcLoginFails, OidcCallback, OidcRefused, ExchangeFails,
       Answer, Arrives
  <2>2. CASE Userinfo(t)
    BY <1>0, <1>6, <2>2 DEF FlowTurn, Userinfo, Await, PlaceOf, Selects
  <2>3. CASE Resolve(t)
    BY <1>0, <1>6, <2>3 DEF FlowTurn, Resolve, Selected, Issue, Answer, Await
  <2>4. CASE ExternalChecked(t)
    BY <1>0, <1>6, <2>4 DEF FlowTurn, ExternalChecked, Selected, Await
  <2>5. CASE ExternalInsert(t)
    <3>1. CASE Taken(name[t])
      BY <1>0, <1>6, <2>5, <3>1 DEF FlowTurn, ExternalInsert, Await
    <3>2. CASE ~Taken(name[t])
      <4>1. rows'.seq = rows.seq + 1 /\ rows.seq \in Nat
        BY <1>0, <2>5, <3>2, TypesOfTypeOK DEF ExternalInsert, InsertUser
      <4> QED BY <1>6, <4>1 DEF Keeps
    <3> QED BY <3>1, <3>2
  <2>6. CASE InsertLink(t)
    <3>1. CASE Linked(Subject[t])
      BY <1>0, <1>6, <2>6, <3>1 DEF FlowTurn, InsertLink, Await
    <3>2. CASE ~Linked(Subject[t])
      <4> DEFINE l == [sub |-> Subject[t], id |-> user[t].id]
      <4>1. rows'.links = rows.links \cup {l}
        BY <1>0, <2>6, <3>2 DEF InsertLink
      <4>2. l \in rows.links
        BY <1>6, <4>1 DEF Keeps
      <4> QED BY <3>2, <4>2 DEF Linked
    <3> QED BY <3>1, <3>2
  <2>7. CASE ExternalRollback(t)
    <3>1. RollsBack(t) /\ pc[t] = "rollback" /\ pc'[t] = "relink" /\ hop'[t] = 0
      BY <1>0, <2>7 DEF ExternalRollback, RollsBack, Goes, Await, Rollback, PlaceOf, Selects
    <3> QED BY <3>1 DEF FlowTurn
  <2>8. CASE ExternalCommit(t)
    BY <1>6, <2>8 DEF ExternalCommit, Keeps
  <2>9. CASE Adopt(t)
    BY <1>0, <1>6, <2>9 DEF FlowTurn, Adopt, Selected, Issue, Answer, Await
  <2> QED BY <1>6, <2>1, <2>2, <2>3, <2>4, <2>5, <2>6, <2>7, <2>8, <2>9 DEF FlowNext
<1> QED BY <1>1, <1>3, <1>4, <1>5, <1>6 DEF Step, Worker

\* A sign-up inserts its account and commits it.
LEMMA SignupTurns ==
  ASSUME Basics, NEW t \in Signups, Step(t)
  PROVE  /\ pc[t] # "done"
         /\ pc'[t] = "done" => Commits(t) /\ pc[t] = "create_commit"
         /\ pc'[t] = "create_commit" => Inserts(t)
         /\ pc[t] = "create_commit" => Commits(t) /\ pc'[t] = "done"
<1>0. /\ TypeOK /\ Types /\ t \in Requests /\ t \in DOMAIN pc /\ PlaceOf(t)
      /\ rows = [users |-> rows.users, links |-> rows.links, seq |-> rows.seq]
  BY TypesOfTypeOK DEF Basics, Requests, Types, PlaceInv
<1>1. t \notin Flows /\ t \notin Logins /\ t \notin Admins
  BY Kinds
<1>2. CASE Worker(t)
  BY <1>0, <1>1, <1>2 DEF Worker, Execute, Fetch, Await, PlaceOf, Selects
<1>3. CASE Signup(t) \/ WeakPassword(t) \/ SignupChecked(t)
  BY <1>0, <1>3 DEF Signup, WeakPassword, SignupChecked, Selected, Answer, Await, Arrives
<1>4. CASE SignupInsert(t)
  <2>1. CASE Taken(name[t])
    BY <1>0, <1>4, <2>1 DEF SignupInsert, Answer, Await
  <2>2. CASE ~Taken(name[t])
    BY <1>0, <1>4, <2>2 DEF SignupInsert, InsertUser, Inserts, Goes, Answer, Await
  <2> QED BY <2>1, <2>2
<1>5. CASE SignupCommit(t)
  BY <1>0, <1>5 DEF SignupCommit, Commits, Commit, Goes, Answer
<1> QED BY <1>1, <1>2, <1>3, <1>4, <1>5 DEF Step, SignupNext

\* What the other requests hold stays; so does what t holds, but for a SELECT
\* or an INSERT.
LEMMA OtherFacts ==
  ASSUME Basics, NEW t \in Requests, Step(t), NEW x \in Requests, x # t
  PROVE  pc'[x] = pc[x] /\ name'[x] = name[x] /\ user'[x] = user[x] /\ hop'[x] = hop[x]
<1>1. Types /\ TypeOK /\ QueueInv /\ PlaceInv
  BY TypesOfTypeOK DEF Basics
<1> QED BY <1>1, StepQueue, NameStep, OthersKeep DEF Shifts

\* What a login holds comes from its SELECT.
LEMMA LoginTurns ==
  ASSUME Basics, NEW t \in Logins, Step(t), pc'[t] = "login", hop'[t] > 0
  PROVE  /\ pc[t] = "login" /\ UNCHANGED <<rows, disk>>
         /\ \/ user'[t] = ByName(name[t]) /\ hop'[t] = 1
            \/ AtHead(t) /\ user'[t] = user[t] /\ hop'[t] = 2 /\ hop[t] = 1
<1>0. /\ TypeOK /\ Types /\ t \in Requests /\ t \in DOMAIN pc /\ PlaceOf(t) /\ t \in DOMAIN hop /\ t \in DOMAIN user
  BY TypesOfTypeOK DEF Basics, Requests, Types, PlaceInv, TypeOK
<1>1. t \notin Flows /\ t \notin Signups /\ t \notin Admins
  BY Kinds
<1>2. CASE Execute(t)
  BY <1>0, <1>2 DEF Execute, Await
<1>3. CASE Fetch(t)
  BY <1>0, <1>3 DEF Fetch, Await
<1>4. CASE LoginNext(t)
  <2>1. hop'[t] = 0 \/ (pc[t] = "idle" /\ hop'[t] = hop[t])
    BY <1>0, <1>4 DEF LoginNext, Login, LoginChecked, AgentToken, Selected, Arrives
  <2> QED BY <1>0, <2>1 DEF PlaceOf, Selects
<1> QED BY <1>1, <1>2, <1>3, <1>4 DEF Step, Worker

-----------------------------------------------------------------------------
(***************************************************************************)
(* Links and their accounts.                                                *)
(***************************************************************************)
LEMMA OneFlowStep ==
  ASSUME Basics, LinkInv, OneFlowInv, NEW t \in Requests, Step(t)
  PROVE  OneFlowInv'
<1>0. Basics' /\ UNCHANGED traffic /\ t \in traffic
  BY StepBasics, Arrived
<1> SUFFICES ASSUME OneFlow, NEW f \in traffic \cap Flows
             PROVE  /\ rows'.links # {} => pc'[f] \in {"commit", "done", "failed"}
                    /\ pc'[f] \in {"link", "relink"} /\ hop'[f] > 0 => user'[f] = NoUser
                    /\ pc'[f] = "commit" => Holds(rows, user[f].id, f)'
                    /\ \A b \in Browsers : jar'[b].session.by = f => Holds(disk, jar[b].session.id, f)'
  BY <1>0 DEF OneFlowInv, OneFlow, Holds
<1>1. /\ rows.links # {} => pc[f] \in {"commit", "done", "failed"}
      /\ pc[f] \in {"link", "relink"} /\ hop[f] > 0 => user[f] = NoUser
      /\ pc[f] = "commit" => Holds(rows, user[f].id, f)
      /\ \A b \in Browsers : jar[b].session.by = f => Holds(disk, jar[b].session.id, f)
  BY DEF OneFlowInv
<1>2. f \in Requests /\ (t \in Flows => t = f) /\ f \in DOMAIN pc /\ f \in DOMAIN user /\ f \in DOMAIN hop
  BY <1>0 DEF OneFlow, Requests, Basics, TypeOK
<1>3. t # f => pc'[f] = pc[f] /\ user'[f] = user[f] /\ hop'[f] = hop[f]
  BY <1>2, OtherFacts
<1>4. t = f => FlowTurn(f)
  BY FlowTurns
<1>5. rows'.links # {} => pc'[f] \in {"commit", "done", "failed"}
  <2>1. CASE Links(t)
    BY <1>2, <2>1 DEF Links, Goes
  <2>2. CASE ~Links(t)
    <3>1. rows'.links \subseteq rows.links
      BY <2>2, LinksCome
    <3>2. CASE t # f
      BY <1>1, <1>3, <3>1, <3>2
    <3>3. CASE t = f
      BY <1>1, <1>4, <3>1, <3>3 DEF FlowTurn
    <3> QED BY <3>2, <3>3
  <2> QED BY <2>1, <2>2
<1>6. ASSUME pc'[f] \in {"link", "relink"}, hop'[f] > 0 PROVE user'[f] = NoUser
  <2>1. CASE t # f
    BY <1>1, <1>3, <1>6, <2>1
  <2>2. CASE t = f
    <3>1. \/ Execute(f) /\ pc[f] \in {"link", "relink"}
          \/ Fetch(f) /\ pc[f] \in {"link", "relink"}
      BY <1>4, <1>6, <2>2 DEF FlowTurn
    <3>2. CASE Execute(f) /\ pc[f] \in {"link", "relink"}
      <4>1. rows.links = {}
        BY <1>1, <3>2
      <4>2. ByExternalId(Subject[f]) = NoUser
        BY <4>1, FoundNone
      <4> QED BY <1>2, <3>2, <4>2 DEF Execute
    <3>3. CASE Fetch(f) /\ pc[f] \in {"link", "relink"}
      BY <1>1, <3>3 DEF Fetch
    <3> QED BY <3>1, <3>2, <3>3
  <2> QED BY <2>1, <2>2
<1>7. ASSUME pc'[f] = "commit" PROVE Holds(rows, user[f].id, f)'
  <2>1. CASE t # f
    <3>1. ~RollsBack(t)
      BY <1>2, <2>1 DEF RollsBack
    <3>2. Holds(rows, user[f].id, f) /\ user'[f] = user[f]
      BY <1>1, <1>3, <1>7, <2>1
    <3> QED BY <3>1, <3>2, RowsGrow DEF Holds
  <2>2. CASE t = f
    <3>1. Links(f) /\ pc[f] = "ins_link"
      BY <1>4, <1>7, <2>2 DEF FlowTurn
    <3>2. Holds(rows, user[f].id, f)
      BY <3>1 DEF LinkInv
    <3>3. user' = user /\ rows'.users = rows.users
      BY <3>1 DEF Links
    <3> QED BY <3>2, <3>3 DEF Holds
  <2> QED BY <2>1, <2>2
<1>8. ASSUME NEW b \in Browsers, jar'[b].session.by = f PROVE Holds(disk, jar[b].session.id, f)'
  <2>1. SessionChange(t, b)
    BY JarChange DEF Basics
  <2>2. CASE jar'[b].session = jar[b].session
    <3>1. Holds(disk, jar[b].session.id, f)
      BY <1>1, <1>8, <2>2
    <3> QED BY <2>2, <3>1, DiskGrows DEF Holds
  <2>3. CASE jar'[b].session = NewSession(t) /\ (LoggedIn(t) \/ SignedIn(t))
    <3>1. t = f /\ jar'[b].session.id = user[f].id
      BY <1>8, <2>3 DEF NewSession
    <3>2. SignedIn(f) /\ pc[f] = "commit"
      BY <1>1, <2>3, <3>1, Kinds DEF SignedIn, LoggedIn
    <3>3. Commits(f)
      BY <1>4, <3>1, <3>2 DEF FlowTurn
    <3>4. disk' = rows /\ Holds(rows, user[f].id, f)
      BY <1>1, <3>2, <3>3 DEF Commits
    <3> QED BY <3>1, <3>4 DEF Holds
  <2> QED BY <2>1, <2>2, <2>3 DEF SessionChange
<1> QED BY <1>5, <1>6, <1>7, <1>8

LEMMA LinksHoldStep ==
  ASSUME Basics, LinksHold(rows), LinksHold(disk), NEW t \in Requests, Step(t),
         Links(t) => Holds(rows, user[t].id, t)
  PROVE  LinksHold(rows') /\ LinksHold(disk')
<1>1. CASE Keeps(t)
  BY <1>1 DEF Keeps, LinksHold
<1>2. CASE Commits(t)
  BY <1>2 DEF Commits, LinksHold
<1>3. CASE RollsBack(t)
  BY <1>3 DEF RollsBack, LinksHold
<1>4. CASE Inserts(t)
  <2>1. rows'.users = rows.users \cup {NewUser(t)} /\ rows'.links = rows.links /\ disk' = disk
    BY <1>4 DEF Inserts
  <2> QED BY <2>1 DEF LinksHold
<1>5. CASE Updates(t)
  <2>1. /\ \A u \in rows.users : \E v \in rows'.users : v.id = u.id /\ v.key = u.key
        /\ disk' = disk /\ rows.links = rows'.links
    BY <1>5, UpdateHolds DEF Basics
  <2> QED BY <2>1 DEF LinksHold, MadeFor
<1>6. CASE Links(t)
  <2>1. /\ rows'.users = rows.users /\ rows'.links = rows.links \cup {[sub |-> Subject[t], id |-> user[t].id]}
        /\ disk' = disk /\ t \in Flows
    BY <1>6 DEF Links
  <2>2. \E u \in rows.users : u.id = user[t].id /\ MadeFor(u, Subject[t])
    BY <1>6, <2>1 DEF Holds, MadeFor
  <2> QED BY <2>1, <2>2 DEF LinksHold
<1> QED BY <1>1, <1>2, <1>3, <1>4, <1>5, <1>6, TableStep DEF Basics

LEMMA LinkStep ==
  ASSUME Basics, LinkInv, CoupleInv, NEW t \in Requests, Step(t)
  PROVE  LinkInv'
<1>0. UNCHANGED traffic /\ t \in traffic /\ Types /\ QueueInv
  BY StepBasics, Arrived, TypesOfTypeOK DEF Basics
<1> SUFFICES ASSUME OneFlow \/ Couple
             PROVE  /\ \A f \in Flows : pc'[f] = "ins_link" => Holds(rows, user[f].id, f)'
                    /\ LinksHold(rows') /\ LinksHold(disk')
  BY <1>0 DEF LinkInv, OneFlow, Couple, TwoFlows, OneSubject, NoSignup
<1>1. /\ \A f \in Flows : pc[f] = "ins_link" => Holds(rows, user[f].id, f)
      /\ LinksHold(rows) /\ LinksHold(disk)
  BY DEF LinkInv
<1>2. ASSUME NEW f \in Flows, pc'[f] = "ins_link" PROVE Holds(rows, user[f].id, f)'
  <2>0. f \in Requests /\ f \in DOMAIN pc /\ f \in DOMAIN user
    BY DEF Requests, Basics, TypeOK
  <2>1. CASE t # f
    <3>1. pc[f] = "ins_link" /\ user'[f] = user[f]
      BY <1>2, <2>0, <2>1, OtherFacts
    <3>2. f \in traffic
      BY <2>0, <3>1, Kinds DEF Basics, PlaceInv, PlaceOf
    <3>3. ~RollsBack(t)
      <4> SUFFICES ASSUME RollsBack(t) PROVE FALSE
        OBVIOUS
      <4>1. t \in Flows /\ pc[t] = "rollback" /\ AtHead(t)
        BY DEF RollsBack, Goes
      <4>2. Couple
        BY <1>0, <2>1, <3>2, <4>1 DEF OneFlow
      <4>3. Before(f, t)
        BY <1>0, <2>1, <3>1, <3>2, <4>1, <4>2 DEF CoupleInv
      <4> QED BY <1>0, <4>1, <4>3, HeadFirst
    <3>4. Holds(rows, user[f].id, f)
      BY <1>1, <3>1
    <3> QED BY <3>1, <3>3, <3>4, RowsGrow DEF Holds
  <2>2. CASE t = f
    <3>1. Inserts(f)
      BY <1>2, <2>2, FlowTurns DEF FlowTurn
    <3>2. user'[f] = NewUser(f) /\ NewUser(f) \in rows'.users
      BY <2>0, <3>1 DEF Inserts
    <3> QED BY <3>2 DEF Holds, NewUser
  <2> QED BY <2>1, <2>2
<1>3. Links(t) => Holds(rows, user[t].id, t)
  BY <1>1 DEF Links, Goes
<1>4. LinksHold(rows') /\ LinksHold(disk')
  BY <1>1, <1>3, LinksHoldStep
<1> QED BY <1>2, <1>4

-----------------------------------------------------------------------------
(***************************************************************************)
(* A flow that found its name free and then clashes.                        *)
(***************************************************************************)
LEMMA FreeStep ==
  ASSUME Basics, NEW f \in Flows, Step(f), FoundFree(f)', Taken(name[f])'
  PROVE  FoundFree(f) /\ Taken(name[f])
<1>0. f \in Requests /\ f \in DOMAIN pc /\ f \in DOMAIN user /\ f \in DOMAIN hop /\ f \in DOMAIN name
  BY DEF Requests, Basics, TypeOK
<1>1. FlowTurn(f)
  BY FlowTurns
<1>2. \/ Execute(f) /\ pc[f] = "exists" /\ hop'[f] > 0 /\ user'[f] = NoUser /\ Keeps(f)
      \/ Fetch(f) /\ pc[f] = "exists" /\ hop'[f] > 0 /\ user'[f] = NoUser /\ Keeps(f)
      \/ pc[f] = "exists" /\ hop[f] = 2 /\ user[f] = NoUser /\ name'[f] = name[f] /\ Keeps(f)
  BY <1>1 DEF FlowTurn, FoundFree
<1>3. CASE Execute(f) /\ pc[f] = "exists" /\ hop'[f] > 0 /\ user'[f] = NoUser /\ Keeps(f)
  <2>1. user'[f] = ByName(name[f]) /\ rows' = rows /\ name' = name
    BY <1>0, <1>3 DEF Execute, Keeps
  <2> QED BY <1>3, <2>1, FoundNone DEF Taken
<1>4. CASE Fetch(f) /\ pc[f] = "exists" /\ hop'[f] > 0 /\ user'[f] = NoUser /\ Keeps(f)
  BY <1>4 DEF Fetch, Keeps, FoundFree, Taken
<1>5. CASE pc[f] = "exists" /\ hop[f] = 2 /\ user[f] = NoUser /\ name'[f] = name[f] /\ Keeps(f)
  BY <1>5 DEF FoundFree, Taken, Keeps
<1> QED BY <1>2, <1>3, <1>4, <1>5

\* Somebody else's step does not change what f found.
LEMMA FreeOther ==
  ASSUME Basics, NEW f \in Flows, NEW t \in Requests, Step(t), t # f, FoundFree(f)'
  PROVE  FoundFree(f) /\ name'[f] = name[f] /\ (Taken(name[f])' => Inserts(t) \/ Taken(name[f]))
<1>1. pc'[f] = pc[f] /\ name'[f] = name[f] /\ user'[f] = user[f] /\ hop'[f] = hop[f]
  BY OtherFacts DEF Requests
<1>2. FoundFree(f)
  BY <1>1 DEF FoundFree
<1>3. Taken(name[f])' /\ ~Inserts(t) => Taken(name[f])
  <2>1. Taken(name[f])' <=> \E u \in rows'.users : u.name = name[f]
    BY <1>1 DEF Taken
  <2>2. \A n : (\E u \in rows'.users : u.name = n) /\ ~Inserts(t) => Taken(n)
    BY NamesCome DEF Taken
  <2> QED BY <2>1, <2>2
<1> QED BY <1>1, <1>2, <1>3

Clashes(f) == (FoundFree(f) /\ Taken(name[f])) \/ pc[f] = "rollback"

LEMMA ClashStep ==
  ASSUME Basics, NEW f \in Flows, Step(f), Clashes(f)'
  PROVE  Clashes(f) \/ (pc[f] = "ins_link" /\ rows.links # {})
<1>1. CASE FoundFree(f)' /\ Taken(name[f])'
  BY <1>1, FreeStep DEF Clashes
<1>2. CASE pc'[f] = "rollback"
  BY <1>2, FlowTurns DEF FlowTurn, Clashes, FoundFree, Linked
<1> QED BY <1>1, <1>2 DEF Clashes

LEMMA ClashOther ==
  ASSUME Basics, NEW f \in Flows, NEW t \in Requests, Step(t), t # f, Clashes(f)'
  PROVE  Clashes(f) \/ Inserts(t)
<1>1. CASE FoundFree(f)' /\ Taken(name[f])'
  BY <1>1, FreeOther DEF Clashes
<1>2. CASE pc'[f] = "rollback"
  BY <1>2, OtherFacts DEF Clashes, Requests
<1> QED BY <1>1, <1>2 DEF Clashes

LEMMA CoupleStep ==
  ASSUME Basics, CoupleInv, NEW t \in Requests, Step(t)
  PROVE  CoupleInv'
<1>0. UNCHANGED traffic /\ t \in traffic /\ Shifts(t)
  BY StepBasics, Arrived
<1> SUFFICES ASSUME Couple
             PROVE  /\ rows'.links # {} => \E f \in traffic \cap Flows : pc'[f] \in {"commit", "done", "failed"}
                    /\ \A f, g \in traffic \cap Flows : f # g =>
                          /\ Clashes(f)' => pc'[g] \in {"ins_link", "commit", "done", "failed"}
                          /\ pc'[f] = "rollback" /\ pc'[g] = "ins_link" => Before(g, f)'
  BY <1>0 DEF CoupleInv, Couple, TwoFlows, OneSubject, NoSignup, Clashes
<1>1. /\ rows.links # {} => \E f \in traffic \cap Flows : pc[f] \in {"commit", "done", "failed"}
      /\ \A f, g \in traffic \cap Flows : f # g =>
            /\ Clashes(f) => pc[g] \in {"ins_link", "commit", "done", "failed"}
            /\ pc[f] = "rollback" /\ pc[g] = "ins_link" => Before(g, f)
  BY DEF CoupleInv, Clashes
<1>2. t \notin Signups
  BY <1>0 DEF Couple, NoSignup
<1>3. ASSUME rows'.links # {} PROVE \E f \in traffic \cap Flows : pc'[f] \in {"commit", "done", "failed"}
  <2>1. CASE Links(t)
    BY <1>0, <2>1 DEF Links, Goes, Basics, TypeOK
  <2>2. CASE ~Links(t)
    <3>1. PICK f \in traffic \cap Flows : pc[f] \in {"commit", "done", "failed"}
      BY <1>1, <1>3, <2>2, LinksCome
    <3>2. t # f => pc'[f] = pc[f]
      BY OtherFacts DEF Requests
    <3>3. t = f => pc'[f] \in {"commit", "done", "failed"}
      BY <3>1, FlowTurns DEF FlowTurn
    <3> QED BY <3>1, <3>2, <3>3
  <2> QED BY <2>1, <2>2
<1>4. ASSUME NEW f \in traffic \cap Flows, NEW g \in traffic \cap Flows, f # g
      PROVE  /\ Clashes(f)' => pc'[g] \in {"ins_link", "commit", "done", "failed"}
             /\ pc'[f] = "rollback" /\ pc'[g] = "ins_link" => Before(g, f)'
  <2>0. f \in Requests /\ g \in Requests
    BY DEF Requests
  <2>1. \A h \in traffic \cap Flows : h = f \/ h = g
    BY <1>4 DEF Couple, TwoFlows
  <2>2. (t # f => pc'[f] = pc[f]) /\ (t # g => pc'[g] = pc[g])
    BY <2>0, OtherFacts
  <2>3. Clashes(f) => pc[f] \notin {"ins_link", "commit", "done", "failed"}
    BY DEF Clashes, FoundFree
  <2>4. CASE t = f
    <3>1. ASSUME Clashes(f)' PROVE pc'[g] \in {"ins_link", "commit", "done", "failed"}
      <4>1. CASE Clashes(f)
        BY <1>1, <1>4, <2>2, <2>4, <4>1
      <4>2. CASE pc[f] = "ins_link" /\ rows.links # {}
        BY <1>1, <1>4, <2>1, <2>2, <2>4, <4>2
      <4> QED BY <2>4, <3>1, <4>1, <4>2, ClashStep
    <3>2. ASSUME pc'[f] = "rollback", pc'[g] = "ins_link" PROVE Before(g, f)'
      BY <1>0, <1>4, <2>0, <2>2, <2>4, <3>2 DEF Shifts, Busy
    <3> QED BY <3>1, <3>2
  <2>5. CASE t = g
    <3>1. ASSUME Clashes(f) PROVE pc'[g] \in {"ins_link", "commit", "done", "failed"} /\ ~Inserts(g)
      <4>1. pc[g] \in {"ins_link", "commit", "done", "failed"}
        BY <1>1, <1>4, <3>1
      <4>2. ~(pc[g] = "ins_link" /\ Linked(Subject[g]))
        BY <1>1, <2>1, <2>3, <3>1 DEF Linked
      <4> QED BY <2>5, <4>1, <4>2, FlowTurns, Kinds DEF FlowTurn, Inserts, Goes
    <3>2. ASSUME Clashes(f)' PROVE pc'[g] \in {"ins_link", "commit", "done", "failed"}
      <4>1. CASE Inserts(g)
        BY <2>0, <4>1, Kinds DEF Inserts, Goes, Basics, TypeOK
      <4> QED BY <1>4, <2>5, <3>1, <3>2, <4>1, ClashOther
    <3>3. ASSUME pc'[f] = "rollback", pc'[g] = "ins_link" PROVE Before(g, f)'
      <4>1. Clashes(f)
        BY <1>4, <2>2, <2>5, <3>3 DEF Clashes
      <4>2. ~Inserts(g)
        BY <3>1, <4>1
      <4> QED BY <2>5, <3>3, <4>2, FlowTurns DEF FlowTurn
    <3> QED BY <3>2, <3>3
  <2>6. CASE t # f /\ t # g
    <3>1. t \notin Flows
      BY <1>0, <2>1, <2>6
    <3>2. ~Inserts(t)
      BY <1>2, <3>1 DEF Inserts
    <3>3. Clashes(f)' => Clashes(f)
      BY <2>6, <3>2, ClashOther
    <3>4. Before(g, f) => Before(g, f)'
      BY <1>0, <2>0, <2>6 DEF Shifts
    <3> QED BY <1>1, <1>4, <2>2, <2>6, <3>3, <3>4
  <2> QED BY <2>4, <2>5, <2>6
<1> QED BY <1>3, <1>4

-----------------------------------------------------------------------------
(***************************************************************************)
(* Sign-ups beside a single sign-on.                                        *)
(***************************************************************************)
LEMMA RivalStep ==
  ASSUME Basics, OneFlowInv, RivalInv, NEW t \in Requests, Step(t)
  PROVE  RivalInv'
<1>0. UNCHANGED traffic /\ t \in traffic /\ Shifts(t)
  BY StepBasics, Arrived
<1> SUFFICES ASSUME OneFlow, OneSignup, NEW f \in traffic \cap Flows
             PROVE  /\ Clashes(f)' => \E s \in traffic \cap Signups : pc'[s] \in {"create_commit", "done"}
                    /\ \A s \in traffic \cap Signups :
                          pc'[f] = "rollback" /\ pc'[s] = "create_commit" => Before(s, f)'
  BY <1>0 DEF RivalInv, OneFlow, OneSignup, Clashes
<1>1. /\ Clashes(f) => \E s \in traffic \cap Signups : pc[s] \in {"create_commit", "done"}
      /\ \A s \in traffic \cap Signups :
            pc[f] = "rollback" /\ pc[s] = "create_commit" => Before(s, f)
  BY DEF RivalInv, Clashes
<1>2. f \in Requests /\ (t \in Flows => t = f)
  BY <1>0 DEF Requests, OneFlow
<1>3. \A s \in Signups : s \in Requests /\ s # f /\ (t # s => pc'[s] = pc[s])
  BY OtherFacts, Kinds DEF Requests
<1>4. ASSUME Clashes(f)' PROVE \E s \in traffic \cap Signups : pc'[s] \in {"create_commit", "done"}
  <2>1. CASE Clashes(f)
    <3>1. PICK s \in traffic \cap Signups : pc[s] \in {"create_commit", "done"}
      BY <1>1, <2>1
    <3>2. t = s => pc'[s] = "done"
      BY <3>1, SignupTurns
    <3> QED BY <1>3, <3>1, <3>2
  <2>2. CASE pc[f] = "ins_link" /\ rows.links # {}
    BY <2>2 DEF OneFlowInv
  <2>3. CASE t # f /\ Inserts(t)
    <3>1. t \in Signups /\ pc'[t] = "create_commit"
      BY <1>2, <2>3 DEF Inserts, Goes, Basics, TypeOK
    <3> QED BY <1>0, <3>1
  <2> QED BY <1>4, <2>1, <2>2, <2>3, ClashStep, ClashOther
<1>5. ASSUME NEW s \in traffic \cap Signups, pc'[f] = "rollback", pc'[s] = "create_commit"
      PROVE  Before(s, f)'
  <2>1. CASE t = f
    BY <1>0, <1>2, <1>3, <1>5, <2>1 DEF Shifts, Busy
  <2>2. CASE t = s
    <3>1. pc[s] = "create"
      BY <1>5, <2>2, SignupTurns, Kinds DEF Inserts, Goes
    <3>2. pc[f] = "rollback"
      BY <1>2, <1>3, <1>5, <2>2, OtherFacts
    <3> QED BY <1>1, <3>1, <3>2 DEF Clashes, OneSignup
  <2>3. CASE t # f /\ t # s
    <3>1. pc[f] = "rollback" /\ pc[s] = "create_commit"
      BY <1>2, <1>3, <1>5, <2>3, OtherFacts
    <3> QED BY <1>0, <1>1, <1>2, <1>3, <2>3, <3>1 DEF Shifts
  <2> QED BY <2>1, <2>2, <2>3
<1> QED BY <1>4, <1>5

\* Nobody rolls back an account that its sign-up is about to commit.
LEMMA SignupSafe ==
  ASSUME Basics, RivalInv, Unrivalled, NEW s \in Signups, pc[s] = "create_commit",
         NEW t \in Requests, Step(t)
  PROVE  ~RollsBack(t)
<1> SUFFICES ASSUME RollsBack(t) PROVE FALSE
  OBVIOUS
<1>1. t \in traffic \cap Flows /\ pc[t] = "rollback" /\ AtHead(t)
  BY Arrived DEF RollsBack, Goes
<1>2. s \in traffic \cap Signups
  BY DEF Basics, PlaceInv, PlaceOf, Requests
<1>3. OneFlow /\ OneSignup
  BY <1>1, <1>2 DEF Unrivalled, NoSignup, NoFlow
<1>4. Before(s, t)
  BY <1>1, <1>2, <1>3 DEF RivalInv
<1> QED BY <1>1, <1>4, HeadFirst, TypesOfTypeOK DEF Basics

LEMMA SignupStep ==
  ASSUME Basics, RivalInv, SignupInv, NEW t \in Requests, Step(t)
  PROVE  SignupInv'
<1>0. UNCHANGED traffic /\ Shifts(t) /\ Types /\ QueueInv
  BY StepBasics, TypesOfTypeOK DEF Basics
<1> DEFINE Kept(l) == \/ Holds(disk, user[l].id, user[l].key)
                      \/ /\ hop[l] = 1 /\ pc[user[l].key] = "create_commit"
                         /\ user[user[l].key].id = user[l].id /\ Before(user[l].key, l)
<1> SUFFICES ASSUME Unrivalled
             PROVE  /\ \A s \in Signups :
                          /\ pc'[s] = "create_commit" => Holds(rows, user[s].id, s)'
                          /\ pc'[s] = "done" => Holds(disk, user[s].id, s)'
                    /\ \A l \in Logins :
                          pc'[l] = "login" /\ hop'[l] > 0 /\ user'[l] # NoUser /\ user'[l].key \in Signups =>
                              Kept(l)'
                    /\ \A b \in Browsers : jar'[b].session.by \in Logins =>
                          \E k \in Signups : Holds(disk, jar[b].session.id, k)'
  BY <1>0 DEF SignupInv, Unrivalled, NoSignup, NoFlow, OneFlow, OneSignup
<1>1. /\ \A s \in Signups :
            /\ pc[s] = "create_commit" => Holds(rows, user[s].id, s)
            /\ pc[s] = "done" => Holds(disk, user[s].id, s)
      /\ \A l \in Logins :
            pc[l] = "login" /\ hop[l] > 0 /\ user[l] # NoUser /\ user[l].key \in Signups => Kept(l)
      /\ \A b \in Browsers : jar[b].session.by \in Logins =>
            \E k \in Signups : Holds(disk, jar[b].session.id, k)
  BY DEF SignupInv
<1>2. \A x \in Requests \ {t} : pc'[x] = pc[x] /\ user'[x] = user[x] /\ hop'[x] = hop[x]
  BY OtherFacts
<1>3. \A i, k : Holds(disk, i, k) => Holds(disk', i, k)
  BY DiskGrows DEF Holds
<1>4. Commits(t) => disk' = rows /\ user' = user
  BY DEF Commits
<1>5. ASSUME NEW s \in Signups
      PROVE  /\ pc'[s] = "create_commit" => Holds(rows', user'[s].id, s)
             /\ pc'[s] = "done" => Holds(disk', user'[s].id, s)
  <2>0. s \in Requests /\ s \in DOMAIN user
    BY DEF Requests, Basics, TypeOK
  <2>1. CASE t = s
    <3>1. pc'[s] = "create_commit" => Inserts(s)
      BY <2>1, SignupTurns
    <3>2. Inserts(s) => user'[s] = NewUser(s) /\ NewUser(s) \in rows'.users
      BY <2>0 DEF Inserts
    <3>3. pc'[s] = "done" => Commits(s) /\ pc[s] = "create_commit"
      BY <2>1, SignupTurns
    <3> QED BY <1>1, <1>4, <2>1, <3>1, <3>2, <3>3 DEF Holds, NewUser
  <2>2. CASE t # s
    <3>1. pc'[s] = pc[s] /\ user'[s] = user[s]
      BY <1>2, <2>0, <2>2
    <3>2. ASSUME pc[s] = "create_commit" PROVE Holds(rows', user[s].id, s)
      <4>1. ~RollsBack(t)
        BY <3>2, SignupSafe
      <4>2. \A i, k : Holds(rows, i, k) => Holds(rows', i, k)
        BY <4>1, RowsGrow DEF Holds
      <4> QED BY <1>1, <3>2, <4>2
    <3> QED BY <1>1, <1>3, <3>1, <3>2
  <2> QED BY <2>1, <2>2
<1>6. ASSUME NEW l \in Logins, pc'[l] = "login", hop'[l] > 0, user'[l] # NoUser, user'[l].key \in Signups
      PROVE  Kept(l)'
  <2>0. l \in Requests /\ l \notin Signups
    BY Kinds DEF Requests
  <2>1. CASE t = l
    <3>1. /\ pc[l] = "login" /\ UNCHANGED <<rows, disk>>
          /\ \/ user'[l] = ByName(name[l]) /\ hop'[l] = 1
             \/ AtHead(l) /\ user'[l] = user[l] /\ hop'[l] = 2 /\ hop[l] = 1
      BY <1>6, <2>1, LoginTurns
    <3>2. CASE user'[l] = ByName(name[l]) /\ hop'[l] = 1
      <4> DEFINE u == user'[l]
      <4>1. u \in rows.users /\ u.key \in Signups
        BY <1>6, <3>2, FoundNone
      <4>2. Holds(disk, u.id, u.key) \/ (pc[u.key] = "create_commit" /\ user[u.key].id = u.id)
        BY <4>1 DEF Basics, TableInv
      <4>3. u.key \in Requests \ {t}
        BY <2>0, <2>1, <4>1 DEF Requests
      <4>4. CASE Holds(disk, u.id, u.key)
        BY <1>3, <4>4 DEF Holds
      <4>5. CASE pc[u.key] = "create_commit" /\ user[u.key].id = u.id
        <5>0. PICK k \in Requests \ {t} : k = u.key
          BY <4>3
        <5>1. pc'[k] = "create_commit" /\ user'[k].id = u.id
          BY <1>2, <4>5, <5>0
        <5>2. pc[k] \in Busy /\ pc'[l] \in Busy
          BY <1>6, <4>5, <5>0 DEF Busy, Selects
        <5>3. Before(k, l)'
          BY <1>0, <2>1, <5>2 DEF Shifts
        <5> QED BY <3>2, <5>0, <5>1, <5>3 DEF Before
      <4> QED BY <4>2, <4>4, <4>5
    <3>3. CASE AtHead(l) /\ user'[l] = user[l] /\ hop'[l] = 2 /\ hop[l] = 1
      <4>1. Kept(l)
        BY <1>1, <1>6, <3>1, <3>3
      <4>2. Holds(disk, user[l].id, user[l].key)
        BY <1>0, <2>0, <3>3, <4>1, HeadFirst
      <4> QED BY <1>3, <3>3, <4>2 DEF Holds
    <3> QED BY <3>1, <3>2, <3>3
  <2>2. CASE t # l
    <3>1. pc[l] = "login" /\ hop'[l] = hop[l] /\ user'[l] = user[l]
      BY <1>2, <1>6, <2>0, <2>2
    <3>2. Kept(l)
      BY <1>1, <1>6, <3>1
    <3>3. PICK k \in Signups : k = user[l].key
      BY <1>6, <3>1
    <3>4. k \in Requests /\ k # l
      BY <2>0, <3>3 DEF Requests
    <3>5. CASE Holds(disk, user[l].id, k)
      BY <1>3, <3>1, <3>3, <3>5 DEF Holds
    <3>6. CASE hop[l] = 1 /\ pc[k] = "create_commit" /\ user[k].id = user[l].id /\ Before(k, l)
      <4>1. CASE t = k
        <5>1. Commits(k)
          BY <3>6, <4>1, SignupTurns
        <5>2. Holds(rows, user[l].id, k)
          BY <1>1, <3>6
        <5>3. Holds(disk', user[l].id, k)
          BY <1>4, <4>1, <5>1, <5>2
        <5> QED BY <3>1, <3>3, <5>3 DEF Holds
      <4>2. CASE t # k
        <5>1. pc'[k] = "create_commit" /\ user'[k] = user[k] /\ Before(k, l)'
          BY <1>0, <1>2, <2>0, <2>2, <3>4, <3>6, <4>2 DEF Shifts
        <5> QED BY <3>1, <3>3, <3>6, <5>1 DEF Before
      <4> QED BY <4>1, <4>2
    <3> QED BY <3>2, <3>3, <3>5, <3>6
  <2> QED BY <2>1, <2>2
<1>7. ASSUME NEW b \in Browsers, jar'[b].session.by \in Logins
      PROVE  \E k \in Signups : Holds(disk', jar'[b].session.id, k)
  <2>1. SessionChange(t, b)
    BY JarChange DEF Basics
  <2>2. CASE jar'[b].session = jar[b].session
    BY <1>1, <1>3, <1>7, <2>2
  <2>3. CASE jar'[b].session = NewSession(t) /\ (LoggedIn(t) \/ SignedIn(t))
    <3>1. t \in Logins /\ jar'[b].session.id = user[t].id
      BY <1>7, <2>3 DEF NewSession
    <3>2. pc[t] = "login" /\ hop[t] = 2 /\ user[t] # NoUser /\ user[t].key \in Signups
      BY <2>3, <3>1, Kinds DEF LoggedIn, SignedIn
    <3>3. Holds(disk, user[t].id, user[t].key)
      BY <1>1, <3>1, <3>2
    <3> QED BY <1>3, <3>1, <3>2, <3>3
  <2> QED BY <2>1, <2>2, <2>3 DEF SessionChange
<1>8. \A s \in Signups :
         /\ pc'[s] = "create_commit" => Holds(rows, user[s].id, s)'
         /\ pc'[s] = "done" => Holds(disk, user[s].id, s)'
  BY <1>5 DEF Holds
<1>9. \A b \in Browsers : jar'[b].session.by \in Logins =>
         \E k \in Signups : Holds(disk, jar[b].session.id, k)'
  BY <1>7 DEF Holds
<1> QED BY <1>6, <1>8, <1>9

-----------------------------------------------------------------------------
(***************************************************************************)
(* Two sign-ins of one person.                                              *)
(***************************************************************************)
\* Without links, the first flow to write its link holds the id after k.
FirstHolds(k) ==
    \/ rows.seq = k /\ \A f \in Flows : pc[f] # "ins_link"
    \/ \E f \in traffic \cap Flows :
          /\ pc[f] = "ins_link" /\ user[f].id = k + 1
          /\ \A g \in Flows \ {f} : pc[g] = "ins_link" => Before(f, g)
\* A flow about to commit nothing: the other one has rolled its account back.
Undone(f, k) ==
    /\ rows.seq = k
    /\ \A g \in (traffic \cap Flows) \ {f} : pc[g] = "relink" /\ hop[g] = 0 /\ Before(f, g)

LEMMA FirstLink ==
  ASSUME Basics, Couple, NEW k \in Nat, AgreeInv(k), NEW t \in Requests, Step(t), Links(t)
  PROVE  rows.links = {} /\ user[t].id = k + 1
<1>0. t \in traffic \cap Flows /\ AtHead(t) /\ ~Linked(Subject[t]) /\ pc[t] = "ins_link" /\ Types /\ QueueInv
  BY Arrived, TypesOfTypeOK DEF Links, Goes, Basics
<1>1. rows.links = {}
  <2> SUFFICES ASSUME NEW l \in rows.links PROVE FALSE
    OBVIOUS
  <2>1. l.sub = Subject[t]
    BY <1>0 DEF AgreeInv, Couple, OneSubject
  <2> QED BY <1>0, <2>1 DEF Linked
<1>2. FirstHolds(k)
  BY <1>1 DEF AgreeInv, FirstHolds
<1>3. PICK f \in traffic \cap Flows : /\ pc[f] = "ins_link" /\ user[f].id = k + 1
                                      /\ \A g \in Flows \ {f} : pc[g] = "ins_link" => Before(f, g)
  BY <1>0, <1>2 DEF FirstHolds
<1>4. f = t
  BY <1>0, <1>3, HeadFirst
<1> QED BY <1>1, <1>3, <1>4

\* While nobody signs up and no admin is at work, only flows write.
LEMMA FlowsWrite ==
  ASSUME Basics, Couple, NoAdmin, NEW t \in Requests, Step(t)
  PROVE  /\ t \in Flows \/ Keeps(t)
         /\ t \in Flows \/ \A f \in Flows : t # f
<1>1. t \notin Signups /\ t \notin Admins
  BY Arrived DEF Couple, NoSignup, NoAdmin
<1> QED BY <1>1, TableStep DEF Basics, Inserts, Commits, RollsBack, Links, Updates

LEMMA LinkAdded ==
  ASSUME NEW t, Links(t)
  PROVE  rows'.links # {}
<1> DEFINE l == [sub |-> Subject[t], id |-> user[t].id]
<1>1. rows'.links = rows.links \cup {l}
  BY DEF Links
<1> HIDE DEF l
<1> QED BY <1>1

LEMMA FirstStep ==
  ASSUME Basics, Couple, NoAdmin, CoupleInv, NEW k \in Nat, AgreeInv(k), NEW t \in Requests, Step(t),
         rows'.links = {}
  PROVE  FirstHolds(k)'
<1>0. /\ UNCHANGED traffic /\ t \in traffic /\ Shifts(t) /\ Types /\ QueueInv
      /\ \A x \in Requests : x \in DOMAIN pc /\ x \in DOMAIN user
  BY StepBasics, Arrived, TypesOfTypeOK DEF Basics, TypeOK
<1>1. \A x \in Requests \ {t} : pc'[x] = pc[x] /\ user'[x] = user[x]
  BY OtherFacts
<1>2. Flows \subseteq Requests
  BY DEF Requests
<1>3. CASE RollsBack(t)
  <2>1. rows' = disk /\ disk.links = {} /\ t \in Flows /\ pc[t] = "rollback" /\ AtHead(t) /\ pc'[t] = "relink"
    BY <1>0, <1>3 DEF RollsBack, Goes
  <2>2. rows'.seq = k
    BY <2>1 DEF AgreeInv
  <2>3. ASSUME NEW g \in Flows, pc'[g] = "ins_link" PROVE FALSE
    <3>1. g # t /\ pc[g] = "ins_link"
      BY <1>1, <1>2, <2>1, <2>3
    <3>2. g \in traffic
      BY <1>2, <3>1, Kinds DEF Basics, PlaceInv, PlaceOf
    <3>3. Before(g, t)
      BY <1>0, <2>1, <3>1, <3>2 DEF CoupleInv
    <3> QED BY <1>0, <2>1, <3>3, HeadFirst
  <2> QED BY <2>2, <2>3 DEF FirstHolds
<1>4. CASE ~RollsBack(t)
  <2>1. rows.links = {}
    BY <1>4, RowsGrow
  <2>2. FirstHolds(k)
    BY <2>1 DEF AgreeInv, FirstHolds
  <2>3. CASE Inserts(t)
    <3>1. /\ t \in Flows /\ pc[t] = "insert" /\ pc'[t] = "ins_link" /\ user'[t].id = rows.seq + 1
          /\ rows'.seq = rows.seq + 1
      BY <1>0, <2>3, FlowsWrite, FlowTurns, Kinds, TypesOfTypeOK DEF Inserts, Goes, NewUser, Couple, NoSignup
    <3>2. CASE rows.seq = k /\ \A f \in Flows : pc[f] # "ins_link"
      BY <1>0, <1>1, <1>2, <3>1, <3>2 DEF FirstHolds
    <3>3. ASSUME NEW f \in traffic \cap Flows, pc[f] = "ins_link", user[f].id = k + 1,
                 \A g \in Flows \ {f} : pc[g] = "ins_link" => Before(f, g)
          PROVE  FirstHolds(k)'
      <4>1. f # t /\ pc'[f] = "ins_link" /\ user'[f].id = k + 1
        BY <1>1, <1>2, <3>1, <3>3
      <4>2. Before(f, t)'
        BY <1>0, <1>2, <3>1, <3>3, <4>1 DEF Shifts, Busy
      <4>3. ASSUME NEW g \in Flows \ {f}, pc'[g] = "ins_link" PROVE Before(f, g)'
        <5>1. CASE g = t
          BY <4>2, <5>1
        <5>2. CASE g # t
          BY <1>0, <1>1, <1>2, <3>3, <4>1, <4>3, <5>2 DEF Shifts
        <5> QED BY <5>1, <5>2
      <4> QED BY <1>0, <4>1, <4>3 DEF FirstHolds
    <3> QED BY <2>2, <3>2, <3>3 DEF FirstHolds
  <2>4. CASE ~Inserts(t)
    <3>1. ~Links(t)
      BY LinkAdded
    <3>2. Keeps(t) \/ Commits(t)
      BY <1>4, <2>4, <3>1, TableStep, FlowsWrite, Kinds DEF Basics, Updates
    <3>3. rows' = rows
      BY <3>2 DEF Keeps, Commits
    <3>4. t \in Flows => pc[t] # "ins_link" /\ pc'[t] # "ins_link"
      BY <1>4, <2>1, <2>4, <3>1, FlowTurns DEF FlowTurn, Linked
    <3>5. CASE rows.seq = k /\ \A f \in Flows : pc[f] # "ins_link"
      BY <1>1, <1>2, <3>3, <3>4, <3>5 DEF FirstHolds
    <3>6. ASSUME NEW f \in traffic \cap Flows, pc[f] = "ins_link", user[f].id = k + 1,
                 \A g \in Flows \ {f} : pc[g] = "ins_link" => Before(f, g)
          PROVE  FirstHolds(k)'
      <4>1. f # t /\ pc'[f] = "ins_link" /\ user'[f].id = k + 1
        BY <1>1, <1>2, <3>4, <3>6
      <4>2. ASSUME NEW g \in Flows \ {f}, pc'[g] = "ins_link" PROVE Before(f, g)'
        BY <1>0, <1>1, <1>2, <3>4, <3>6, <4>1, <4>2 DEF Shifts
      <4> QED BY <1>0, <4>1, <4>2 DEF FirstHolds
    <3> QED BY <2>2, <3>5, <3>6 DEF FirstHolds
  <2> QED BY <2>3, <2>4
<1> QED BY <1>3, <1>4

LEMMA UndoneStep ==
  ASSUME Basics, Couple, NoAdmin, NEW k \in Nat, AgreeInv(k), NEW t \in Requests, Step(t),
         rows'.links = {}, NEW f \in Flows, pc'[f] = "commit"
  PROVE  Undone(f, k)'
<1>0. /\ UNCHANGED traffic /\ t \in traffic /\ Shifts(t) /\ Types /\ QueueInv /\ PlaceInv /\ f \in Requests
      /\ t \in DOMAIN pc
  BY StepBasics, Arrived, TypesOfTypeOK DEF Basics, TypeOK, Requests
<1>1. t # f
  <2> SUFFICES ASSUME t = f PROVE FALSE
    OBVIOUS
  <2>1. Links(f)
    BY FlowTurns DEF FlowTurn
  <2> QED BY <2>1 DEF Links
<1>2. pc[f] = "commit"
  BY <1>0, <1>1, OtherFacts
<1>3. f \in traffic
  BY <1>0, <1>2, Kinds DEF PlaceInv, PlaceOf
<1>4. CASE RollsBack(t)
  <2>1. rows' = disk /\ t \in Flows
    BY <1>4 DEF RollsBack
  <2>2. rows'.seq = k
    BY <2>1 DEF AgreeInv
  <2>3. pc'[t] = "relink" /\ hop'[t] = 0
    BY <1>0, <1>4, <2>1, FlowTurns DEF FlowTurn, RollsBack, Goes, PlaceInv, PlaceOf, Selects
  <2>4. Before(f, t)'
    BY <1>0, <1>1, <1>2, <2>3 DEF Shifts, Busy, Selects
  <2>5. \A g \in (traffic \cap Flows) \ {f} : g = t
    BY <1>0, <1>1, <1>3, <2>1 DEF Couple, TwoFlows
  <2> QED BY <1>0, <2>2, <2>3, <2>4, <2>5 DEF Undone
<1>5. CASE ~RollsBack(t)
  <2>1. rows.links = {}
    BY <1>5, RowsGrow
  <2>2. /\ rows.seq = k
        /\ \A g \in (traffic \cap Flows) \ {f} : pc[g] = "relink" /\ hop[g] = 0 /\ Before(f, g)
    BY <1>2, <2>1 DEF AgreeInv
  <2>3. t \notin Flows
    <3> SUFFICES ASSUME t \in Flows PROVE FALSE
      OBVIOUS
    <3>1. pc[t] = "relink" /\ Before(f, t)
      BY <1>0, <1>1, <2>2
    <3>2. PICK p \in Places : Moves(t, p)
      BY <1>0, StepMoves
    <3>3. AtHead(t)
      BY <3>1, <3>2 DEF Moves, Busy, Selects
    <3> QED BY <1>0, <3>1, <3>3, HeadFirst
  <2>4. rows' = rows
    BY <2>3, FlowsWrite DEF Keeps
  <2>5. ASSUME NEW g \in (traffic \cap Flows) \ {f}
        PROVE  pc'[g] = "relink" /\ hop'[g] = 0 /\ Before(f, g)'
    <3>1. g \in Requests \ {t}
      BY <2>3 DEF Requests
    <3> QED BY <1>0, <1>1, <2>2, <3>1, OtherFacts DEF Shifts
  <2> QED BY <1>0, <2>2, <2>4, <2>5 DEF Undone
<1> QED BY <1>4, <1>5

LEMMA AgreeStep ==
  ASSUME Basics, Couple, NoAdmin, CoupleInv, NEW k \in Nat, AgreeInv(k), NEW t \in Requests, Step(t)
  PROVE  AgreeInv(k)'
<1>0. UNCHANGED traffic /\ t \in traffic
  BY StepBasics, Arrived
<1>1. ASSUME NEW l \in rows'.links PROVE l.id = k + 1 /\ \E f \in traffic \cap Flows : l.sub = Subject[f]
  <2>1. CASE Links(t)
    <3>1. user[t].id = k + 1 /\ t \in Flows
          /\ rows'.links = rows.links \cup {[sub |-> Subject[t], id |-> user[t].id]}
      BY <2>1, FirstLink DEF Links
    <3> QED BY <1>0, <3>1 DEF AgreeInv
  <2>2. CASE ~Links(t)
    BY <2>2, LinksCome DEF AgreeInv
  <2> QED BY <2>1, <2>2
<1>2. disk'.links = {} => disk'.seq = k
  <2>1. CASE Commits(t)
    <3>1. disk' = rows /\ t \in Flows /\ pc[t] = "commit"
      BY <1>0, <2>1, Kinds DEF Commits, Goes, Couple, NoSignup, NoAdmin
    <3> QED BY <3>1 DEF AgreeInv
  <2>2. CASE ~Commits(t)
    <3>1. disk' = disk
      BY <2>2, TableStep DEF Basics, Keeps, Inserts, RollsBack, Links, Updates
    <3> QED BY <3>1 DEF AgreeInv
  <2> QED BY <2>1, <2>2
<1>3. ASSUME NEW f \in Flows
      PROVE  /\ pc'[f] = "commit" => user'[f].id = k + 1
             /\ pc'[f] \in {"link", "relink"} /\ hop'[f] > 0 /\ user'[f] # NoUser => user'[f].id = k + 1
  <2>0. f \in Requests /\ f \in DOMAIN user
    BY DEF Requests, Basics, TypeOK
  <2>1. CASE t # f
    BY <2>0, <2>1, OtherFacts DEF AgreeInv
  <2>2. CASE t = f
    <3>1. FlowTurn(f)
      BY <2>2, FlowTurns
    <3>2. pc'[f] = "commit" => Links(f)
      BY <3>1 DEF FlowTurn
    <3>3. Links(f) => user'[f].id = k + 1
      BY <2>0, <2>2, FirstLink DEF Links
    <3>4. ASSUME pc'[f] \in {"link", "relink"}, hop'[f] > 0, user'[f] # NoUser PROVE user'[f].id = k + 1
      <4>1. (Execute(f) \/ Fetch(f)) /\ pc[f] \in {"link", "relink"}
        BY <3>1, <3>4 DEF FlowTurn
      <4>2. CASE Execute(f)
        <5>1. user'[f] = ByExternalId(Subject[f])
          BY <2>0, <4>1, <4>2 DEF Execute
        <5>2. \E l \in rows.links : l.id = user'[f].id
          BY <3>4, <5>1, FoundNone
        <5> QED BY <5>2 DEF AgreeInv
      <4>3. CASE Fetch(f)
        BY <3>4, <4>1, <4>3 DEF Fetch, AgreeInv
      <4> QED BY <4>1, <4>2, <4>3
    <3> QED BY <3>2, <3>3, <3>4
  <2> QED BY <2>1, <2>2
<1>4. ASSUME NEW b \in Browsers, jar'[b].session.by \in Flows PROVE jar'[b].session.id = k + 1
  <2>1. SessionChange(t, b)
    BY JarChange DEF Basics
  <2>2. CASE jar'[b].session = jar[b].session
    BY <1>4, <2>2 DEF AgreeInv
  <2>3. CASE jar'[b].session = NewSession(t) /\ (LoggedIn(t) \/ SignedIn(t))
    <3>1. t \in Flows /\ jar'[b].session.id = user[t].id
      BY <1>4, <2>3 DEF NewSession
    <3>2. SignedIn(t)
      BY <2>3, <3>1, Kinds DEF LoggedIn
    <3> QED BY <3>1, <3>2 DEF SignedIn, AgreeInv
  <2> QED BY <2>1, <2>2, <2>3 DEF SessionChange
<1>5. rows'.links = {} => FirstHolds(k)'
  BY FirstStep
<1>6. \A f \in Flows : pc'[f] = "commit" /\ rows'.links = {} => Undone(f, k)'
  BY UndoneStep
<1> QED BY <1>0, <1>1, <1>2, <1>3, <1>4, <1>5, <1>6 DEF AgreeInv, FirstHolds, Undone

-----------------------------------------------------------------------------
(***************************************************************************)
(* The inductive invariant.                                                 *)
(***************************************************************************)
Inv ==
    /\ Basics /\ OneFlowInv /\ LinkInv /\ CoupleInv /\ RivalInv /\ SignupInv
    /\ CoupleAgrees

LEMMA StartInv ==
  ASSUME NEW k \in 0..Len(Early), Start(k)
  PROVE  Inv
<1>1. /\ k \in Nat /\ rows.seq = k /\ disk.seq = k /\ rows.links = {} /\ disk.links = {}
      /\ rows.users = disk.users
      /\ \A u \in rows.users : \E i \in 1..k : u = EarlyUser(i) /\ u.id = i /\ u.key = Early[i]
                                     /\ Early[i] \in Signups
      /\ \A t \in Requests : IF IsEarly(t, k)
               THEN t \in Signups \ traffic /\ pc[t] = "done" /\ user[t] \in rows.users /\ user[t].key = t
               ELSE pc[t] = "idle" /\ user[t] = NoUser
      /\ \A b \in Browsers : jar[b].session = NoSession /\ jar[b].csrf = NoOne
      /\ \A t \in Requests : hop[t] = 0
      /\ \A i \in 1..k : IsEarly(Early[i], k)
  BY StartFacts
<1>2. /\ Flows \subseteq Requests /\ Signups \subseteq Requests /\ Logins \subseteq Requests
      /\ \A f \in Flows \cup Logins : pc[f] = "idle"
      /\ \A s \in Signups : pc[s] \in {"idle", "done"}
  BY <1>1, Kinds DEF Requests
<1>3. \A b \in Browsers : jar[b].session.by = NoOne /\ NoOne \notin Flows /\ NoOne \notin Logins
  BY <1>1, SignInAssumption DEF NoSession, Requests
<1>4. Basics
  BY StartBasics
<1>5. OneFlowInv /\ LinkInv /\ CoupleInv /\ RivalInv
  BY <1>1, <1>2, <1>3 DEF OneFlowInv, LinkInv, LinksHold, CoupleInv, RivalInv, FoundFree
<1>6. \A s \in Signups : pc[s] = "done" =>
         user[s] \in rows.users /\ user[s].key = s /\ Holds(disk, user[s].id, s) /\ user[s].id <= k
  <2>1. \A s \in Signups : pc[s] = "done" => user[s] \in rows.users /\ user[s].key = s
    BY <1>1, <1>2
  <2>2. \A u \in rows.users : u.id <= k
    BY <1>1
  <2> QED BY <1>1, <2>1, <2>2 DEF Holds
<1>7. SignupInv
  BY <1>2, <1>3, <1>6 DEF SignupInv
<1>9. CoupleAgrees
  <2>1. AgreeInv(k)
    BY <1>1, <1>2, <1>3 DEF AgreeInv
  <2> QED BY <1>1, <2>1 DEF CoupleAgrees
<1> QED BY <1>4, <1>5, <1>7, <1>9 DEF Inv

LEMMA LogoutInv ==
  ASSUME Inv, NEW b \in Browsers, Logout(b)
  PROVE  Inv'
<1>0. /\ UNCHANGED <<traffic, rows, disk, pc, name, user, queue, hop, at, crashes>>
      /\ jar' = [jar EXCEPT ![b].session = NoSession]
      /\ jar \in [Browsers -> Cookies]
  BY DEF Logout, Inv, Basics, TypeOK, Cookies
<1>1. \A c \in Browsers : jar'[c].session \in {jar[c].session, NoSession}
  BY <1>0 DEF Cookies
<1>2. \A c \in Browsers : jar'[c].session = jar[c].session
                          \/ (jar'[c].session.by \notin Flows /\ jar'[c].session.by \notin Logins)
  BY <1>1, SignInAssumption DEF NoSession, Requests
<1>3. Basics'
  BY LogoutBasics DEF Inv
<1>4. OneFlowInv' /\ LinkInv'
  BY <1>0, <1>2 DEF Inv, OneFlowInv, OneFlow, LinkInv, Holds, LinksHold, Couple, TwoFlows, OneSubject, NoSignup
<1>5. CoupleInv' /\ RivalInv'
  BY <1>0 DEF Inv, CoupleInv, Couple, TwoFlows, OneSubject, NoSignup, RivalInv, OneFlow, OneSignup, FoundFree,
     Taken, Before
<1>6. SignupInv'
  BY <1>0, <1>2 DEF Inv, SignupInv, Unrivalled, NoSignup, NoFlow, OneFlow, OneSignup, Holds, Before
<1>8. CoupleAgrees'
  <2> SUFFICES ASSUME Couple, NoAdmin PROVE \E k \in Nat : AgreeInv(k)'
    BY <1>0 DEF CoupleAgrees, Couple, TwoFlows, OneSubject, NoSignup, NoAdmin
  <2>1. PICK k \in Nat : AgreeInv(k)
    BY DEF Inv, CoupleAgrees
  <2>2. AgreeInv(k)'
    BY <1>0, <1>2, <2>1 DEF AgreeInv, Before
  <2> QED BY <2>2
<1> QED BY <1>3, <1>4, <1>5, <1>6, <1>8 DEF Inv

LEMMA CrashInv ==
  ASSUME Inv, Crash
  PROVE  Inv'
<1>0. /\ rows' = disk /\ hop' = [t \in Requests |-> 0]
      /\ pc' = [t \in Requests |-> IF pc[t] \in {"idle", "away", "done", "failed"} THEN pc[t] ELSE "failed"]
      /\ UNCHANGED <<traffic, disk, name, user, jar, at>>
  BY DEF Crash
<1>1. /\ \A t \in Flows : pc'[t] = (IF pc[t] \in {"idle", "away", "done", "failed"} THEN pc[t] ELSE "failed")
      /\ \A t \in Logins : pc'[t] = (IF pc[t] \in {"idle", "away", "done", "failed"} THEN pc[t] ELSE "failed")
      /\ \A t \in Signups : pc'[t] \in {"idle", "away", "done", "failed"} /\ (pc'[t] = "done" <=> pc[t] = "done")
  BY <1>0 DEF Requests
<1>2. disk.links \subseteq rows.links
  BY DEF Inv, Basics, TableInv
<1>3. Basics'
  BY CrashBasics DEF Inv
<1>4. OneFlowInv' /\ LinkInv'
  <2>1. OneFlowInv'
    BY <1>0, <1>1, <1>2 DEF Inv, OneFlowInv, OneFlow, Holds
  <2>2. LinkInv'
    BY <1>0, <1>1 DEF Inv, LinkInv, OneFlow, LinksHold, Couple, TwoFlows, OneSubject, NoSignup
  <2> QED BY <2>1, <2>2
<1>5. CoupleInv' /\ RivalInv'
  <2>1. \A f \in Flows : pc'[f] \notin {"exists", "insert", "rollback"}
    BY <1>1
  <2>2. rows'.links # {} => rows.links # {}
    BY <1>0, <1>2
  <2>3. \A f \in Flows : pc[f] \in {"commit", "done", "failed"} => pc'[f] \in {"commit", "done", "failed"}
    BY <1>1
  <2> QED BY <1>0, <2>1, <2>2, <2>3 DEF Inv, CoupleInv, Couple, TwoFlows, OneSubject, NoSignup, RivalInv, FoundFree
<1>6. SignupInv'
  BY <1>0, <1>1 DEF Inv, SignupInv, Unrivalled, NoSignup, NoFlow, OneFlow, OneSignup, Holds
<1>8. CoupleAgrees'
  <2> SUFFICES ASSUME Couple, NoAdmin PROVE \E k \in Nat : AgreeInv(k)'
    BY <1>0 DEF CoupleAgrees, Couple, TwoFlows, OneSubject, NoSignup, NoAdmin
  <2>1. PICK k \in Nat : AgreeInv(k)
    BY DEF Inv, CoupleAgrees
  <2>2. \A f \in Flows : pc'[f] \notin {"ins_link", "commit", "link", "relink"}
    BY <1>1
  <2>3. AgreeInv(k)'
    BY <1>0, <1>2, <2>1, <2>2 DEF AgreeInv
  <2> QED BY <2>3
<1> QED BY <1>3, <1>4, <1>5, <1>6, <1>8 DEF Inv

LEMMA StepInv ==
  ASSUME Inv, NEW t \in Requests, Step(t)
  PROVE  Inv'
<1>1. Basics' /\ UNCHANGED traffic
  BY StepBasics DEF Inv
<1>2. OneFlowInv' /\ LinkInv' /\ CoupleInv' /\ RivalInv' /\ SignupInv'
  BY OneFlowStep, LinkStep, CoupleStep, RivalStep, SignupStep DEF Inv
<1>3. CoupleAgrees'
  <2> SUFFICES ASSUME Couple, NoAdmin PROVE \E k \in Nat : AgreeInv(k)'
    BY <1>1 DEF CoupleAgrees, Couple, TwoFlows, OneSubject, NoSignup, NoAdmin
  <2>1. PICK k \in Nat : AgreeInv(k)
    BY DEF Inv, CoupleAgrees
  <2>2. AgreeInv(k)'
    BY <2>1, AgreeStep DEF Inv
  <2> QED BY <2>2
<1> QED BY <1>1, <1>2, <1>3 DEF Inv

LEMMA SameInv ==
  ASSUME Inv, UNCHANGED vars
  PROVE  Inv'
<1>0. UNCHANGED <<traffic, rows, disk, pc, name, user, queue, hop, jar, at, crashes>>
  BY DEF vars
<1>1. Basics'
  BY <1>0 DEF Inv, Basics, TypeOK, QueueInv, InQueue, PlaceInv, PlaceOf, TableInv, Holds, Within, CountInv,
     SpentSignups, SpentNames, BrowserInv, OwnBrowser, SessionTraffic
<1>2. OneFlowInv' /\ LinkInv' /\ CoupleInv' /\ RivalInv'
  BY <1>0 DEF Inv, OneFlowInv, OneFlow, LinkInv, Holds, LinksHold, Couple, TwoFlows, OneSubject, NoSignup,
     CoupleInv, RivalInv, OneSignup, FoundFree, Taken, Before
<1>3. SignupInv'
  BY <1>0 DEF Inv, SignupInv, Unrivalled, NoSignup, NoFlow, OneFlow, OneSignup, Holds, Before
<1>4. CoupleAgrees'
  BY <1>0 DEF Inv, CoupleAgrees, Couple, TwoFlows, OneSubject, NoSignup, NoAdmin, AgreeInv, Before
<1> QED BY <1>1, <1>2, <1>3, <1>4 DEF Inv

LEMMA InvHolds == Spec => []Inv
<1>1. Init => Inv
  BY InitStart, StartInv
<1>2. Inv /\ [Next]_vars => Inv'
  BY NextSteps, StepInv, LogoutInv, CrashInv, SameInv DEF AnyStep
<1> QED BY <1>1, <1>2, PTL DEF Spec

-----------------------------------------------------------------------------
(***************************************************************************)
(* Theorems.                                                                *)
(***************************************************************************)
\* The database handlers: every variable keeps its type; in particular no more
\* ids are given out than sign-ups and names tried, whatever is rolled back.
THEOREM TypeCorrect == Spec => []TypeOK
<1>1. Inv => TypeOK
  BY DEF Inv, Basics
<1> QED BY <1>1, InvHolds, PTL

\* oidc_login and oidc_callback: whatever else goes on, a session lands only in
\* the browser in which the sign-in was started.
THEOREM BrowserBound == Spec => []OwnBrowser
<1>1. Inv => OwnBrowser
  BY DEF Inv, Basics, BrowserInv
<1> QED BY <1>1, InvHolds, PTL

\* create_external_user: with one single sign-on beside any number of sign-ups,
\* logins and administrators, or with two of one person while nobody signs up,
\* a committed link always leads to a committed account made for its subject.
THEOREM LinksSound == Spec => [](OneFlow \/ Couple => AccountsSound)
<1>1. Inv => (OneFlow \/ Couple => AccountsSound)
  BY DEF Inv, Basics, LinkInv, LinksHold, AccountsSound, LinkHasAccount
<1> QED BY <1>1, InvHolds, PTL

\* create_user: an account reported to whoever signed up is on disk, as long as
\* a single sign-on runs beside at most one sign-up.
THEOREM SignupsLast == Spec => [](Unrivalled => SignupDurable)
<1>1. Inv => (Unrivalled => SignupDurable)
  BY DEF Inv, SignupInv, Holds, SignupDurable
<1> QED BY <1>1, InvHolds, PTL

LEMMA SessionArrived ==
  ASSUME Inv, NEW b \in Browsers, jar[b].session.by \in Flows
  PROVE  jar[b].session.by \in traffic \cap Flows /\ Browser[jar[b].session.by] = b
<1>1. jar[b].session # NoSession
  BY SignInAssumption DEF NoSession, Requests
<1> QED BY <1>1 DEF Inv, Basics, SessionTraffic, BrowserInv, OwnBrowser

\* oidc_callback: the sessions of one subject name the same account, with one
\* single sign-on beside anything, and with two first logins of one person at
\* the same time while nobody signs up and no account is being disabled.
THEOREM OnePersonOneAccount == Spec => [](OneFlow \/ (Couple /\ NoAdmin) => SessionsAgree)
<1>1. ASSUME Inv, OneFlow \/ (Couple /\ NoAdmin)
      PROVE  SessionsAgree
  <2> SUFFICES ASSUME NEW b \in Browsers, NEW c \in Browsers,
                      jar[b].session.by \in Flows, jar[c].session.by \in Flows
               PROVE  jar[b].session.id = jar[c].session.id
    BY DEF SessionsAgree
  <2>1. CASE OneFlow
    <3>1. jar[b].session.by = jar[c].session.by
      BY <1>1, <2>1, SessionArrived DEF OneFlow
    <3>2. b = c
      BY <1>1, <3>1, SessionArrived
    <3> QED BY <3>2
  <2>2. CASE Couple /\ NoAdmin
    <3>1. PICK k \in Nat : AgreeInv(k)
      BY <1>1, <2>2 DEF Inv, CoupleAgrees
    <3> QED BY <3>1 DEF AgreeInv
  <2> QED BY <1>1, <2>1, <2>2
<1>2. Inv => (OneFlow \/ (Couple /\ NoAdmin) => SessionsAgree)
  BY <1>1
<1> QED BY <1>2, InvHolds, PTL
=============================================================================
