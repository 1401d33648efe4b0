------------------------------- MODULE Access -------------------------------
(***************************************************************************)
(* Access to a mount: its policy in the registry database, the decision for *)
(* a visitor (authorize), requests for access and their resolution, and the *)
(* agent that writes its policy again whenever it reconnects.  The groups a *)
(* decision depends on come from the accounts database (module Groups); the *)
(* two databases have separate connections and separate transactions.       *)
(***************************************************************************)
EXTENDS Groups

CONSTANTS
    Agents,      \* connections of the mount's agent, each registers or reclaims once
    Requests,    \* POST /api/access-requests
    Asker,       \* who sends each
    Resolvers,   \* POST /api/access-requests/{id}/resolve
    Person,      \* who sends each
    Owner,       \* the account that owns the mount
    RelayAdmins, \* accounts named in the relay's configuration
    Sweep,       \* the TTL sweep's retention
    Policies     \* policies agents register with

Roles == {"read", "receive", "write"}
Rank == [r \in Roles |-> CASE r = "read" -> 1 [] r = "receive" -> 2 [] r = "write" -> 3]
Entry == [subject : Members, role : Roles]
Modes == {"open", "restricted", "legacy"}
Mount == [owner : Users \cup {NoName}, mode : Modes, pw : BOOLEAN]
NoMount == [mode |-> "absent"]
\* register() inserts a row before the policy is known.
NewMount == [owner |-> NoName, mode |-> "open", pw |-> FALSE]
Statuses == {"none", "pending", "approved", "denied"}
Policy == [mount : Mount \cup {NoMount}, entries : SUBSET Entry]

ASSUME AccessAssumption ==
    /\ Asker \in [Requests -> Users] /\ Person \in [Resolvers -> Users]
    /\ Owner \in Users /\ RelayAdmins \subseteq Users
    /\ Policies \subseteq Policy /\ \A s \in Starts : s.policies \subseteq Policy

VARIABLES
    mount, entries,   \* the row of mounts and those of mount_policy
    asked,            \* access_requests: user -> status
    written,          \* the three as last committed
    vpc, seen,        \* visitor: place, and the policy it read
    verdict,          \* what it was told: an outcome and a role
    shifted,          \* visitors during whose request the policy changed
    apc, plan,        \* agent: place, and what it has yet to write
    qpc,              \* request: place
    rpc, about, role  \* resolver: place, the request's user, the role granted

registry == <<mount, entries, asked, written>>
visitor == <<vpc, seen, verdict, shifted>>
agent == <<apc, plan>>
resolver == <<rpc, about, role>>
vars == <<gvars, registry, visitor, agent, qpc, resolver>>

Visitors == Walkers
NoVerdict == [outcome |-> "none", role |-> NoName]

SetPolicy(m, e) ==
    /\ mount' = m /\ entries' = e
    /\ shifted' = IF m = mount /\ e = entries THEN shifted ELSE Visitors
Save == written' = [mount |-> mount, entries |-> entries, asked |-> asked]
-----------------------------------------------------------------------------
(***************************************************************************)
(* authorize.                                                               *)
(***************************************************************************)
\* Mutant: the least permissive role wins.
Lowest(roles) == CHOOSE r \in roles : \A q \in roles : Rank[r] <= Rank[q]
Highest(roles) == CHOOSE r \in roles : \A q \in roles : Rank[q] <= Rank[r]
Matched(w, e) == {x.role : x \in {y \in e : y.subject = WalkUser[w] \/ y.subject \in acc[w]}}

\* What a visitor who is not on the allowlist is told.
ByMode(w, m) ==
    [outcome |-> IF m.mode \in {"open", "legacy"} \/ m.pw THEN "anonymous"
                 ELSE IF WalkUser[w] = NoName THEN "login" ELSE "denied",
     role |-> NoName]
Decision(w, m, e) ==
    IF WalkUser[w] # NoName /\ Matched(w, e) # {}
    THEN [outcome |-> "identified", role |-> Highest(Matched(w, e))]
    ELSE ByMode(w, m)

Told(w, v) ==
    /\ verdict' = [verdict EXCEPT ![w] = v]
    /\ vpc' = [vpc EXCEPT ![w] = IF v.outcome \in {"anonymous", "identified"} THEN "route" ELSE "end"]

\* get_policy: SELECT the row; if there is none, let the lookup say so.
ReadMount(w) ==
    /\ w \in traffic /\ vpc[w] = "idle"
    /\ shifted' = shifted \ {w}
    /\ seen' = [seen EXCEPT ![w] = [mount |-> mount, entries |-> {}]]
    /\ \/ mount = NoMount /\ Told(w, [outcome |-> "anonymous", role |-> NoName])
       \/ mount # NoMount /\ vpc' = [vpc EXCEPT ![w] = "entries"] /\ UNCHANGED verdict
    /\ UNCHANGED <<gvars, registry, agent, qpc, resolver>>

\* ... SELECT the allowlist, then resolve the groups of a signed-in visitor.
ReadEntries(w) ==
    /\ vpc[w] = "entries"
    /\ seen' = [seen EXCEPT ![w].entries = entries]
    /\ \/ /\ WalkUser[w] # NoName /\ StartWalk(w)
          /\ vpc' = [vpc EXCEPT ![w] = "match"] /\ UNCHANGED verdict
       \/ /\ WalkUser[w] = NoName /\ UNCHANGED walk
          /\ Told(w, ByMode(w, seen[w].mount))
    /\ UNCHANGED <<traffic, tables, writer, crashes, registry, shifted, agent, qpc, resolver>>

WalkOn(w) ==
    /\ vpc[w] = "match" /\ WalkStep(w)
    /\ UNCHANGED <<traffic, tables, writer, crashes, registry, visitor, agent, qpc, resolver>>

\* The decision; a cycle in the groups is an error of the server.
Decide(w) ==
    /\ vpc[w] = "match" /\ wpc[w] \in {"resolved", "cycle"}
    /\ Told(w, IF wpc[w] = "cycle" THEN [outcome |-> "error", role |-> NoName]
               ELSE Decision(w, seen[w].mount, seen[w].entries))
    /\ UNCHANGED <<gvars, registry, seen, shifted, agent, qpc, resolver>>

\* get_connection, after authorize.
Route(w) ==
    /\ vpc[w] = "route"
    /\ vpc' = [vpc EXCEPT ![w] = IF mount = NoMount THEN "not_found" ELSE "served"]
    /\ UNCHANGED <<gvars, registry, seen, verdict, shifted, agent, qpc, resolver>>
-----------------------------------------------------------------------------
(***************************************************************************)
(* The agent: register or reclaim, then set_owner_policy.                   *)
(***************************************************************************)
\* The row is inserted or set ONLINE and committed.
Dial(k) ==
    /\ k \in traffic /\ apc[k] = "idle"
    /\ \E p \in Policies : plan' = [plan EXCEPT ![k] = p]
    /\ apc' = [apc EXCEPT ![k] = "update"]
    /\ LET m == IF mount = NoMount THEN NewMount ELSE mount IN
          SetPolicy(m, entries) /\ written' = [mount |-> m, entries |-> entries, asked |-> asked]
    /\ UNCHANGED <<gvars, asked, vpc, seen, verdict, qpc, resolver>>

UpdateMount(k) ==
    /\ apc[k] = "update"
    /\ apc' = [apc EXCEPT ![k] = IF mount = NoMount THEN "end" ELSE "clear"]
    /\ SetPolicy(IF mount = NoMount THEN mount ELSE plan[k].mount, entries)
    /\ UNCHANGED <<gvars, asked, written, vpc, seen, verdict, plan, qpc, resolver>>

ClearEntries(k) ==
    /\ apc[k] = "clear" /\ apc' = [apc EXCEPT ![k] = "fill"]
    /\ SetPolicy(mount, {})
    /\ UNCHANGED <<gvars, asked, written, vpc, seen, verdict, plan, qpc, resolver>>

\* INSERT OR REPLACE of one entry.
Put(e, set) == {x \in set : x.subject # e.subject} \cup {e}
FillEntry(k) ==
    /\ apc[k] = "fill"
    /\ \E e \in plan[k].entries :
          /\ SetPolicy(mount, Put(e, entries))
          /\ plan' = [plan EXCEPT ![k].entries = @ \ {e}]
    /\ UNCHANGED <<gvars, asked, written, vpc, seen, verdict, apc, qpc, resolver>>

CommitPolicy(k) ==
    /\ apc[k] = "fill" /\ plan[k].entries = {}
    /\ apc' = [apc EXCEPT ![k] = "end"] /\ Save
    /\ UNCHANGED <<gvars, mount, entries, asked, visitor, plan, qpc, resolver>>

\* The sweep deletes the row of a mount that expired; its policy rows stay.
Retire ==
    /\ Sweep \in traffic /\ mount # NoMount
    /\ \A k \in Agents : apc[k] \in {"idle", "end"}
    /\ SetPolicy(NoMount, entries)
    /\ written' = [mount |-> NoMount, entries |-> entries, asked |-> asked]
    /\ UNCHANGED <<gvars, asked, vpc, seen, verdict, agent, qpc, resolver>>
-----------------------------------------------------------------------------
(***************************************************************************)
(* Requests for access.                                                     *)
(***************************************************************************)
CreateRequest(q) ==
    /\ \/ /\ q \in traffic /\ qpc[q] = "idle" /\ qpc' = [qpc EXCEPT ![q] = "commit"]
          /\ asked' = [asked EXCEPT ![Asker[q]] = IF @ = "none" THEN "pending" ELSE @]
          /\ UNCHANGED written
       \/ qpc[q] = "commit" /\ qpc' = [qpc EXCEPT ![q] = "end"] /\ Save /\ UNCHANGED asked
    /\ UNCHANGED <<gvars, mount, entries, visitor, agent, resolver>>

\* get_access_request, then the row and the entries of get_policy.
GetRequest(r) ==
    /\ r \in traffic /\ rpc[r] = "idle"
    /\ \E u \in Users :
          /\ about' = [about EXCEPT ![r] = u]
          /\ rpc' = [rpc EXCEPT ![r] = IF asked[u] = "none" THEN "end" ELSE "policy"]
    /\ UNCHANGED <<gvars, registry, visitor, agent, qpc, role>>

MayResolve(r) == mount.owner = Person[r] \/ Person[r] \in RelayAdmins
Resolve(r) ==
    /\ rpc[r] = "policy"
    /\ \/ mount = NoMount /\ rpc' = [rpc EXCEPT ![r] = "end"] /\ UNCHANGED role
       \/ mount # NoMount /\ ~MayResolve(r) /\ rpc' = [rpc EXCEPT ![r] = "end"] /\ UNCHANGED role
       \/ /\ mount # NoMount /\ MayResolve(r)
          /\ \/ rpc' = [rpc EXCEPT ![r] = "deny"] /\ UNCHANGED role
             \/ /\ rpc' = [rpc EXCEPT ![r] = "check"]
                /\ \E x \in Roles : role' = [role EXCEPT ![r] = x]
    /\ UNCHANGED <<gvars, registry, visitor, agent, qpc, about>>

\* add_policy_entry: is there a mount, INSERT OR REPLACE, commit.
CheckMount(r) ==
    /\ rpc[r] = "check"
    /\ rpc' = [rpc EXCEPT ![r] = IF mount = NoMount THEN "end" ELSE "grant"]
    /\ UNCHANGED <<gvars, registry, visitor, agent, qpc, about, role>>
\* Mutant: the entry names whoever resolves the request.
GrantToResolver(r) ==
    /\ rpc[r] = "grant" /\ rpc' = [rpc EXCEPT ![r] = "granted"]
    /\ SetPolicy(mount, Put([subject |-> Person[r], role |-> role[r]], entries))
    /\ UNCHANGED <<gvars, asked, written, vpc, seen, verdict, agent, qpc, about, role>>
Grant(r) ==
    /\ rpc[r] = "grant" /\ rpc' = [rpc EXCEPT ![r] = "granted"]
    /\ SetPolicy(mount, Put([subject |-> about[r], role |-> role[r]], entries))
    /\ UNCHANGED <<gvars, asked, written, vpc, seen, verdict, agent, qpc, about, role>>
CommitGrant(r) ==
    /\ rpc[r] = "granted" /\ rpc' = [rpc EXCEPT ![r] = "approve"] /\ Save
    /\ UNCHANGED <<gvars, mount, entries, asked, visitor, agent, qpc, about, role>>

\* resolve_access_request: the status last, then commit.
SetStatus(r) ==
    /\ \/ rpc[r] = "approve" /\ asked' = [asked EXCEPT ![about[r]] = "approved"]
       \/ rpc[r] = "deny" /\ asked' = [asked EXCEPT ![about[r]] = "denied"]
    /\ rpc' = [rpc EXCEPT ![r] = "commit"]
    /\ UNCHANGED <<gvars, mount, entries, written, visitor, agent, qpc, about, role>>
CommitStatus(r) ==
    /\ rpc[r] = "commit" /\ rpc' = [rpc EXCEPT ![r] = "end"] /\ Save
    /\ UNCHANGED <<gvars, mount, entries, asked, visitor, agent, qpc, about, role>>
-----------------------------------------------------------------------------
Crash ==
    /\ crashes < MaxCrashes /\ crashes' = crashes + 1
    /\ GroupsCrash
    /\ mount' = written.mount /\ entries' = written.entries /\ asked' = written.asked
    /\ vpc' = [w \in Visitors |-> "end"] /\ shifted' = {}
    /\ verdict' = [w \in Visitors |-> NoVerdict]
    /\ apc' = [k \in Agents |-> "end"] /\ qpc' = [q \in Requests |-> "end"]
    /\ rpc' = [r \in Resolvers |-> "end"]
    /\ UNCHANGED <<traffic, written, seen, plan, about, role>>

Init ==
    /\ \E s \in Starts : \E p \in s.policies :
          /\ GroupsInit(s)
          /\ mount = p.mount /\ entries = p.entries
    /\ asked = [u \in Users |-> "none"]
    /\ written = [mount |-> mount, entries |-> entries, asked |-> asked]
    /\ vpc = [w \in Visitors |-> "idle"] /\ verdict = [w \in Visitors |-> NoVerdict]
    /\ seen = [w \in Visitors |-> [mount |-> NoMount, entries |-> {}]] /\ shifted = {}
    /\ apc = [k \in Agents |-> "idle"]
    /\ plan = [k \in Agents |-> [mount |-> NoMount, entries |-> {}]]
    /\ qpc = [q \in Requests |-> "idle"]
    /\ rpc = [r \in Resolvers |-> "idle"] /\ about = [r \in Resolvers |-> Owner]
    /\ role = [r \in Resolvers |-> "read"]

VisitorNext(w) == ReadMount(w) \/ ReadEntries(w) \/ WalkOn(w) \/ Decide(w) \/ Route(w)
AgentNext(k) == Dial(k) \/ UpdateMount(k) \/ ClearEntries(k) \/ FillEntry(k) \/ CommitPolicy(k)
ResolverNext(r) ==
    \/ GetRequest(r) \/ Resolve(r) \/ CheckMount(r) \/ Grant(r) \/ CommitGrant(r)
    \/ SetStatus(r) \/ CommitStatus(r)

Next ==
    \/ GroupsNext /\ UNCHANGED <<registry, visitor, agent, qpc, resolver>>
    \/ \E w \in Visitors : VisitorNext(w)
    \/ \E k \in Agents : AgentNext(k)
    \/ \E q \in Requests : CreateRequest(q)
    \/ \E r \in Resolvers : ResolverNext(r)
    \/ Retire
    \/ Crash

Spec == Init /\ [][Next]_vars
-----------------------------------------------------------------------------
(***************************************************************************)
(* Properties.                                                              *)
(***************************************************************************)
\* Every variable has its type.
TypeOK ==
    /\ GroupsTypeOK
    /\ mount \in Mount \cup {NoMount} /\ entries \in SUBSET Entry /\ asked \in [Users -> Statuses]
    /\ written \in [mount : Mount \cup {NoMount}, entries : SUBSET Entry, asked : [Users -> Statuses]]
    /\ vpc \in [Visitors -> {"idle", "entries", "match", "route", "served", "not_found", "end"}]
    /\ seen \in [Visitors -> Policy] /\ shifted \in SUBSET Visitors
    /\ verdict \in [Visitors -> [outcome : {"none", "anonymous", "identified", "login", "denied", "error"},
                                 role : Roles \cup {NoName}]]
    /\ apc \in [Agents -> {"idle", "update", "clear", "fill", "end"}] /\ plan \in [Agents -> Policy]
    /\ qpc \in [Requests -> {"idle", "commit", "end"}]
    /\ rpc \in [Resolvers -> {"idle", "policy", "check", "grant", "granted", "approve", "deny",
                              "commit", "end"}]
    /\ about \in [Resolvers -> Users] /\ role \in [Resolvers -> Roles]

\* The hierarchy of groups has neither a cycle nor a loose end, in the tables and
\* on disk, across crashes: add_member's walk still holds when its edge is
\* inserted.  The runs and the theorem keep to the traffic in which the code
\* ensures it: one admin edits at a time, and no group is deleted beside sign-ins.
HierarchySound == TypeOK /\ Acyclic /\ NoDangling

\* The roles the policy gives a visitor, by name or through any group.
Entitled(w) ==
    {r \in Roles : \E e \in entries : e.role = r /\
        (e.subject = WalkUser[w] \/ e.subject \in GroupsOf(WalkUser[w], edges))}

\* authorize: unless the policy or a membership changed under it, a visitor is
\* told what the policy says: the most permissive of the roles it is entitled
\* to, else passage or refusal by the mount's mode.
DecisionIsPolicy ==
    \A w \in Visitors \ (moved \cup shifted) :
        LET v == verdict[w]  known == mount # NoMount /\ WalkUser[w] # NoName IN
        /\ v.outcome = "identified" =>
              known /\ v.role \in Entitled(w) /\ \A r \in Entitled(w) : Rank[r] <= Rank[v.role]
        /\ v.outcome \in {"anonymous", "login", "denied"} => ~known \/ Entitled(w) = {}
        /\ v.outcome = "anonymous" => mount.mode # "restricted" \/ mount.pw
        /\ v.outcome \in {"login", "denied"} => mount.mode = "restricted" /\ ~mount.pw
        /\ v.outcome # "error"

\* resolve_request: a request that is approved on disk has its entry on disk,
\* for two owners deciding at once and a crash between any two statements.
ApprovedHasEntry ==
    \A u \in Users : written.asked[u] = "approved" => \E e \in written.entries : e.subject = u
=============================================================================
