---------------------------- MODULE AccessProofs ----------------------------
(***************************************************************************)
(* Theorems about Access and Groups.                                        *)
(***************************************************************************)
EXTENDS Access, GroupsProofs

NoAgent == traffic \cap Agents = {}
Has(u, set) == \E e \in set : e.subject = u
\* Without agents an entry's subject stays, on disk and off; an approval is
\* written after the entry, and the entry is committed before.
ApprovalInv ==
    /\ \A k \in Agents : apc[k] \in {"idle", "end"}
    /\ \A u \in Users :
          /\ asked[u] = "approved" => Has(u, written.entries)
          /\ written.asked[u] = "approved" => Has(u, written.entries)
          /\ Has(u, written.entries) => Has(u, entries)
    /\ \A r \in Resolvers :
          /\ rpc[r] = "granted" => Has(about[r], entries)
          /\ rpc[r] = "approve" => Has(about[r], written.entries)

\* A visitor whose policy did not change has read the current one, and one who
\* walks is known.
VisitorInv ==
    \A w \in Visitors :
        /\ vpc[w] \in {"idle", "entries", "match"} => verdict[w] = NoVerdict
        /\ vpc[w] = "match" => wpc[w] # "idle" /\ WalkUser[w] # NoName
        /\ w \notin shifted /\ vpc[w] \in {"entries", "match"} => seen[w].mount = mount /\ mount # NoMount
        /\ w \notin shifted /\ vpc[w] = "match" => seen[w].entries = entries

-----------------------------------------------------------------------------
\* The types of the registry's side.
RegistryTypes ==
    /\ mount \in Mount \cup {NoMount} /\ entries \in SUBSET Entry /\ asked \in [Users -> Statuses]
    /\ written \in [mount : Mount \cup {NoMount}, entries : SUBSET Entry, asked : [Users -> Statuses]]
    /\ apc \in [Agents -> {"idle", "update", "clear", "fill", "end"}] /\ plan \in [Agents -> Policy]
    /\ qpc \in [Requests -> {"idle", "commit", "end"}]
    /\ rpc \in [Resolvers -> {"idle", "policy", "check", "grant", "granted", "approve", "deny",
                              "commit", "end"}]
    /\ about \in [Resolvers -> Users] /\ role \in [Resolvers -> Roles]
VisitorTypes ==
    /\ vpc \in [Visitors -> {"idle", "entries", "match", "route", "served", "not_found", "end"}]
    /\ seen \in [Visitors -> Policy] /\ shifted \in SUBSET Visitors
    /\ verdict \in [Visitors -> [outcome : {"none", "anonymous", "identified", "login", "denied", "error"},
                                 role : Roles \cup {NoName}]]

LEMMA TypesSplit == TypeOK <=> GroupsTypeOK /\ RegistryTypes /\ VisitorTypes
BY DEF TypeOK, RegistryTypes, VisitorTypes

\* The highest of some roles is one of them, and above the others.
LEMMA HighestRole ==
  ASSUME NEW R \in SUBSET Roles, R # {}
  PROVE  Highest(R) \in R /\ \A q \in R : Rank[q] <= Rank[Highest(R)]
<1>1. /\ Rank["read"] = 1 /\ Rank["receive"] = 2 /\ Rank["write"] = 3
      /\ \A q \in Roles : Rank[q] \in 1..3
  BY DEF Rank, Roles
<1>2. \E r \in R : \A q \in R : Rank[q] <= Rank[r]
  <2>1. CASE "write" \in R
    BY <1>1, <2>1
  <2>2. CASE "write" \notin R /\ "receive" \in R
    BY <1>1, <2>2 DEF Roles
  <2>3. CASE "write" \notin R /\ "receive" \notin R
    <3>1. \A q \in R : q = "read"
      BY <2>3 DEF Roles
    <3> QED BY <1>1, <3>1
  <2> QED BY <2>1, <2>2, <2>3
<1> QED BY <1>2 DEF Highest

LEMMA RolesMatched ==
  ASSUME RegistryTypes, VisitorTypes, NEW w \in Visitors
  PROVE  Matched(w, seen[w].entries) \in SUBSET Roles
<1>1. seen[w].entries \in SUBSET Entry
  BY DEF VisitorTypes, Policy
<1> QED BY <1>1 DEF Matched, Entry

LEMMA DecisionType ==
  ASSUME RegistryTypes, VisitorTypes, NEW w \in Visitors
  PROVE  /\ Decision(w, seen[w].mount, seen[w].entries) \in
              [outcome : {"anonymous", "identified", "login", "denied"}, role : Roles \cup {NoName}]
         /\ ByMode(w, seen[w].mount) \in [outcome : {"anonymous", "login", "denied"}, role : {NoName}]
<1>1. ByMode(w, seen[w].mount) \in [outcome : {"anonymous", "login", "denied"}, role : {NoName}]
  BY DEF ByMode
<1>2. CASE WalkUser[w] # NoName /\ Matched(w, seen[w].entries) # {}
  <2>1. Highest(Matched(w, seen[w].entries)) \in Roles
    BY <1>2, RolesMatched, HighestRole
  <2> QED BY <1>1, <1>2, <2>1 DEF Decision
<1>3. CASE ~(WalkUser[w] # NoName /\ Matched(w, seen[w].entries) # {})
  BY <1>1, <1>3 DEF Decision
<1> QED BY <1>2, <1>3

LEMMA VisitorSteps ==
  ASSUME RegistryTypes, VisitorTypes, NEW w \in Visitors, VisitorNext(w)
  PROVE  RegistryTypes' /\ VisitorTypes'
<1>1. RegistryTypes'
  BY DEF VisitorNext, ReadMount, ReadEntries, WalkOn, Decide, Route, registry, agent, resolver, RegistryTypes
<1> SUFFICES VisitorTypes'
  BY <1>1
<1>2. CASE ReadMount(w)
  <2>1. [mount |-> mount, entries |-> {}] \in Policy
    BY DEF RegistryTypes, Policy
  <2>2. seen' \in [Visitors -> Policy] /\ shifted' \in SUBSET Visitors
    BY <1>2, <2>1 DEF ReadMount, VisitorTypes
  <2> DEFINE v == [outcome |-> "anonymous", role |-> NoName]
  <2>3. \/ Told(w, v)
        \/ vpc' = [vpc EXCEPT ![w] = "entries"] /\ UNCHANGED verdict
    BY <1>2 DEF ReadMount
  <2>4. v \in [outcome : {"none", "anonymous", "identified", "login", "denied", "error"},
               role : Roles \cup {NoName}]
    OBVIOUS
  <2> HIDE DEF v
  <2> QED BY <2>2, <2>3, <2>4 DEF Told, VisitorTypes
<1>3. CASE ReadEntries(w)
  <2>1. ByMode(w, seen[w].mount) \in [outcome : {"anonymous", "login", "denied"}, role : {NoName}]
    BY DecisionType
  <2>2. seen' \in [Visitors -> Policy]
    <3>1. [seen[w] EXCEPT !.entries = entries] \in Policy
      BY DEF VisitorTypes, RegistryTypes, Policy
    <3>2. seen' = [seen EXCEPT ![w] = [seen[w] EXCEPT !.entries = entries]]
      BY <1>3 DEF ReadEntries
    <3> QED BY <3>1, <3>2 DEF VisitorTypes
  <2>3. \/ vpc' = [vpc EXCEPT ![w] = "match"] /\ UNCHANGED verdict
        \/ Told(w, ByMode(w, seen[w].mount))
    BY <1>3 DEF ReadEntries
  <2>4. UNCHANGED shifted
    BY <1>3 DEF ReadEntries
  <2> QED BY <2>1, <2>2, <2>3, <2>4 DEF VisitorTypes, Told
<1>4. CASE WalkOn(w)
  BY <1>4 DEF WalkOn, visitor, VisitorTypes
<1>5. CASE Decide(w)
  <2>1. Decision(w, seen[w].mount, seen[w].entries) \in
              [outcome : {"anonymous", "identified", "login", "denied"}, role : Roles \cup {NoName}]
    BY DecisionType
  <2>2. UNCHANGED <<seen, shifted>>
    BY <1>5 DEF Decide
  <2>3. PICK v \in [outcome : {"none", "anonymous", "identified", "login", "denied", "error"},
                    role : Roles \cup {NoName}] : Told(w, v)
    <3>1. CASE wpc[w] = "cycle"
      BY <1>5, <3>1 DEF Decide
    <3>2. CASE wpc[w] # "cycle"
      BY <1>5, <2>1, <3>2 DEF Decide
    <3> QED BY <3>1, <3>2
  <2> QED BY <2>2, <2>3 DEF VisitorTypes, Told
<1>6. CASE Route(w)
  BY <1>6 DEF Route, VisitorTypes
<1> QED BY <1>2, <1>3, <1>4, <1>5, <1>6 DEF VisitorNext

LEMMA RegistrySteps ==
  ASSUME RegistryTypes, VisitorTypes,
         \/ \E k \in Agents : AgentNext(k)
         \/ \E q \in Requests : CreateRequest(q)
         \/ \E r \in Resolvers : ResolverNext(r)
         \/ Retire
  PROVE  RegistryTypes' /\ VisitorTypes'
<1>1. VisitorTypes'
  BY DEF AgentNext, Dial, UpdateMount, ClearEntries, FillEntry, CommitPolicy, CreateRequest, ResolverNext,
     GetRequest, Resolve, CheckMount, Grant, CommitGrant, SetStatus, CommitStatus, Retire, SetPolicy, visitor,
     VisitorTypes
<1>2. ASSUME NEW k \in Agents, AgentNext(k) PROVE RegistryTypes'
  <2>1. NewMount \in Mount /\ plan[k] \in Policy /\ plan[k].mount \in Mount \cup {NoMount}
        /\ plan[k].entries \in SUBSET Entry
    BY DEF NewMount, Mount, Modes, RegistryTypes, Policy
  <2>2. UNCHANGED <<asked, qpc, rpc, about, role>>
    BY <1>2 DEF AgentNext, Dial, UpdateMount, ClearEntries, FillEntry, CommitPolicy, resolver
  <2>3. CASE Dial(k)
    BY <2>1, <2>2, <2>3, AccessAssumption DEF Dial, SetPolicy, RegistryTypes
  <2>4. CASE UpdateMount(k)
    BY <2>1, <2>2, <2>4 DEF UpdateMount, SetPolicy, RegistryTypes
  <2>5. CASE ClearEntries(k)
    BY <2>1, <2>2, <2>5 DEF ClearEntries, SetPolicy, RegistryTypes
  <2>6. CASE FillEntry(k)
    <3>1. PICK e \in plan[k].entries :
             SetPolicy(mount, Put(e, entries)) /\ plan' = [plan EXCEPT ![k].entries = @ \ {e}]
      BY <2>6 DEF FillEntry
    <3>2. Put(e, entries) \in SUBSET Entry
      BY <2>1 DEF Put, RegistryTypes
    <3>3. plan' \in [Agents -> Policy]
      BY <2>1, <3>1 DEF RegistryTypes, Policy
    <3> QED BY <2>2, <2>6, <3>1, <3>2, <3>3 DEF FillEntry, SetPolicy, RegistryTypes
  <2>7. CASE CommitPolicy(k)
    BY <2>2, <2>7 DEF CommitPolicy, Save, RegistryTypes
  <2> QED BY <1>2, <2>3, <2>4, <2>5, <2>6, <2>7 DEF AgentNext
<1>3. ASSUME NEW q \in Requests, CreateRequest(q) PROVE RegistryTypes'
  BY <1>3, AccessAssumption DEF CreateRequest, Save, RegistryTypes, agent, resolver, Statuses
<1>4. ASSUME NEW r \in Resolvers, ResolverNext(r) PROVE RegistryTypes'
  <2>1. UNCHANGED <<apc, plan, qpc>>
    BY <1>4 DEF ResolverNext, GetRequest, Resolve, CheckMount, Grant, CommitGrant, SetStatus, CommitStatus, agent
  <2>2. CASE GetRequest(r) \/ Resolve(r) \/ CheckMount(r)
    BY <2>1, <2>2 DEF GetRequest, Resolve, CheckMount, registry, RegistryTypes
  <2>3. CASE Grant(r)
    <3>1. Put([subject |-> about[r], role |-> role[r]], entries) \in SUBSET Entry
      BY Kinds DEF Put, RegistryTypes, Entry
    <3> QED BY <2>1, <2>3, <3>1 DEF Grant, SetPolicy, RegistryTypes
  <2>4. CASE CommitGrant(r) \/ CommitStatus(r)
    BY <2>1, <2>4 DEF CommitGrant, CommitStatus, Save, RegistryTypes
  <2>5. CASE SetStatus(r)
    BY <2>1, <2>5 DEF SetStatus, RegistryTypes, Statuses
  <2> QED BY <1>4, <2>2, <2>3, <2>4, <2>5 DEF ResolverNext
<1>5. ASSUME Retire PROVE RegistryTypes'
  BY <1>5 DEF Retire, SetPolicy, RegistryTypes, agent, resolver
<1> QED BY <1>1, <1>2, <1>3, <1>4, <1>5

-----------------------------------------------------------------------------
(***************************************************************************)
(* What each step leaves alone.                                             *)
(***************************************************************************)
\* A change of the policy marks every visitor under way.
LEMMA Shifts ==
  ASSUME \/ \E k \in Agents : AgentNext(k)
         \/ \E q \in Requests : CreateRequest(q)
         \/ \E r \in Resolvers : ResolverNext(r)
         \/ Retire
  PROVE  /\ UNCHANGED <<gvars, vpc, seen, verdict>>
         /\ (UNCHANGED <<mount, entries, shifted>>) \/ shifted' = Visitors
<1> USE DEF SetPolicy, registry, visitor
<1>1. ASSUME NEW k \in Agents, AgentNext(k)
      PROVE  /\ UNCHANGED <<gvars, vpc, seen, verdict>>
             /\ (UNCHANGED <<mount, entries, shifted>>) \/ shifted' = Visitors
  BY <1>1 DEF AgentNext, Dial, UpdateMount, ClearEntries, FillEntry, CommitPolicy
<1>2. ASSUME NEW q \in Requests, CreateRequest(q)
      PROVE  UNCHANGED <<gvars, vpc, seen, verdict, mount, entries, shifted>>
  BY <1>2 DEF CreateRequest
<1>3. ASSUME NEW r \in Resolvers, ResolverNext(r)
      PROVE  /\ UNCHANGED <<gvars, vpc, seen, verdict>>
             /\ (UNCHANGED <<mount, entries, shifted>>) \/ shifted' = Visitors
  BY <1>3 DEF ResolverNext, GetRequest, Resolve, CheckMount, Grant, CommitGrant, SetStatus, CommitStatus
<1>4. ASSUME Retire
      PROVE  /\ UNCHANGED <<gvars, vpc, seen, verdict>>
             /\ (UNCHANGED <<mount, entries, shifted>>) \/ shifted' = Visitors
  BY <1>4 DEF Retire
<1> QED BY <1>1, <1>2, <1>3, <1>4

\* A step that leaves the groups alone keeps everything about them.
LEMMA GroupsStay ==
  ASSUME UNCHANGED gvars
  PROVE  /\ GroupsInv => GroupsInv'
         /\ WalkInv => WalkInv'
         /\ HierarchyInv => HierarchyInv'
         /\ DanglingInv => DanglingInv'
         /\ IdInv => IdInv'
         /\ SyncInv => SyncInv'
<1> USE DEF gvars, tables, writer, walk
<1>1. GroupsInv => GroupsInv'
  BY DEF GroupsInv, GroupsTypeOK, PhaseInv
<1>2. WalkInv => WalkInv'
  BY WalkKept
<1>3. HierarchyInv => HierarchyInv'
  BY DEF HierarchyInv, Acyclic, RefusedForCause, DescentOk, GuardOk, Children
<1>4. DanglingInv => DanglingInv'
  BY DEF DanglingInv, Exists
<1>5. IdInv => IdInv'
  BY DEF IdInv
<1>6. SyncInv => SyncInv'
  BY DEF SyncInv, SyncOk, OneClaim, Joined, Unwanted, Unclaimed, Above
<1> QED BY <1>1, <1>2, <1>3, <1>4, <1>5, <1>6

\* A walk touches neither tables nor writers.
LEMMA WalksApart ==
  ASSUME UNCHANGED <<traffic, tables, writer, crashes>>
  PROVE  /\ HierarchyInv => HierarchyInv'
         /\ DanglingInv => DanglingInv'
         /\ IdInv => IdInv'
         /\ SyncInv => SyncInv'
<1> USE DEF tables, writer
<1>1. HierarchyInv => HierarchyInv'
  BY DEF HierarchyInv, Acyclic, RefusedForCause, DescentOk, GuardOk, Children
<1>2. DanglingInv => DanglingInv'
  BY DEF DanglingInv, Exists
<1>3. IdInv => IdInv'
  BY DEF IdInv
<1>4. SyncInv => SyncInv'
  BY DEF SyncInv, SyncOk, OneClaim, Joined, Unwanted, Unclaimed, Above
<1> QED BY <1>1, <1>2, <1>3, <1>4

-----------------------------------------------------------------------------
(***************************************************************************)
(* Visitors.                                                                *)
(***************************************************************************)
LEMMA VisitorStays ==
  ASSUME VisitorInv, UNCHANGED <<vpc, seen, verdict>>,
         \A w \in Visitors : wpc[w] # "idle" => wpc'[w] # "idle",
         (UNCHANGED <<mount, entries, shifted>>) \/ shifted' = Visitors
  PROVE  VisitorInv'
<1>1. CASE UNCHANGED <<mount, entries, shifted>>
  BY <1>1 DEF VisitorInv
<1>2. CASE shifted' = Visitors
  BY <1>2 DEF VisitorInv
<1> QED BY <1>1, <1>2

LEMMA VisitorKept ==
  ASSUME GroupsInv, RegistryTypes, VisitorTypes, VisitorInv, NEW w \in Visitors, VisitorNext(w)
  PROVE  VisitorInv'
<1>1. /\ UNCHANGED <<mount, entries>> /\ shifted' \in {shifted, shifted \ {w}}
      /\ vpc \in [Visitors -> {"idle", "entries", "match", "route", "served", "not_found", "end"}]
      /\ seen \in [Visitors -> Policy] /\ verdict = [q \in Visitors |-> verdict[q]]
      /\ wpc \in [Visitors -> {"idle", "walk", "resolved", "cycle"}]
  BY DEF VisitorNext, ReadMount, ReadEntries, WalkOn, Decide, Route, registry, visitor, VisitorTypes,
         GroupsInv, GroupsTypeOK, Visitors
<1>2. /\ \A q \in Visitors : q # w =>
            vpc'[q] = vpc[q] /\ seen'[q] = seen[q] /\ verdict'[q] = verdict[q] /\ wpc'[q] = wpc[q]
  <2>1. CASE ReadMount(w) \/ Decide(w) \/ Route(w)
    BY <1>1, <2>1 DEF ReadMount, Decide, Route, Told, gvars, walk
  <2>2. CASE ReadEntries(w)
    BY <1>1, <2>2 DEF ReadEntries, Told, StartWalk, walk
  <2>3. CASE WalkOn(w)
    BY <1>1, <2>3 DEF WalkOn, WalkStep, ReadParents, VisitParent, Return, visitor
  <2> QED BY <2>1, <2>2, <2>3 DEF VisitorNext
<1>3. /\ vpc'[w] \in {"idle", "entries", "match"} => verdict'[w] = NoVerdict
      /\ vpc'[w] = "match" => wpc'[w] # "idle" /\ WalkUser[w] # NoName
      /\ w \notin shifted' /\ vpc'[w] \in {"entries", "match"} => seen'[w].mount = mount /\ mount # NoMount
      /\ w \notin shifted' /\ vpc'[w] = "match" => seen'[w].entries = entries
  <2>1. CASE ReadMount(w)
    <3>1. seen'[w].mount = mount /\ vpc'[w] \in {"route", "entries"}
          /\ (vpc'[w] = "entries" => mount # NoMount /\ UNCHANGED verdict)
      BY <1>1, <2>1 DEF ReadMount, Told
    <3> QED BY <2>1, <3>1 DEF VisitorInv, ReadMount
  <2>2. CASE ReadEntries(w)
    <3>1. /\ seen[w] \in Policy /\ seen'[w] = [seen[w] EXCEPT !.entries = entries] /\ UNCHANGED shifted
          /\ vpc[w] = "entries"
      BY <1>1, <2>2 DEF ReadEntries
    <3>2. seen'[w].mount = seen[w].mount /\ seen'[w].entries = entries
      BY <3>1 DEF Policy
    <3>3. CASE /\ WalkUser[w] # NoName /\ StartWalk(w)
               /\ vpc' = [vpc EXCEPT ![w] = "match"] /\ UNCHANGED verdict
      <4>1. vpc'[w] = "match" /\ wpc'[w] = "walk"
        BY <1>1, <3>3 DEF StartWalk
      <4> QED BY <1>1, <3>1, <3>2, <3>3, <4>1 DEF VisitorInv
    <3>4. CASE Told(w, ByMode(w, seen[w].mount))
      <4>1. vpc'[w] \in {"route", "end"}
        BY <1>1, <3>4 DEF Told
      <4> QED BY <4>1
    <3> QED BY <2>2, <3>3, <3>4 DEF ReadEntries
  <2>3. CASE WalkOn(w)
    <3>1. UNCHANGED <<vpc, seen, verdict, shifted>> /\ wpc'[w] # "idle"
      BY <1>1, <2>3 DEF WalkOn, WalkStep, ReadParents, VisitParent, Return, visitor
    <3> QED BY <3>1 DEF VisitorInv
  <2>4. CASE Decide(w) \/ Route(w)
    <3>1. vpc'[w] \in {"route", "end", "not_found", "served"}
      BY <1>1, <2>4 DEF Decide, Route, Told
    <3> QED BY <3>1
  <2> QED BY <2>1, <2>2, <2>3, <2>4 DEF VisitorNext
<1>4. ASSUME NEW q \in Visitors, q # w
      PROVE  /\ vpc'[q] \in {"idle", "entries", "match"} => verdict'[q] = NoVerdict
             /\ vpc'[q] = "match" => wpc'[q] # "idle" /\ WalkUser[q] # NoName
             /\ q \notin shifted' /\ vpc'[q] \in {"entries", "match"} => seen'[q].mount = mount /\ mount # NoMount
             /\ q \notin shifted' /\ vpc'[q] = "match" => seen'[q].entries = entries
  BY <1>1, <1>2, <1>4 DEF VisitorInv
<1> QED BY <1>1, <1>3, <1>4 DEF VisitorInv, NoVerdict

\* What DecisionIsPolicy says of one visitor.
DecidedWell(w) ==
    LET v == verdict[w]  known == mount # NoMount /\ WalkUser[w] # NoName IN
    /\ v.outcome = "identified" =>
          known /\ v.role \in Entitled(w) /\ \A r \in Entitled(w) : Rank[r] <= Rank[v.role]
    /\ v.outcome \in {"anonymous", "login", "denied"} => ~known \/ Entitled(w) = {}
    /\ v.outcome = "anonymous" => mount.mode # "restricted" \/ mount.pw
    /\ v.outcome \in {"login", "denied"} => mount.mode = "restricted" /\ ~mount.pw
    /\ v.outcome # "error"

LEMMA DecidedAll == DecisionIsPolicy <=> \A w \in Visitors \ (moved \cup shifted) : DecidedWell(w)
BY DEF DecisionIsPolicy, DecidedWell

LEMMA NotYet ==
  ASSUME NEW w, verdict[w] = NoVerdict
  PROVE  DecidedWell(w)
BY DEF DecidedWell, NoVerdict

LEMMA DecisionStays ==
  ASSUME NEW w, DecidedWell(w), verdict'[w] = verdict[w], UNCHANGED <<mount, entries, edges>>
  PROVE  DecidedWell(w)'
BY DEF DecidedWell, Entitled

\* By name or through a group, the entries that match are those the policy
\* entitles the visitor to.
LEMMA MatchedIsEntitled ==
  ASSUME entries \in SUBSET Entry, NEW w, acc[w] = GroupsOf(WalkUser[w], edges)
  PROVE  Matched(w, entries) = Entitled(w)
<1>1. \A e \in entries : e.role \in Roles
  BY DEF Entry
<1> QED BY <1>1 DEF Matched, Entitled

LEMMA ModeDecides ==
  ASSUME mount \in Mount, NEW w, verdict'[w] = ByMode(w, mount), UNCHANGED <<mount, entries, edges>>,
         WalkUser[w] = NoName \/ Entitled(w) = {}
  PROVE  DecidedWell(w)'
<1>1. /\ mount.mode \in Modes /\ mount.pw \in BOOLEAN
  BY DEF Mount
<1>2. Entitled(w)' = Entitled(w)
  BY DEF Entitled
<1>3. /\ verdict'[w].outcome = IF mount.mode \in {"open", "legacy"} \/ mount.pw THEN "anonymous"
                               ELSE IF WalkUser[w] = NoName THEN "login" ELSE "denied"
  BY DEF ByMode
<1> QED BY <1>1, <1>2, <1>3 DEF DecidedWell, Modes

LEMMA DecisionMade ==
  ASSUME GroupsInv, WalkInv, RegistryTypes, VisitorTypes, VisitorInv, Acyclic, DecisionIsPolicy,
         NEW w \in Visitors, VisitorNext(w)
  PROVE  DecisionIsPolicy'
<1>1. /\ UNCHANGED <<mount, entries, edges>> /\ entries \in SUBSET Entry
      /\ verdict = [q \in Visitors |-> verdict[q]]
  BY DEF VisitorNext, ReadMount, ReadEntries, WalkOn, Decide, Route, registry, gvars, tables,
     RegistryTypes, VisitorTypes
<1>2. ASSUME NEW q \in Visitors, q # w, q \notin moved' \cup shifted' PROVE DecidedWell(q)'
  <2>1. moved' \in {moved, moved \ {w}} /\ shifted' \in {shifted, shifted \ {w}}
    BY DEF VisitorNext, ReadMount, ReadEntries, StartWalk, WalkOn, WalkStep, ReadParents, VisitParent, Return,
       Decide, Route, gvars, walk, visitor
  <2>2. verdict'[q] = verdict[q]
    BY <1>1, <1>2 DEF VisitorNext, ReadMount, ReadEntries, WalkOn, Decide, Route, Told, visitor
  <2>3. q \in Visitors \ (moved \cup shifted)
    BY <1>2, <2>1
  <2> QED BY <1>1, <2>2, <2>3, DecidedAll, DecisionStays
<1>3. ASSUME w \notin moved' \cup shifted' PROVE DecidedWell(w)'
  <2>1. CASE ReadMount(w)
    <3>1. CASE mount = NoMount /\ Told(w, [outcome |-> "anonymous", role |-> NoName])
      <4>1. verdict'[w] = [outcome |-> "anonymous", role |-> NoName]
        BY <1>1, <3>1 DEF Told
      <4> QED BY <1>1, <3>1, <4>1 DEF DecidedWell, NoMount
    <3>2. CASE UNCHANGED verdict
      <4>1. verdict[w] = NoVerdict
        BY <2>1 DEF VisitorInv, ReadMount
      <4> QED BY <3>2, <4>1, NotYet, DecisionStays, <1>1
    <3> QED BY <2>1, <3>1, <3>2 DEF ReadMount
  <2>2. CASE ReadEntries(w)
    <3>0. vpc[w] = "entries" /\ UNCHANGED shifted
      BY <2>2 DEF ReadEntries
    <3>1. CASE UNCHANGED verdict
      <4>1. verdict[w] = NoVerdict
        BY <3>0 DEF VisitorInv
      <4> QED BY <1>1, <3>1, <4>1, NotYet, DecisionStays
    <3>2. CASE WalkUser[w] = NoName /\ Told(w, ByMode(w, seen[w].mount))
      <4>1. seen[w].mount = mount /\ mount # NoMount /\ mount \in Mount
        BY <1>3, <3>0 DEF VisitorInv, RegistryTypes
      <4>2. verdict'[w] = ByMode(w, mount)
        BY <1>1, <3>2, <4>1 DEF Told
      <4> QED BY <1>1, <3>2, <4>1, <4>2, ModeDecides
    <3> QED BY <2>2, <3>1, <3>2 DEF ReadEntries
  <2>3. CASE WalkOn(w)
    <3>1. /\ vpc[w] = "match" /\ UNCHANGED verdict
      BY <2>3 DEF WalkOn, visitor
    <3>2. verdict[w] = NoVerdict
      BY <3>1 DEF VisitorInv
    <3> QED BY <1>1, <3>1, <3>2, NotYet, DecisionStays
  <2>4. CASE Decide(w)
    <3>1. vpc[w] = "match" /\ wpc[w] \in {"resolved", "cycle"} /\ w \notin moved /\ w \notin shifted
      BY <1>3, <2>4 DEF Decide, gvars, walk
    <3>2. WalkUser[w] # NoName /\ seen[w].mount = mount /\ seen[w].entries = entries /\ mount # NoMount
          /\ mount \in Mount
      BY <3>1 DEF VisitorInv, RegistryTypes
    <3>3. wpc[w] = "resolved" /\ acc[w] = GroupsOf(WalkUser[w], edges)
      BY <3>1, WalkGives DEF WalkIsClosure, Acyclic, Visitors
    <3>4. verdict'[w] = Decision(w, mount, entries)
      BY <1>1, <2>4, <3>2, <3>3 DEF Decide, Told
    <3>5. Matched(w, entries) = Entitled(w)
      BY <1>1, <3>3, MatchedIsEntitled
    <3>6. CASE Entitled(w) = {}
      <4>1. verdict'[w] = ByMode(w, mount)
        BY <3>4, <3>5, <3>6 DEF Decision
      <4> QED BY <1>1, <3>2, <3>6, <4>1, ModeDecides
    <3>7. CASE Entitled(w) # {}
      <4>1. verdict'[w] = [outcome |-> "identified", role |-> Highest(Entitled(w))]
        BY <3>2, <3>4, <3>5, <3>7 DEF Decision
      <4>2. Highest(Entitled(w)) \in Entitled(w) /\ \A r \in Entitled(w) : Rank[r] <= Rank[Highest(Entitled(w))]
        <5>1. Entitled(w) \in SUBSET Roles
          BY DEF Entitled
        <5> QED BY <3>7, <5>1, HighestRole
      <4>3. Entitled(w)' = Entitled(w)
        BY <1>1 DEF Entitled
      <4> QED BY <1>1, <3>2, <4>1, <4>2, <4>3 DEF DecidedWell
    <3> QED BY <3>6, <3>7
  <2>5. CASE Route(w)
    <3>1. w \notin moved /\ w \notin shifted /\ UNCHANGED verdict
      BY <1>3, <2>5 DEF Route, gvars, walk
    <3>2. DecidedWell(w)
      BY <3>1, DecidedAll
    <3> QED BY <1>1, <3>1, <3>2, DecisionStays
  <2> QED BY <2>1, <2>2, <2>3, <2>4, <2>5 DEF VisitorNext
<1>4. \A q \in Visitors \ (moved' \cup shifted') : DecidedWell(q)'
  BY <1>2, <1>3
<1> QED BY <1>4 DEF DecisionIsPolicy, DecidedWell

LEMMA DecisionKept ==
  ASSUME DecisionIsPolicy, UNCHANGED verdict,
         (UNCHANGED <<mount, entries, shifted>>) \/ shifted' = Visitors,
         (edges' = edges /\ moved' = moved) \/ moved' = Walkers
  PROVE  DecisionIsPolicy'
<1>1. CASE shifted' = Visitors \/ moved' = Walkers
  BY <1>1 DEF DecisionIsPolicy, Visitors
<1>2. CASE UNCHANGED <<mount, entries, shifted, edges, moved>>
  BY <1>2 DEF DecisionIsPolicy, Entitled
<1> QED BY <1>1, <1>2

-----------------------------------------------------------------------------
(***************************************************************************)
(* Requests for access.                                                     *)
(***************************************************************************)
\* INSERT OR REPLACE keeps every subject.
LEMMA PutKeeps ==
  ASSUME NEW e, NEW set
  PROVE  Has(e.subject, Put(e, set)) /\ \A u : Has(u, set) => Has(u, Put(e, set))
BY DEF Has, Put

LEMMA ApprovalKept ==
  ASSUME RegistryTypes, NoAgent, ApprovalInv,
         \/ \E k \in Agents : AgentNext(k)
         \/ \E q \in Requests : CreateRequest(q)
         \/ \E r \in Resolvers : ResolverNext(r)
         \/ Retire
  PROVE  ApprovalInv'
<1>0. /\ \A u \in Users : asked[u] = "approved" => Has(u, entries)
      /\ \A r \in Resolvers : rpc[r] \in {"granted", "approve"} => Has(about[r], entries)
  BY DEF ApprovalInv, RegistryTypes
<1>1. \A k \in Agents : ~AgentNext(k)
  BY DEF NoAgent, ApprovalInv, AgentNext, Dial, UpdateMount, ClearEntries, FillEntry, CommitPolicy
<1>2. ASSUME NEW q \in Requests, CreateRequest(q) PROVE ApprovalInv'
  <2>1. UNCHANGED <<entries, apc, rpc, about>>
    BY <1>2 DEF CreateRequest, agent, resolver
  <2>2. CASE written' = [mount |-> mount, entries |-> entries, asked |-> asked] /\ UNCHANGED asked
    <3>1. written'.entries = entries /\ written'.asked = asked
      BY <2>2
    <3> QED BY <1>0, <2>1, <2>2, <3>1 DEF ApprovalInv
  <2>3. CASE asked' = [asked EXCEPT ![Asker[q]] = IF @ = "none" THEN "pending" ELSE @] /\ UNCHANGED written
    <3>1. \A u \in Users : asked'[u] = "approved" => asked[u] = "approved"
      BY <2>3 DEF RegistryTypes
    <3> QED BY <2>1, <2>3, <3>1 DEF ApprovalInv
  <2> QED BY <1>2, <2>2, <2>3 DEF CreateRequest, Save
<1>3. ASSUME NEW r \in Resolvers, ResolverNext(r) PROVE ApprovalInv'
  <2>1. UNCHANGED apc /\ rpc \in [Resolvers -> {"idle", "policy", "check", "grant", "granted", "approve",
                                                "deny", "commit", "end"}]
        /\ about \in [Resolvers -> Users] /\ asked \in [Users -> Statuses]
    BY <1>3 DEF ResolverNext, GetRequest, Resolve, CheckMount, Grant, CommitGrant, SetStatus, CommitStatus, agent,
       RegistryTypes
  <2>2. CASE GetRequest(r) \/ Resolve(r) \/ CheckMount(r)
    <3>1. /\ UNCHANGED <<entries, asked, written>> /\ rpc'[r] \notin {"granted", "approve"}
          /\ \A q \in Resolvers : q # r => rpc'[q] = rpc[q] /\ about'[q] = about[q]
      BY <2>1, <2>2 DEF GetRequest, Resolve, CheckMount, registry
    <3> QED BY <2>1, <3>1 DEF ApprovalInv
  <2>3. CASE Grant(r)
    <3> DEFINE e == [subject |-> about[r], role |-> role[r]]
    <3>1. /\ UNCHANGED <<asked, written, about>> /\ entries' = Put(e, entries) /\ rpc'[r] = "granted"
          /\ \A q \in Resolvers : q # r => rpc'[q] = rpc[q]
      BY <2>1, <2>3 DEF Grant, SetPolicy
    <3>2. Has(e.subject, entries') /\ \A u : Has(u, entries) => Has(u, entries')
      BY <3>1, PutKeeps
    <3>3. e.subject = about'[r]
      BY <3>1
    <3> HIDE DEF e
    <3> QED BY <2>1, <3>1, <3>2, <3>3 DEF ApprovalInv
  <2>4. CASE CommitGrant(r) \/ CommitStatus(r)
    <3>1. /\ UNCHANGED <<asked, entries, about>> /\ written'.entries = entries /\ written'.asked = asked
          /\ \A q \in Resolvers : q # r => rpc'[q] = rpc[q]
          /\ rpc'[r] \in {"approve", "end"} /\ (rpc'[r] = "approve" => rpc[r] = "granted")
      BY <2>1, <2>4 DEF CommitGrant, CommitStatus, Save
    <3>2. \A u \in Users : asked[u] = "approved" => Has(u, entries)
      BY DEF ApprovalInv
    <3>3. \A q \in Resolvers : rpc'[q] = "approve" => Has(about[q], entries)
      BY <2>1, <3>1 DEF ApprovalInv
    <3>4. \A q \in Resolvers : rpc'[q] = "granted" => Has(about[q], entries)
      BY <2>1, <3>1 DEF ApprovalInv
    <3> QED BY <2>1, <3>1, <3>2, <3>3, <3>4 DEF ApprovalInv
  <2>5. CASE SetStatus(r)
    <3>1. /\ UNCHANGED <<entries, written, about>> /\ rpc'[r] = "commit"
          /\ \A q \in Resolvers : q # r => rpc'[q] = rpc[q]
          /\ \A u \in Users : asked'[u] = "approved" =>
                 asked[u] = "approved" \/ (rpc[r] = "approve" /\ u = about[r])
      BY <2>1, <2>5 DEF SetStatus
    <3> QED BY <2>1, <3>1 DEF ApprovalInv
  <2> QED BY <1>3, <2>2, <2>3, <2>4, <2>5 DEF ResolverNext
<1>4. ASSUME Retire PROVE ApprovalInv'
  <2>1. UNCHANGED <<entries, asked, apc, rpc, about>> /\ written'.entries = entries /\ written'.asked = asked
    BY <1>4 DEF Retire, SetPolicy, agent, resolver
  <2> QED BY <1>0, <2>1 DEF ApprovalInv
<1> QED BY <1>1, <1>2, <1>3, <1>4

LEMMA ApprovalStays ==
  ASSUME ApprovalInv, UNCHANGED <<registry, agent, resolver>>
  PROVE  ApprovalInv'
BY DEF ApprovalInv, registry, agent, resolver

LEMMA ApprovalCrash ==
  ASSUME RegistryTypes, ApprovalInv, Crash
  PROVE  ApprovalInv'
<1>1. /\ entries' = written.entries /\ asked' = written.asked /\ written' = written
      /\ \A k \in Agents : apc'[k] = "end"
      /\ \A r \in Resolvers : rpc'[r] = "end"
  BY DEF Crash
<1> QED BY <1>1 DEF ApprovalInv
-----------------------------------------------------------------------------
(***************************************************************************)
(* The inductive invariant.                                                 *)
(***************************************************************************)
Inv ==
    /\ GroupsInv /\ RegistryTypes /\ VisitorTypes
    /\ WalkInv /\ VisitorInv /\ IdInv /\ SyncInv
    /\ OneAdmin => HierarchyInv /\ DecisionIsPolicy
    /\ Apart => DanglingInv
    /\ NoAgent => ApprovalInv

LEMMA InvInit == Init => Inv
<1> SUFFICES ASSUME Init PROVE Inv
  OBVIOUS
<1>1. PICK s \in Starts : GroupsInit(s) /\ \E p \in s.policies : mount = p.mount /\ entries = p.entries
  BY DEF Init
<1>2. GroupsInv /\ IdInv /\ SyncInv /\ HierarchyInv /\ DanglingInv
  BY <1>1, GroupsInvInit, IdInit, SyncInit, HierarchyInit, DanglingInit
<1>3. mount \in Mount \cup {NoMount} /\ entries \in SUBSET Entry
  BY <1>1, AccessAssumption DEF Policy
<1>4. RegistryTypes
  <2>1. [mount |-> NoMount, entries |-> {}] \in Policy
    BY DEF Policy
  <2> QED BY <1>3, <2>1, AccessAssumption DEF Init, RegistryTypes, Statuses, Roles
<1>5. VisitorTypes
  <2>1. [mount |-> NoMount, entries |-> {}] \in Policy
    BY DEF Policy
  <2> QED BY <2>1 DEF Init, VisitorTypes, NoVerdict
<1>6. WalkInv
  BY <1>1 DEF GroupsInit, WalkInv
<1>7. VisitorInv
  BY DEF Init, VisitorInv
<1>8. DecisionIsPolicy
  <2>1. \A w \in Visitors : verdict[w] = NoVerdict
    BY DEF Init
  <2> QED BY <2>1, NotYet, DecidedAll
<1>9. ApprovalInv
  BY DEF Init, ApprovalInv
<1> QED BY <1>2, <1>4, <1>5, <1>6, <1>7, <1>8, <1>9 DEF Inv

LEMMA InvNext == Inv /\ [Next]_vars => Inv'
<1> SUFFICES ASSUME Inv, [Next]_vars PROVE Inv'
  OBVIOUS
<1>1. /\ GroupsInv /\ RegistryTypes /\ VisitorTypes /\ WalkInv /\ VisitorInv /\ IdInv /\ SyncInv
      /\ OneAdmin => HierarchyInv /\ DecisionIsPolicy
      /\ Apart => DanglingInv
      /\ NoAgent => ApprovalInv
  BY DEF Inv
<1>2. ASSUME UNCHANGED traffic
      PROVE  (OneAdmin' <=> OneAdmin) /\ (Apart' <=> Apart) /\ (NoAgent' <=> NoAgent)
  BY <1>2 DEF OneAdmin, Apart, NoAgent
<1>3. CASE GroupsNext /\ UNCHANGED <<registry, visitor, agent, qpc, resolver>>
  <2>1. /\ UNCHANGED <<wpc, stack, acc, crashes, traffic>>
        /\ (edges' = edges /\ moved' = moved) \/ moved' = Walkers
    BY <1>3, WritersMark
  <2>2. GroupsInv' /\ IdInv' /\ SyncInv'
    BY <1>1, <1>3, GroupsNextTypes, IdNext, SyncInvNext
  <2>3. WalkInv'
    BY <1>1, <2>1, WalkKept
  <2>4. RegistryTypes' /\ VisitorTypes'
    BY <1>1, <1>3 DEF RegistryTypes, VisitorTypes, registry, visitor, agent, resolver
  <2>5. VisitorInv'
    BY <1>1, <1>3, <2>1, VisitorStays DEF registry, visitor
  <2>6. OneAdmin' => HierarchyInv' /\ DecisionIsPolicy'
    BY <1>1, <1>2, <1>3, <2>1, HierarchyNext, DecisionKept DEF registry, visitor
  <2>7. Apart' => DanglingInv'
    BY <1>1, <1>2, <1>3, <2>1, DanglingNext
  <2>8. NoAgent' => ApprovalInv'
    BY <1>1, <1>2, <1>3, <2>1, ApprovalStays
  <2> QED BY <2>2, <2>3, <2>4, <2>5, <2>6, <2>7, <2>8 DEF Inv
<1>4. ASSUME NEW w \in Visitors, VisitorNext(w) PROVE Inv'
  <2>1. UNCHANGED <<traffic, tables, writer, crashes, registry, agent, resolver>>
    BY <1>4 DEF VisitorNext, ReadMount, ReadEntries, WalkOn, Decide, Route, gvars
  <2>2. GroupsInv' /\ WalkInv'
    <3>1. CASE ReadMount(w) \/ Decide(w) \/ Route(w)
      <4>1. UNCHANGED gvars
        BY <3>1 DEF ReadMount, Decide, Route
      <4> QED BY <1>1, <4>1, GroupsStay
    <3>2. CASE ReadEntries(w)
      <4>1. CASE WalkUser[w] # NoName /\ StartWalk(w)
        BY <1>1, <2>1, <4>1, WalkStarts DEF Visitors
      <4>2. CASE UNCHANGED walk
        <5>1. UNCHANGED gvars
          BY <2>1, <4>2 DEF gvars
        <5> QED BY <1>1, <5>1, GroupsStay
      <4> QED BY <3>2, <4>1, <4>2 DEF ReadEntries
    <3>3. CASE WalkOn(w)
      BY <1>1, <2>1, <3>3, WalkGoesOn DEF WalkOn, Visitors
    <3> QED BY <1>4, <3>1, <3>2, <3>3 DEF VisitorNext
  <2>3. RegistryTypes' /\ VisitorTypes'
    BY <1>1, <1>4, VisitorSteps
  <2>4. VisitorInv'
    BY <1>1, <1>4, VisitorKept
  <2>5. IdInv' /\ SyncInv' /\ (HierarchyInv => HierarchyInv') /\ (DanglingInv => DanglingInv')
    BY <1>1, <2>1, WalksApart
  <2>6. HierarchyInv /\ DecisionIsPolicy => DecisionIsPolicy'
    BY <1>1, <1>4, DecisionMade DEF HierarchyInv
  <2>7. NoAgent' => ApprovalInv'
    BY <1>1, <1>2, <2>1, ApprovalStays
  <2>8. UNCHANGED traffic
    BY <2>1
  <2> QED BY <1>1, <1>2, <2>2, <2>3, <2>4, <2>5, <2>6, <2>7, <2>8 DEF Inv
<1>5. ASSUME \/ \E k \in Agents : AgentNext(k)
             \/ \E q \in Requests : CreateRequest(q)
             \/ \E r \in Resolvers : ResolverNext(r)
             \/ Retire
      PROVE  Inv'
  <2>1. /\ UNCHANGED gvars /\ UNCHANGED <<vpc, seen, verdict>>
        /\ (UNCHANGED <<mount, entries, shifted>>) \/ shifted' = Visitors
    BY <1>5, Shifts
  <2>2. UNCHANGED <<traffic, edges, moved, wpc>>
    BY <2>1 DEF gvars, tables, walk
  <2>3. /\ GroupsInv' /\ WalkInv' /\ IdInv' /\ SyncInv'
        /\ (HierarchyInv => HierarchyInv') /\ (DanglingInv => DanglingInv')
    BY <1>1, <2>1, GroupsStay
  <2>4. RegistryTypes' /\ VisitorTypes'
    BY <1>1, <1>5, RegistrySteps
  <2>5. VisitorInv'
    BY <1>1, <2>1, <2>2, VisitorStays
  <2>6. DecisionIsPolicy => DecisionIsPolicy'
    BY <2>1, <2>2, DecisionKept
  <2>7. NoAgent' => ApprovalInv'
    BY <1>1, <1>2, <1>5, <2>2, ApprovalKept
  <2> QED BY <1>1, <1>2, <2>2, <2>3, <2>4, <2>5, <2>6, <2>7 DEF Inv
<1>6. CASE Crash
  <2>1. /\ UNCHANGED traffic /\ crashes' \in 0..MaxCrashes /\ GroupsCrash /\ crashes' # 0
    <3>1. crashes \in 0..MaxCrashes /\ MaxCrashes \in Nat
      BY <1>1, TypesNow, GroupsAssumption
    <3> QED BY <1>6, <3>1 DEF Crash
  <2>2. GroupsInv' /\ WalkInv' /\ IdInv' /\ SyncInv'
    BY <1>1, <2>1, CrashTypes, WalkCrash, IdCrash DEF SyncInv
  <2>3. RegistryTypes' /\ VisitorTypes'
    BY <1>1, <1>6 DEF Crash, RegistryTypes, VisitorTypes, NoVerdict
  <2>4. VisitorInv'
    BY <1>6 DEF Crash, VisitorInv
  <2>5. DecisionIsPolicy'
    BY <1>6 DEF Crash, DecisionIsPolicy, NoVerdict
  <2>6. OneAdmin' => HierarchyInv'
    BY <1>1, <1>2, <2>1, HierarchyCrash
  <2>7. Apart' => DanglingInv'
    BY <1>1, <1>2, <2>1, DanglingCrash
  <2>8. NoAgent' => ApprovalInv'
    BY <1>1, <1>2, <1>6, <2>1, ApprovalCrash
  <2> QED BY <2>2, <2>3, <2>4, <2>5, <2>6, <2>7, <2>8 DEF Inv
<1>7. CASE UNCHANGED vars
  <2>1. UNCHANGED gvars /\ UNCHANGED <<registry, visitor, agent, qpc, resolver>>
    BY <1>7 DEF vars
  <2>2. UNCHANGED <<traffic, edges, moved, wpc, mount, entries, shifted, vpc, seen, verdict>>
    BY <2>1 DEF gvars, tables, walk, registry, visitor
  <2>3. /\ GroupsInv' /\ WalkInv' /\ IdInv' /\ SyncInv'
        /\ (HierarchyInv => HierarchyInv') /\ (DanglingInv => DanglingInv')
    BY <1>1, <2>1, GroupsStay
  <2>4. RegistryTypes' /\ VisitorTypes'
    BY <1>1, <2>1 DEF RegistryTypes, VisitorTypes, registry, visitor, agent, resolver
  <2>5. VisitorInv' /\ (DecisionIsPolicy => DecisionIsPolicy') /\ (ApprovalInv => ApprovalInv')
    BY <1>1, <2>1, <2>2, VisitorStays, DecisionKept, ApprovalStays
  <2> QED BY <1>1, <1>2, <2>2, <2>3, <2>4, <2>5 DEF Inv
<1> QED BY <1>3, <1>4, <1>5, <1>6, <1>7 DEF Next

LEMMA InvHolds == Spec => []Inv
BY InvInit, InvNext, PTL DEF Spec

-----------------------------------------------------------------------------
(***************************************************************************)
(* The theorems.                                                            *)
(***************************************************************************)
\* While one admin edits at a time, and deletes groups only when no other
\* writer is about, add_member, remove_member, delete_group, the sign-ins that
\* write memberships meanwhile and crashes leave the hierarchy without a cycle
\* and without a loose end, in the tables and on disk.
THEOREM HierarchyKept == Spec => [](OneAdmin /\ Apart => HierarchySound)
<1>1. Inv => (OneAdmin /\ Apart => HierarchySound)
  BY TypesSplit, DanglingGives DEF Inv, GroupsInv, HierarchyInv, HierarchySound
<1> QED BY <1>1, InvHolds, PTL

\* Every variable of Access and Groups has its type, for any traffic.
THEOREM TypeCorrect == Spec => []TypeOK
<1>1. Inv => TypeOK
  BY TypesSplit DEF Inv, GroupsInv
<1> QED BY <1>1, InvHolds, PTL

\* resolve_user_groups: for any traffic, a walk during which no membership
\* changed finds the least set of groups that is closed upwards, and raises
\* GroupCycleError only for a cycle.
THEOREM WalksFindClosure == Spec => []WalkIsClosure
<1>1. Inv => WalkIsClosure
  BY WalkGives DEF Inv
<1> QED BY <1>1, InvHolds, PTL

\* ... and with one admin at a time add_member refuses a nesting only if it
\* would close a cycle.
THEOREM WalksExact == Spec => [](OneAdmin => WalksAreExact)
<1>1. Inv => (OneAdmin => WalksAreExact)
  BY WalkGives DEF Inv, HierarchyInv, WalksAreExact
<1> QED BY <1>1, InvHolds, PTL

\* _sync_groups: any number of sign-ins with one claim, interleaved statement by
\* statement, leave their user in exactly the claimed groups.
THEOREM SignInsReconcile == Spec => []SyncReconciles
<1>1. Inv => SyncReconciles
  BY SyncGives DEF Inv
<1> QED BY <1>1, InvHolds, PTL

\* authorize: a visitor under whom nothing changed is told what the policy and
\* the memberships say.
THEOREM DecisionsFollowPolicy == Spec => [](OneAdmin => DecisionIsPolicy)
<1>1. Inv => (OneAdmin => DecisionIsPolicy)
  BY DEF Inv
<1> QED BY <1>1, InvHolds, PTL

\* resolve_request: unless the agent rewrites its policy, no crash and no other
\* resolver leaves an approval on disk without its entry.
THEOREM ApprovalsHaveEntries == Spec => [](NoAgent => ApprovedHasEntry)
<1>1. Inv => (NoAgent => ApprovedHasEntry)
  BY DEF Inv, ApprovalInv, Has, ApprovedHasEntry
<1> QED BY <1>1, InvHolds, PTL
=============================================================================
