------------------------------- MODULE Groups -------------------------------
(***************************************************************************)
(* Nested groups of accounts: the groups and memberships tables, the admin  *)
(* console that edits them, the reconciliation of a user's groups with the  *)
(* claims of a single sign-on, and the walk that finds every group a user   *)
(* belongs to.  One step is one SQL statement of one request; between two   *)
(* statements any other request may run, on the same connection and in the  *)
(* same transaction.                                                        *)
(***************************************************************************)
EXTENDS Integers, FiniteSets, Sequences

CONSTANTS
    Users,      \* accounts; never deleted
    MaxGroups,  \* bound on the groups ever created
    Names,      \* names of groups
    Claimable,  \* names with the prefix that single sign-on owns
    NoName,     \* absence of a row
    Editors,    \* admin requests: create a group, add or remove a member
    Deleters,   \* ... those that also delete groups
    Syncs,      \* sign-ins that reconcile groups
    SyncUser,   \* whose sign-in it is
    Walkers,    \* requests that resolve a user's groups
    WalkUser,   \* the user of each, or NoName for an anonymous one
    StartNames, \* the groups at the start, in the order of their ids
    Starts,     \* what a behaviour starts with: memberships, and the requests that arrive
    MaxOps,     \* bound on the operations of one admin
    MaxCrashes  \* bound on relay crashes

Gids == 1..MaxGroups   \* given out in order, never again
Admins == Editors \cup Deleters
Writers == Admins \cup Syncs
Members == Users \cup Gids
Edge == Gids \X Members    \* <<group, member>>

ASSUME GroupsAssumption ==
    /\ MaxGroups \in Nat /\ Users \cap Gids = {} /\ Admins \cap Syncs = {}
    /\ NoName \notin Names /\ Claimable \subseteq Names
    /\ SyncUser \in [Syncs -> Users] /\ WalkUser \in [Walkers -> Users \cup {NoName}]
    /\ NoName \notin Users
    /\ StartNames \in Seq(Names) /\ Len(StartNames) <= MaxGroups
    /\ \A s \in Starts : s.graphs \subseteq SUBSET Edge
    /\ MaxOps \in Nat /\ MaxCrashes \in Nat

VARIABLES
    traffic,   \* the requests that arrive
    groups,    \* the groups table: id -> name
    edges,     \* the memberships table
    seq,       \* the last group id given out
    saved,     \* the three as last committed
    pc,        \* where each writer is
    arg,       \* the group, member and name it works on
    frontier, below,   \* _group_descendants: still to visit, found so far
    claim, todo,       \* _sync_groups: names claimed, names or groups left
    ops,       \* operations each admin has begun
    wpc, stack, acc,   \* the walk: place, DFS frames, groups found
    moved,     \* walks during which a membership changed
    crashes

tables == <<groups, edges, seq, saved>>
writer == <<pc, arg, frontier, below, claim, todo, ops>>
walk == <<wpc, stack, acc, moved>>
gvars == <<traffic, tables, writer, walk, crashes>>

Arg == [g : Gids \cup {0}, m : Members \cup {0}, n : Names \cup {NoName}]
NoArg == [g |-> 0, m |-> 0, n |-> NoName]
Frame == [at : Members, read : BOOLEAN, left : SUBSET Gids]
Places == {"idle", "check_name", "insert_group", "commit_group", "check_group", "check_member",
    "descend", "refused", "check_edge", "insert_edge", "delete_edge", "commit", "delete_group",
    "purge_out", "purge_in", "next", "find", "refind", "parents", "revoke", "done", "failed"}

Exists(g) == g \in Gids /\ groups[g] # NoName
IdOf(n) == {g \in Gids : groups[g] = n}
Taken(n) == IdOf(n) # {}
Above(m) == {g \in Gids : <<g, m>> \in edges}   \* list_parent_group_ids

-----------------------------------------------------------------------------
Goto(t, place) == pc' = [pc EXCEPT ![t] = place]
With(t, g, m, n) == arg' = [arg EXCEPT ![t] = [g |-> g, m |-> m, n |-> n]]
\* A write to memberships; walks in progress may miss it or meet it.
SetEdges(new) ==
    /\ edges' = new
    /\ moved' = IF new = edges THEN moved ELSE Walkers

\* Where add_member and remove_member return to, and where an exception the
\* caller does not expect leads.
After(t) == IF t \in Admins THEN "idle" ELSE IF arg[t].n = NoName THEN "revoke" ELSE "next"
Raised(t) == IF t \in Admins THEN "idle" ELSE "failed"

Commit(t) ==
    /\ pc[t] = "commit" /\ Goto(t, After(t))
    /\ saved' = [groups |-> groups, edges |-> edges, seq |-> seq]
    /\ UNCHANGED <<traffic, groups, edges, seq, arg, frontier, below, claim, todo, ops, walk, crashes>>

\* An admin begins one of the console's operations.
BeginOp(t, place, g, m, n) ==
    /\ t \in traffic /\ pc[t] \in {"idle", "refused"} /\ ops[t] < MaxOps
    /\ ops' = [ops EXCEPT ![t] = @ + 1]
    /\ Goto(t, place) /\ With(t, g, m, n)
    /\ UNCHANGED <<traffic, tables, frontier, below, claim, todo, walk, crashes>>
-----------------------------------------------------------------------------
(***************************************************************************)
(* create_group.                                                            *)
(***************************************************************************)
CreateGroup(t) == \E n \in Names : BeginOp(t, "check_name", 0, 0, n)

\* GroupNameTakenError: the admin gets 409, a sign-in looks the name up again.
NameTaken(t) == Goto(t, IF t \in Admins THEN "idle" ELSE "refind")

CheckName(t) ==
    /\ pc[t] = "check_name"
    /\ \/ Taken(arg[t].n) /\ NameTaken(t)
       \/ ~Taken(arg[t].n) /\ Goto(t, "insert_group")
    /\ UNCHANGED <<traffic, tables, arg, frontier, below, claim, todo, ops, walk, crashes>>

InsertGroup(t) ==
    /\ pc[t] = "insert_group"
    /\ \/ Taken(arg[t].n) /\ NameTaken(t) /\ UNCHANGED <<groups, seq, arg>>
       \/ /\ ~Taken(arg[t].n) /\ seq < MaxGroups
          /\ seq' = seq + 1 /\ groups' = [groups EXCEPT ![seq + 1] = arg[t].n]
          /\ arg' = [arg EXCEPT ![t].g = seq + 1]
          /\ Goto(t, "commit_group")
    /\ UNCHANGED <<traffic, edges, saved, frontier, below, claim, todo, ops, walk, crashes>>

CommitGroup(t) ==
    /\ pc[t] = "commit_group"
    /\ saved' = [groups |-> groups, edges |-> edges, seq |-> seq]
    /\ Goto(t, IF t \in Admins THEN "idle" ELSE "check_group")
    /\ UNCHANGED <<traffic, groups, edges, seq, arg, frontier, below, claim, todo, ops, walk, crashes>>
-----------------------------------------------------------------------------
(***************************************************************************)
(* add_member, with the guard against cycles, and remove_member.            *)
(***************************************************************************)
\* The console names the member; its id is looked up first.
AddMember(t) ==
    \E g \in Gids, m \in Users \cup {h \in Gids : Exists(h)} : BeginOp(t, "check_group", g, m, NoName)

CheckGroup(t) ==
    /\ pc[t] = "check_group"
    /\ Goto(t, IF Exists(arg[t].g) THEN "check_member" ELSE Raised(t))
    /\ UNCHANGED <<traffic, tables, arg, frontier, below, claim, todo, ops, walk, crashes>>

CheckMember(t) ==
    /\ pc[t] = "check_member"
    /\ Goto(t, CASE arg[t].m \in Users -> "check_edge"
                 [] ~(arg[t].m \in Users \/ Exists(arg[t].m)) -> Raised(t)
                 [] arg[t].m = arg[t].g /\ Exists(arg[t].m) -> "refused"
                 [] OTHER -> "descend")
    /\ frontier' = [frontier EXCEPT ![t] = {arg[t].m} \cap Gids]
    /\ below' = [below EXCEPT ![t] = {}]
    /\ UNCHANGED <<traffic, tables, arg, claim, todo, ops, walk, crashes>>

\* _group_descendants: one SELECT per group; the guard follows the last one.
Children(g) == {c \in Gids : <<g, c>> \in edges}
Descend(t) ==
    /\ pc[t] = "descend"
    /\ \E g \in frontier[t] :
          LET new == Children(g) \ below[t] IN
          /\ below' = [below EXCEPT ![t] = @ \cup new]
          /\ frontier' = [frontier EXCEPT ![t] = (@ \ {g}) \cup new]
    /\ Goto(t, IF frontier'[t] # {} THEN "descend"
               ELSE IF arg[t].g \in below'[t] THEN "refused" ELSE "check_edge")
    /\ UNCHANGED <<traffic, tables, arg, claim, todo, ops, walk, crashes>>

Held(t) == <<arg[t].g, arg[t].m>> \in edges
CheckEdge(t) ==
    /\ pc[t] = "check_edge"
    /\ Goto(t, IF Held(t) THEN After(t) ELSE "insert_edge")
    /\ UNCHANGED <<traffic, tables, arg, frontier, below, claim, todo, ops, walk, crashes>>

InsertEdge(t) ==
    /\ pc[t] = "insert_edge"
    /\ Goto(t, IF Held(t) THEN After(t) ELSE "commit")
    /\ SetEdges(edges \cup {<<arg[t].g, arg[t].m>>})
    /\ UNCHANGED <<traffic, groups, seq, saved, arg, frontier, below, claim, todo, ops, wpc, stack, acc, crashes>>

RemoveMember(t) == \E g \in Gids, m \in Members : BeginOp(t, "delete_edge", g, m, NoName)

DeleteEdge(t) ==
    /\ pc[t] = "delete_edge"
    /\ Goto(t, IF Held(t) THEN "commit" ELSE After(t))
    /\ SetEdges(edges \ {<<arg[t].g, arg[t].m>>})
    /\ UNCHANGED <<traffic, groups, seq, saved, arg, frontier, below, claim, todo, ops, wpc, stack, acc, crashes>>
-----------------------------------------------------------------------------
(***************************************************************************)
(* delete_group: three DELETEs and a commit.                                *)
(***************************************************************************)
DeleteGroup(t) == \E g \in Gids : BeginOp(t, "delete_group", g, 0, NoName)

DeleteRow(t) ==
    /\ pc[t] = "delete_group"
    /\ groups' = [groups EXCEPT ![arg[t].g] = NoName]
    /\ Goto(t, IF Exists(arg[t].g) THEN "purge_out" ELSE "idle")
    /\ UNCHANGED <<traffic, edges, seq, saved, arg, frontier, below, claim, todo, ops, walk, crashes>>

PurgeOut(t) ==
    /\ pc[t] = "purge_out" /\ Goto(t, "purge_in")
    /\ SetEdges({e \in edges : e[1] # arg[t].g})
    /\ UNCHANGED <<traffic, groups, seq, saved, arg, frontier, below, claim, todo, ops, wpc, stack, acc, crashes>>

\* Mutant: the group stays a member of others.
PurgeInSkipped(t) ==
    /\ pc[t] = "purge_in" /\ Goto(t, "commit")
    /\ UNCHANGED <<traffic, groups, edges, seq, saved, arg, frontier, below, claim, todo, ops, walk, crashes>>
PurgeIn(t) ==
    /\ pc[t] = "purge_in" /\ Goto(t, "commit")
    /\ SetEdges({e \in edges : e[2] # arg[t].g})
    /\ UNCHANGED <<traffic, groups, seq, saved, arg, frontier, below, claim, todo, ops, wpc, stack, acc, crashes>>
-----------------------------------------------------------------------------
(***************************************************************************)
(* _sync_groups: join every claimed group, then leave the others.           *)
(***************************************************************************)
Sync(t) ==
    /\ t \in traffic /\ pc[t] = "idle" /\ Goto(t, "next")
    /\ \E c \in SUBSET Claimable :
          claim' = [claim EXCEPT ![t] = c] /\ todo' = [todo EXCEPT ![t] = c]
    /\ UNCHANGED <<traffic, tables, arg, frontier, below, ops, walk, crashes>>

NextName(t) ==
    /\ pc[t] = "next"
    /\ \/ todo[t] = {} /\ Goto(t, "parents") /\ UNCHANGED <<todo, arg>>
       \/ \E n \in todo[t] :
             /\ todo' = [todo EXCEPT ![t] = @ \ {n}]
             /\ With(t, 0, SyncUser[t], n) /\ Goto(t, "find")
    /\ UNCHANGED <<traffic, tables, frontier, below, claim, ops, walk, crashes>>

\* get_group_by_name, before and after an attempt to create the group.
Find(t) ==
    /\ pc[t] \in {"find", "refind"}
    /\ \/ \E g \in IdOf(arg[t].n) : arg' = [arg EXCEPT ![t].g = g] /\ Goto(t, "check_group")
       \/ /\ ~Taken(arg[t].n) /\ UNCHANGED arg
          /\ Goto(t, IF pc[t] = "find" THEN "check_name" ELSE "failed")
    /\ UNCHANGED <<traffic, tables, frontier, below, claim, todo, ops, walk, crashes>>

Parents(t) ==
    /\ pc[t] = "parents" /\ Goto(t, "revoke")
    /\ todo' = [todo EXCEPT ![t] = Above(SyncUser[t])]
    /\ With(t, 0, SyncUser[t], NoName)
    /\ UNCHANGED <<traffic, tables, frontier, below, claim, ops, walk, crashes>>

\* get_group_by_id of the next group; leave it if it is no longer claimed.
\* Mutant: a sign-in only ever adds.
NeverUnclaimed(t, g) == FALSE
Unclaimed(t, g) == groups[g] \in Claimable \ claim[t]
Revoke(t) ==
    /\ pc[t] = "revoke"
    /\ \/ todo[t] = {} /\ Goto(t, "done") /\ UNCHANGED <<todo, arg>>
       \/ \E g \in todo[t] :
             /\ todo' = [todo EXCEPT ![t] = @ \ {g}]
             /\ arg' = [arg EXCEPT ![t].g = g]
             /\ Goto(t, IF ~Exists(g) THEN "failed"
                        ELSE IF Unclaimed(t, g) THEN "delete_edge" ELSE "revoke")
    /\ UNCHANGED <<traffic, tables, frontier, below, claim, ops, walk, crashes>>
-----------------------------------------------------------------------------
(***************************************************************************)
(* resolve_user_groups: a depth-first walk up the memberships.              *)
(***************************************************************************)
StartWalk(w) ==
    /\ wpc[w] = "idle"
    /\ wpc' = [wpc EXCEPT ![w] = "walk"]
    /\ stack' = [stack EXCEPT ![w] = <<[at |-> WalkUser[w], read |-> FALSE, left |-> {}]>>]
    /\ acc' = [acc EXCEPT ![w] = {}]
    /\ moved' = moved \ {w}

Top(w) == Head(stack[w])
Path(w) == {stack[w][i].at : i \in DOMAIN stack[w]}
SetTop(w, frame) == stack' = [stack EXCEPT ![w] = <<frame>> \o Tail(@)]

\* One SELECT: the parents of the group on top.
ReadParents(w) ==
    /\ wpc[w] = "walk" /\ ~Top(w).read
    /\ SetTop(w, [Top(w) EXCEPT !.read = TRUE, !.left = Above(Top(w).at)])
    /\ UNCHANGED <<wpc, acc, moved>>

\* The loop over them: a parent on the path is a cycle, one found before is
\* skipped, any other is walked in turn.
\* Mutant: the parents of a parent are not walked.
VisitParentFlat(w) ==
    /\ wpc[w] = "walk" /\ Top(w).read
    /\ \E g \in Top(w).left :
          /\ acc' = [acc EXCEPT ![w] = @ \cup {g}]
          /\ SetTop(w, [Top(w) EXCEPT !.left = @ \ {g}])
    /\ UNCHANGED <<wpc, moved>>
VisitParent(w) ==
    /\ wpc[w] = "walk" /\ Top(w).read
    /\ \E g \in Top(w).left :
          LET rest == [Top(w) EXCEPT !.left = @ \ {g}] IN
          /\ wpc' = [wpc EXCEPT ![w] = IF g \in Path(w) THEN "cycle" ELSE "walk"]
          /\ \/ g \in acc[w] /\ SetTop(w, rest) /\ UNCHANGED acc
             \/ /\ g \notin acc[w]
                /\ acc' = [acc EXCEPT ![w] = @ \cup {g}]
                /\ stack' = [stack EXCEPT ![w] =
                       <<[at |-> g, read |-> FALSE, left |-> {}], rest>> \o Tail(@)]
    /\ UNCHANGED moved

Return(w) ==
    /\ wpc[w] = "walk" /\ Top(w).read /\ Top(w).left = {}
    /\ stack' = [stack EXCEPT ![w] = Tail(@)]
    /\ wpc' = [wpc EXCEPT ![w] = IF Len(stack[w]) = 1 THEN "resolved" ELSE "walk"]
    /\ UNCHANGED <<acc, moved>>

WalkStep(w) == ReadParents(w) \/ VisitParent(w) \/ Return(w)
-----------------------------------------------------------------------------
\* The relay dies and starts again on what was committed.
Stopped(t) == IF pc[t] \in {"idle", "refused", "done"} THEN pc[t] ELSE Raised(t)
GroupsCrash ==
    /\ groups' = saved.groups /\ seq' = saved.seq
    /\ edges' = saved.edges
    /\ pc' = [t \in Writers |-> Stopped(t)]
    /\ wpc' = [w \in Walkers |-> "idle"] /\ moved' = {}
    /\ UNCHANGED <<saved, arg, frontier, below, claim, todo, ops, stack, acc>>

StartGroups == [g \in Gids |-> IF g <= Len(StartNames) THEN StartNames[g] ELSE NoName]
GroupsInit(s) ==
    /\ traffic = s.who /\ crashes = 0
    /\ groups = StartGroups /\ seq = Len(StartNames)
    /\ edges \in s.graphs
    /\ saved = [groups |-> groups, edges |-> edges, seq |-> seq]
    /\ pc = [t \in Writers |-> "idle"] /\ arg = [t \in Writers |-> NoArg]
    /\ frontier = [t \in Writers |-> {}] /\ below = [t \in Writers |-> {}]
    /\ claim = [t \in Syncs |-> {}] /\ todo = [t \in Syncs |-> {}]
    /\ ops = [t \in Admins |-> 0]
    /\ wpc = [w \in Walkers |-> "idle"] /\ stack = [w \in Walkers |-> <<>>]
    /\ acc = [w \in Walkers |-> {}] /\ moved = {}

AdminNext(t) ==
    \/ CreateGroup(t) \/ AddMember(t) \/ RemoveMember(t)
    \/ t \in Deleters /\ (DeleteGroup(t) \/ DeleteRow(t) \/ PurgeOut(t) \/ PurgeIn(t))
SyncNext(t) == Sync(t) \/ NextName(t) \/ Find(t) \/ Parents(t) \/ Revoke(t)
StoreNext(t) ==
    \/ Commit(t) \/ CheckName(t) \/ InsertGroup(t) \/ CommitGroup(t) \/ CheckGroup(t)
    \/ CheckMember(t) \/ Descend(t) \/ CheckEdge(t) \/ InsertEdge(t) \/ DeleteEdge(t)

\* The writers' part of a next-state relation; walks belong to their caller.
GroupsNext ==
    \/ \E t \in Admins : AdminNext(t)
    \/ \E t \in Syncs : SyncNext(t)
    \/ \E t \in Writers : StoreNext(t)
-----------------------------------------------------------------------------
(***************************************************************************)
(* Properties.                                                              *)
(***************************************************************************)
\* Every variable has its type, and every frame of a walk is a group found.
GroupsTypeOK ==
    /\ traffic \in {s.who : s \in Starts} /\ crashes \in 0..MaxCrashes
    /\ groups \in [Gids -> Names \cup {NoName}] /\ edges \in SUBSET Edge /\ seq \in 0..MaxGroups
    /\ saved \in [groups : [Gids -> Names \cup {NoName}], edges : SUBSET Edge, seq : 0..MaxGroups]
    /\ pc \in [Writers -> Places] /\ arg \in [Writers -> Arg]
    /\ frontier \in [Writers -> SUBSET Gids] /\ below \in [Writers -> SUBSET Gids]
    /\ claim \in [Syncs -> SUBSET Claimable] /\ todo \in [Syncs -> SUBSET (Claimable \cup Gids)]
    /\ ops \in [Admins -> 0..MaxOps]
    /\ wpc \in [Walkers -> {"idle", "walk", "resolved", "cycle"}]
    /\ stack \in [Walkers -> Seq(Frame)] /\ acc \in [Walkers -> SUBSET Gids]
    /\ moved \in SUBSET Walkers
    /\ \A w \in Walkers : wpc[w] = "walk" => stack[w] # <<>>

HasCycle(e) == \E X \in (SUBSET Gids) \ {{}} : \A g \in X : \E h \in X : <<h, g>> \in e
\* The groups u belongs to, directly or through other groups.
GroupsOf(u, e) ==
    {g \in Gids : \A X \in SUBSET Gids :
        (\A h \in Gids : (<<h, u>> \in e \/ \E x \in X : <<h, x>> \in e) => h \in X) => g \in X}

\* A behaviour starts with memberships of existing groups, none in itself.
ASSUME StartAssumption ==
    \A s \in Starts : \A e \in s.graphs :
        ~HasCycle(e) /\ \A x \in e : \A g \in {x[1], x[2]} \cap Gids : g <= Len(StartNames)

\* add_member: while one admin edits at a time no group ever contains itself,
\* though sign-ins write memberships between the guard and its INSERT.
Acyclic == ~HasCycle(edges) /\ ~HasCycle(saved.edges)

\* add_member refuses a nesting only if it would close a cycle.
RefusedForCause ==
    \A t \in Admins : pc[t] = "refused" => HasCycle(edges \cup {<<arg[t].g, arg[t].m>>})

\* resolve_user_groups: a walk that no write disturbed finds exactly the
\* groups the user belongs to, and reports no cycle where there is none.
WalkIsClosure ==
    \A w \in Walkers \ moved :
        /\ wpc[w] = "cycle" => HasCycle(edges)
        /\ wpc[w] = "resolved" => acc[w] = GroupsOf(WalkUser[w], edges)

\* The two walks over the hierarchy, add_member's down and authorize's up,
\* neither miss a group nor see one too many.
WalksAreExact == RefusedForCause /\ WalkIsClosure

\* delete_group leaves no membership of, or in, a group that is gone, neither
\* in the tables nor in what a crash leaves of them.
NoDangling ==
    /\ \A e \in saved.edges : \A g \in {e[1], e[2]} \cap Gids : saved.groups[g] # NoName
    /\ (\A t \in Writers : pc[t] \notin {"purge_out", "purge_in"}) =>
           \A e \in edges : \A g \in {e[1], e[2]} \cap Gids : Exists(g)

\* _sync_groups: once the sign-ins of a user with one and the same claim are
\* through, the user is in exactly the claimed groups of the prefix, whoever
\* of them created the groups.
SyncReconciles ==
    \A t \in Syncs :
        /\ pc[t] = "done" /\ crashes = 0 /\ traffic \subseteq Syncs
        /\ \A s \in Syncs : pc[s] = "done" => claim[s] = claim[t]
        /\ \A s \in Syncs : pc[s] \in {"idle", "done"}
        => {groups[g] : g \in Above(SyncUser[t])} \cap Claimable = claim[t]
=============================================================================
