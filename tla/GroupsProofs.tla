---------------------------- MODULE GroupsProofs ----------------------------
(***************************************************************************)
(* The inductive invariants of Groups, for any number of users, groups and  *)
(* requests, and the lemmas that the steps of the writers, of the walks and *)
(* of a crash preserve them.  AccessProofs combines them into theorems      *)
(* about the specification of Access.                                       *)
(***************************************************************************)
EXTENDS Groups, SequenceTheorems, TLAPS

\* _sync_groups while it joins groups, and while it leaves others.
Joining == {"find", "refind", "check_name", "insert_group", "commit_group", "check_group",
            "check_member", "check_edge", "insert_edge"}
Found == {"commit_group", "check_group", "check_member", "check_edge", "insert_edge"}
Adding == {"check_group", "check_member", "descend", "check_edge", "insert_edge"}

\* What a writer at place l works on, with argument a and d left to do: members
\* that may exist, and for a sign-in its own user, with names of groups first
\* and ids of groups later.
AdminAt(t, l, a) ==
    /\ l \in Adding => a.g \in Gids /\ a.m \in Members
    /\ l = "descend" => a.m \in Gids
    /\ l \in {"check_name", "insert_group"} => a.n \in Names
    /\ l = "refused" => a.g \in Gids /\ a.m \in Gids
    /\ l \in {"delete_edge", "delete_group", "purge_out", "purge_in"} => a.g \in Gids
    /\ l \in {"delete_group", "purge_out", "purge_in"} => t \in Deleters
    /\ l \notin {"next", "find", "refind", "parents", "revoke", "done", "failed"}
SyncAt(t, l, a, d) ==
    /\ l \in Joining => a.n \in Claimable /\ a.m = SyncUser[t]
    /\ l \in {"check_member", "check_edge", "insert_edge"} => a.g \in Gids
    /\ l \in Joining \cup {"next"} => d \subseteq Claimable
    /\ l \in {"revoke", "delete_edge"} => d \subseteq Gids /\ a.n = NoName
    /\ l = "delete_edge" => a.g \in Gids
    /\ l \in {"revoke", "delete_edge", "commit"} => a.m = SyncUser[t]
    /\ l = "commit" => \/ a.n = NoName /\ d \subseteq Gids
                       \/ a.n \in Claimable /\ d \subseteq Claimable
    /\ l \notin {"descend", "refused", "delete_group", "purge_out", "purge_in"}
PhaseInv ==
    /\ \A t \in Admins : AdminAt(t, pc[t], arg[t])
    /\ \A t \in Syncs : SyncAt(t, pc[t], arg[t], todo[t])
    \* Only requests that arrive are ever under way.
    /\ \A t \in Writers \ traffic : pc[t] = "idle"

GroupsInv == GroupsTypeOK /\ PhaseInv

\* A walk that no write disturbed: it has found only groups of the user; the
\* frames below the top are the way up to it, and whatever lies above a group
\* that was found has been found, is left in a frame, or belongs to the path.
ClosedUnder(a) == \A g \in a : Above(g) \subseteq a
WalkShape(u, s, a) ==
    /\ Len(s) > 0 /\ s[Len(s)].at = u
    /\ \A i \in 1..(Len(s) - 1) : s[i].at \in a /\ <<s[i].at, s[i + 1].at>> \in edges
    /\ \A i \in 2..Len(s) : s[i].read
    /\ \A i \in 1..Len(s) : s[i].read =>
          s[i].left \subseteq Above(s[i].at) /\ Above(s[i].at) \subseteq a \cup s[i].left
    /\ \A g \in a : Above(g) \subseteq a \/ \E i \in 1..Len(s) : s[i].at = g
WalkOk(u, p, s, a) ==
    /\ u \in Users /\ a \subseteq GroupsOf(u, edges)
    /\ p = "walk" => WalkShape(u, s, a)
    /\ p = "resolved" => Above(u) \subseteq a /\ ClosedUnder(a)
    /\ p = "cycle" => HasCycle(edges)
WalkInv ==
    \A w \in Walkers \ moved : wpc[w] # "idle" => WalkOk(WalkUser[w], wpc[w], stack[w], acc[w])

\* While one admin edits at a time.
OneAdmin == \A a, b \in traffic \cap Admins : a = b
Nested(e) == e \cap (Gids \X Gids)

\* add_member's guard: the descent has found every group below the member up
\* to what is left to visit, and only such groups; once it is over, a set of
\* groups that is closed downwards has the member and not the group.
DescentOk(t) ==
    LET all == below[t] \cup {arg[t].m} IN
    /\ arg[t].m # arg[t].g /\ frontier[t] \subseteq all
    /\ \A x \in all \ frontier[t] : Children(x) \subseteq below[t]
    /\ \A x \in below[t] : \E p \in all : <<p, x>> \in edges
GuardOk(t) ==
    \E D \in SUBSET Gids : arg[t].m \in D /\ arg[t].g \notin D /\ \A x \in D : Children(x) \subseteq D
HierarchyInv ==
    /\ Acyclic
    /\ (\A t \in Admins : pc[t] \notin {"commit", "purge_in"}) => Nested(saved.edges) = Nested(edges)
    /\ \A t \in Admins :
          /\ pc[t] = "descend" => DescentOk(t)
          /\ pc[t] \in {"check_edge", "insert_edge"} /\ arg[t].m \in Gids => GuardOk(t)
    /\ RefusedForCause

\* While a request that deletes groups is the only writer.
Apart == \A t \in traffic \cap Deleters : traffic \cap Writers = {t}
Ends(e) == {e[1], e[2]} \cap Gids
DanglingInv ==
    /\ \A e \in saved.edges : \A g \in Ends(e) : saved.groups[g] # NoName
    /\ \A e \in edges : \A g \in Ends(e) :
          \/ Exists(g)
          \/ \E t \in Deleters : pc[t] \in {"purge_out", "purge_in"} /\ arg[t].g = g
    /\ \A t \in Deleters : pc[t] = "purge_in" => \A e \in edges : e[1] # arg[t].g
    /\ \A t \in Writers :
          /\ pc[t] \in {"check_member", "descend", "check_edge", "insert_edge"} => Exists(arg[t].g)
          /\ pc[t] \in {"descend", "check_edge", "insert_edge"} /\ arg[t].m \in Gids => Exists(arg[t].m)

\* Ids of groups are given out once.
IdInv ==
    /\ \A g \in Gids : g > seq => groups[g] = NoName
    /\ \A g \in Gids : g > saved.seq => saved.groups[g] = NoName

\* Sign-ins alone, all with one claim: every name is claimed, being joined or
\* joined, every group to leave is left to visit, and neither is undone.
Joined(t, n) == \E g \in Gids : groups[g] = n /\ <<g, SyncUser[t]>> \in edges
Unwanted(t) == {g \in Above(SyncUser[t]) : Unclaimed(t, g)}
OneClaim == \A s, t \in Syncs : pc[s] # "idle" /\ pc[t] # "idle" => claim[s] = claim[t]
SyncOk(t) ==
    /\ pc[t] \in Joining => arg[t].n \in claim[t]
    /\ pc[t] \in Joining \cup {"next"} \/ (pc[t] = "commit" /\ arg[t].n # NoName) => todo[t] \subseteq claim[t]
    /\ pc[t] \in Found => arg[t].g \in Gids /\ groups[arg[t].g] = arg[t].n
    /\ pc[t] \in Joining => \A n \in claim[t] : n \in todo[t] \/ n = arg[t].n \/ Joined(t, n)
    /\ pc[t] = "next" \/ (pc[t] = "commit" /\ arg[t].n # NoName) =>
          \A n \in claim[t] : n \in todo[t] \/ Joined(t, n)
    /\ pc[t] \in {"parents", "revoke", "delete_edge", "done"} \/ (pc[t] = "commit" /\ arg[t].n = NoName) =>
          \A n \in claim[t] : Joined(t, n)
    /\ pc[t] = "revoke" \/ (pc[t] = "commit" /\ arg[t].n = NoName) => Unwanted(t) \subseteq todo[t]
    /\ pc[t] = "delete_edge" => Unwanted(t) \subseteq todo[t] \cup {arg[t].g} /\ Unclaimed(t, arg[t].g)
    /\ pc[t] = "done" => Unwanted(t) = {}
SyncInv == crashes = 0 /\ traffic \subseteq Syncs /\ OneClaim => \A t \in Syncs : SyncOk(t)

(***************************************************************************)
(* Type correctness, and what each writer works on.                         *)
(***************************************************************************)
LEMMA Kinds ==
  /\ Admins \subseteq Writers /\ Syncs \subseteq Writers
  /\ \A t \in Writers : t \in Admins \/ t \in Syncs
  /\ \A t \in Admins : t \notin Syncs
  /\ Editors \subseteq Admins /\ Deleters \subseteq Admins
  /\ Users \subseteq Members /\ Gids \subseteq Members
  /\ NoName \notin Claimable /\ Claimable \subseteq Names
BY GroupsAssumption DEF Writers, Admins, Members

LEMMA GidFacts ==
  /\ MaxGroups \in Nat /\ Gids = 1..MaxGroups /\ 0 \notin Gids
  /\ \A u \in Users : u \notin Gids
BY GroupsAssumption DEF Gids

LEMMA GroupsInvInit ==
  ASSUME NEW s \in Starts, GroupsInit(s)
  PROVE  GroupsInv
<1>1. groups \in [Gids -> Names \cup {NoName}] /\ seq \in 0..MaxGroups
  <2>1. Len(StartNames) \in Nat /\ \A g \in 1..Len(StartNames) : StartNames[g] \in Names
    BY GroupsAssumption
  <2>2. \A g \in Gids : g <= Len(StartNames) => g \in 1..Len(StartNames)
    BY <2>1, GidFacts
  <2> QED BY <2>1, <2>2, GroupsAssumption DEF GroupsInit, StartGroups
<1>2. edges \in SUBSET Edge
  BY GroupsAssumption DEF GroupsInit
<1>3. GroupsTypeOK
  BY <1>1, <1>2, GroupsAssumption DEF GroupsInit, GroupsTypeOK, Places, Arg, NoArg
<1>4. PhaseInv
  BY Kinds DEF GroupsInit, PhaseInv, AdminAt, SyncAt, Adding, Joining
<1> QED BY <1>3, <1>4 DEF GroupsInv

\* One writer moves.
LEMMA PhaseMove ==
  ASSUME GroupsInv, NEW t \in Writers, NEW l \in Places, NEW a \in Arg,
         pc' = [pc EXCEPT ![t] = l], arg' = [arg EXCEPT ![t] = a],
         todo' \in [Syncs -> SUBSET (Claimable \cup Gids)],
         \A s \in Syncs : s # t => todo'[s] = todo[s],
         UNCHANGED traffic, t \in traffic \/ pc[t] # "idle",
         t \in Admins => AdminAt(t, l, a),
         t \in Syncs => SyncAt(t, l, a, todo'[t])
  PROVE  /\ PhaseInv' /\ pc' \in [Writers -> Places] /\ arg' \in [Writers -> Arg]
<1>1. /\ pc \in [Writers -> Places] /\ arg \in [Writers -> Arg] /\ PhaseInv
  BY DEF GroupsInv, GroupsTypeOK
<1>2. pc' \in [Writers -> Places] /\ arg' \in [Writers -> Arg]
  BY <1>1
<1>3. pc'[t] = l /\ arg'[t] = a /\ \A q \in Writers : q # t => pc'[q] = pc[q] /\ arg'[q] = arg[q]
  BY <1>1
<1>4. \A q \in Admins : AdminAt(q, pc'[q], arg'[q])
  <2> SUFFICES ASSUME NEW q \in Admins PROVE AdminAt(q, pc'[q], arg'[q])
    OBVIOUS
  <2>1. CASE q = t
    BY <1>3, <2>1
  <2>2. CASE q # t
    <3>1. pc'[q] = pc[q] /\ arg'[q] = arg[q]
      BY <1>3, <2>2, Kinds
    <3>2. AdminAt(q, pc[q], arg[q])
      BY <1>1 DEF PhaseInv
    <3> QED BY <3>1, <3>2
  <2> QED BY <2>1, <2>2
<1>5. \A q \in Syncs : SyncAt(q, pc'[q], arg'[q], todo'[q])
  <2> SUFFICES ASSUME NEW q \in Syncs PROVE SyncAt(q, pc'[q], arg'[q], todo'[q])
    OBVIOUS
  <2>1. CASE q = t
    BY <1>3, <2>1
  <2>2. CASE q # t
    <3>1. pc'[q] = pc[q] /\ arg'[q] = arg[q] /\ todo'[q] = todo[q]
      BY <1>3, <2>2, Kinds
    <3>2. SyncAt(q, pc[q], arg[q], todo[q])
      BY <1>1 DEF PhaseInv
    <3> QED BY <3>1, <3>2
  <2> QED BY <2>1, <2>2
<1>6. \A q \in Writers \ traffic' : pc'[q] = "idle"
  BY <1>1, <1>3 DEF PhaseInv
<1>7. PhaseInv'
  BY <1>4, <1>5, <1>6 DEF PhaseInv
<1> QED BY <1>2, <1>7

\* The part of the types that a writer's step leaves alone.
LEMMA TypeFrame ==
  ASSUME GroupsTypeOK, UNCHANGED <<traffic, crashes, wpc, stack, acc>>,
         groups' \in [Gids -> Names \cup {NoName}], edges' \in SUBSET Edge, seq' \in 0..MaxGroups,
         saved' = saved \/ saved' = [groups |-> groups, edges |-> edges, seq |-> seq],
         pc' \in [Writers -> Places], arg' \in [Writers -> Arg],
         frontier' \in [Writers -> SUBSET Gids], below' \in [Writers -> SUBSET Gids],
         claim' \in [Syncs -> SUBSET Claimable], todo' \in [Syncs -> SUBSET (Claimable \cup Gids)],
         ops' \in [Admins -> 0..MaxOps], moved' \in SUBSET Walkers
  PROVE  GroupsTypeOK'
BY DEF GroupsTypeOK

LEMMA TypesNow ==
  ASSUME GroupsInv
  PROVE  /\ traffic \in {s.who : s \in Starts} /\ crashes \in 0..MaxCrashes
         /\ groups \in [Gids -> Names \cup {NoName}] /\ edges \in SUBSET Edge /\ seq \in 0..MaxGroups
         /\ saved \in [groups : [Gids -> Names \cup {NoName}], edges : SUBSET Edge, seq : 0..MaxGroups]
         /\ pc \in [Writers -> Places] /\ arg \in [Writers -> Arg]
         /\ frontier \in [Writers -> SUBSET Gids] /\ below \in [Writers -> SUBSET Gids]
         /\ claim \in [Syncs -> SUBSET Claimable] /\ todo \in [Syncs -> SUBSET (Claimable \cup Gids)]
         /\ ops \in [Admins -> 0..MaxOps] /\ moved \in SUBSET Walkers
         /\ GroupsTypeOK /\ PhaseInv
         /\ \A t \in Admins : AdminAt(t, pc[t], arg[t])
         /\ \A t \in Syncs : SyncAt(t, pc[t], arg[t], todo[t])
BY DEF GroupsInv, GroupsTypeOK, PhaseInv

LEMMA BeginTypes ==
  ASSUME GroupsInv, NEW t \in Admins, NEW l \in Places, NEW g \in Gids \cup {0}, NEW m \in Members \cup {0},
         NEW n \in Names \cup {NoName}, BeginOp(t, l, g, m, n),
         AdminAt(t, l, [g |-> g, m |-> m, n |-> n])
  PROVE  GroupsInv'
<1> DEFINE a == [g |-> g, m |-> m, n |-> n]
<1>1. a \in Arg
  BY DEF Arg
<1>2. /\ t \in traffic /\ pc' = [pc EXCEPT ![t] = l] /\ arg' = [arg EXCEPT ![t] = a]
      /\ ops[t] < MaxOps /\ ops' = [ops EXCEPT ![t] = @ + 1]
      /\ UNCHANGED <<traffic, groups, edges, seq, saved, frontier, below, claim, todo, wpc, stack, acc, moved, crashes>>
  BY DEF BeginOp, Goto, With, tables, walk
<1>3. PhaseInv' /\ pc' \in [Writers -> Places] /\ arg' \in [Writers -> Arg]
  BY <1>1, <1>2, PhaseMove, TypesNow, Kinds
<1>4. ops' \in [Admins -> 0..MaxOps]
  BY <1>2, TypesNow, GroupsAssumption
<1>5. GroupsTypeOK'
  BY <1>2, <1>3, <1>4, TypesNow, TypeFrame
<1> QED BY <1>3, <1>5 DEF GroupsInv

LEMMA AdminTypes ==
  ASSUME GroupsInv, NEW t \in Admins, AdminNext(t)
  PROVE  GroupsInv'
<1>1. CASE CreateGroup(t)
  <2>1. PICK n \in Names : BeginOp(t, "check_name", 0, 0, n)
    BY <1>1 DEF CreateGroup
  <2>2. AdminAt(t, "check_name", [g |-> 0, m |-> 0, n |-> n]) /\ "check_name" \in Places
    BY DEF AdminAt, Adding, Places
  <2> QED BY <2>1, <2>2, BeginTypes
<1>2. CASE AddMember(t)
  <2>1. PICK g \in Gids, m \in Members : BeginOp(t, "check_group", g, m, NoName)
    BY <1>2, Kinds DEF AddMember
  <2>2. AdminAt(t, "check_group", [g |-> g, m |-> m, n |-> NoName]) /\ "check_group" \in Places
    BY DEF AdminAt, Adding, Places
  <2> QED BY <2>1, <2>2, BeginTypes
<1>3. CASE RemoveMember(t)
  <2>1. PICK g \in Gids, m \in Members : BeginOp(t, "delete_edge", g, m, NoName)
    BY <1>3 DEF RemoveMember
  <2>2. AdminAt(t, "delete_edge", [g |-> g, m |-> m, n |-> NoName]) /\ "delete_edge" \in Places
    BY DEF AdminAt, Adding, Places
  <2> QED BY <2>1, <2>2, BeginTypes
<1>4. CASE t \in Deleters /\ DeleteGroup(t)
  <2>1. PICK g \in Gids : BeginOp(t, "delete_group", g, 0, NoName)
    BY <1>4 DEF DeleteGroup
  <2>2. AdminAt(t, "delete_group", [g |-> g, m |-> 0, n |-> NoName]) /\ "delete_group" \in Places
    BY <1>4 DEF AdminAt, Adding, Places
  <2> QED BY <2>1, <2>2, BeginTypes
<1>5. CASE t \in Deleters /\ (DeleteRow(t) \/ PurgeOut(t) \/ PurgeIn(t))
  <2>1. PICK l \in {"idle", "purge_out", "purge_in", "commit"} :
           /\ pc' = [pc EXCEPT ![t] = l] /\ pc[t] \in {"delete_group", "purge_out", "purge_in"}
    BY <1>5 DEF DeleteRow, PurgeOut, PurgeIn, Goto
  <2>2. UNCHANGED <<traffic, seq, saved, arg, frontier, below, claim, todo, ops, wpc, stack, acc, crashes>>
    BY <1>5 DEF DeleteRow, PurgeOut, PurgeIn, walk
  <2>3. t \in Writers /\ arg[t] \in Arg /\ arg' = [arg EXCEPT ![t] = arg[t]] /\ l \in Places
    BY <2>2, TypesNow, Kinds DEF Places
  <2>4. AdminAt(t, l, arg[t])
    BY <1>5, <2>1, TypesNow DEF AdminAt, Adding
  <2>5. PhaseInv' /\ pc' \in [Writers -> Places] /\ arg' \in [Writers -> Arg]
    BY <2>1, <2>2, <2>3, <2>4, PhaseMove, TypesNow, Kinds
  <2>6. groups' \in [Gids -> Names \cup {NoName}] /\ edges' \in SUBSET Edge /\ moved' \in SUBSET Walkers
    BY <1>5, TypesNow DEF DeleteRow, PurgeOut, PurgeIn, SetEdges, walk
  <2>7. GroupsTypeOK'
    BY <2>2, <2>5, <2>6, TypesNow, TypeFrame
  <2> QED BY <2>5, <2>7 DEF GroupsInv
<1> QED BY <1>1, <1>2, <1>3, <1>4, <1>5 DEF AdminNext

LEMMA SyncTypes ==
  ASSUME GroupsInv, NEW t \in Syncs, SyncNext(t)
  PROVE  GroupsInv'
<1>1. /\ UNCHANGED <<traffic, groups, edges, seq, saved, frontier, below, ops, wpc, stack, acc, moved, crashes>>
      /\ t \in Writers /\ t \notin Admins
  BY Kinds DEF SyncNext, Sync, NextName, Find, Parents, Revoke, tables, walk
<1>2. SyncAt(t, pc[t], arg[t], todo[t]) /\ arg[t] \in Arg /\ SyncUser[t] \in Members /\ SyncUser[t] \in Users
  BY TypesNow, GroupsAssumption, Kinds
<1>3. PICK l \in Places, a \in Arg, d \in SUBSET (Claimable \cup Gids) :
         /\ pc' = [pc EXCEPT ![t] = l] /\ arg' = [arg EXCEPT ![t] = a] /\ todo' = [todo EXCEPT ![t] = d]
         /\ SyncAt(t, l, a, d) /\ (t \in traffic \/ pc[t] # "idle")
         /\ claim' \in [Syncs -> SUBSET Claimable]
  <2>1. CASE Sync(t)
    <3>1. PICK c \in SUBSET Claimable :
             claim' = [claim EXCEPT ![t] = c] /\ todo' = [todo EXCEPT ![t] = c]
      BY <2>1 DEF Sync
    <3>2. /\ pc' = [pc EXCEPT ![t] = "next"] /\ arg' = [arg EXCEPT ![t] = arg[t]] /\ t \in traffic
          /\ "next" \in Places
      BY <1>1, <2>1, TypesNow DEF Sync, Goto, Places
    <3>3. SyncAt(t, "next", arg[t], c)
      BY DEF SyncAt, Joining
    <3>4. claim' \in [Syncs -> SUBSET Claimable] /\ c \in SUBSET (Claimable \cup Gids)
      BY <3>1, TypesNow
    <3> QED BY <1>2, <3>1, <3>2, <3>3, <3>4
  <2>2. CASE NextName(t)
    <3>1. CASE todo[t] = {} /\ Goto(t, "parents") /\ UNCHANGED <<todo, arg>>
      <4>1. SyncAt(t, "parents", arg[t], todo[t])
        BY DEF SyncAt, Joining
      <4>2. arg' = [arg EXCEPT ![t] = arg[t]] /\ todo' = [todo EXCEPT ![t] = todo[t]] /\ "parents" \in Places
        BY <1>1, <3>1, TypesNow DEF Places
      <4> QED BY <1>2, <2>2, <3>1, <4>1, <4>2, TypesNow DEF Goto, NextName
    <3>2. CASE \E n \in todo[t] :
             /\ todo' = [todo EXCEPT ![t] = @ \ {n}]
             /\ With(t, 0, SyncUser[t], n) /\ Goto(t, "find")
      <4>1. PICK n \in todo[t] :
             /\ todo' = [todo EXCEPT ![t] = @ \ {n}]
             /\ With(t, 0, SyncUser[t], n) /\ Goto(t, "find")
        BY <3>2
      <4> DEFINE a == [g |-> 0, m |-> SyncUser[t], n |-> n]
                 d == todo[t] \ {n}
      <4>2. pc[t] = "next" /\ todo[t] \subseteq Claimable
        BY <1>2, <2>2 DEF NextName, SyncAt, Joining
      <4>3. a \in Arg /\ d \in SUBSET (Claimable \cup Gids)
        BY <1>2, <4>2, Kinds DEF Arg
      <4>4. SyncAt(t, "find", a, d) /\ "find" \in Places
        BY <4>2 DEF SyncAt, Joining, Places
      <4>5. /\ arg' = [arg EXCEPT ![t] = a] /\ todo' = [todo EXCEPT ![t] = d]
            /\ pc' = [pc EXCEPT ![t] = "find"] /\ UNCHANGED claim
        BY <2>2, <4>1 DEF With, Goto, NextName
      <4> HIDE DEF a, d
      <4> QED BY <4>2, <4>3, <4>4, <4>5, TypesNow
    <3> QED BY <2>2, <3>1, <3>2 DEF NextName
  <2>3. CASE Find(t)
    <3>1. pc[t] \in {"find", "refind"} /\ UNCHANGED <<claim, todo>> /\ todo' = [todo EXCEPT ![t] = todo[t]]
      BY <1>1, <2>3, TypesNow DEF Find
    <3>2. CASE \E g \in IdOf(arg[t].n) : arg' = [arg EXCEPT ![t].g = g] /\ Goto(t, "check_group")
      <4>1. PICK g \in Gids : arg' = [arg EXCEPT ![t].g = g] /\ Goto(t, "check_group")
        BY <3>2 DEF IdOf
      <4> DEFINE a == [arg[t] EXCEPT !.g = g]
      <4>2. a \in Arg /\ a.m = arg[t].m /\ a.n = arg[t].n /\ a.g = g /\ arg' = [arg EXCEPT ![t] = a]
        BY <1>1, <1>2, <4>1, TypesNow DEF Arg
      <4> HIDE DEF a
      <4>3. SyncAt(t, "check_group", a, todo[t]) /\ "check_group" \in Places
        BY <1>2, <3>1, <4>2 DEF SyncAt, Joining, Places
      <4> QED BY <1>1, <3>1, <4>1, <4>2, <4>3, TypesNow DEF Goto
    <3>3. CASE UNCHANGED arg /\ Goto(t, IF pc[t] = "find" THEN "check_name" ELSE "failed")
      <4>1. PICK l \in {"check_name", "failed"} : pc' = [pc EXCEPT ![t] = l]
        BY <3>3 DEF Goto
      <4>2. SyncAt(t, l, arg[t], todo[t]) /\ l \in Places
        BY <1>2, <3>1, <4>1 DEF SyncAt, Joining, Places
      <4>3. arg' = [arg EXCEPT ![t] = arg[t]]
        BY <1>1, <3>3, TypesNow
      <4> QED BY <1>1, <1>2, <3>1, <4>1, <4>2, <4>3, TypesNow
    <3> QED BY <2>3, <3>2, <3>3 DEF Find
  <2>4. CASE Parents(t)
    <3> DEFINE a == [g |-> 0, m |-> SyncUser[t], n |-> NoName]
               d == Above(SyncUser[t])
    <3>1. /\ pc[t] = "parents" /\ pc' = [pc EXCEPT ![t] = "revoke"] /\ arg' = [arg EXCEPT ![t] = a]
          /\ todo' = [todo EXCEPT ![t] = d] /\ UNCHANGED claim
      BY <2>4 DEF Parents, Goto, With
    <3>2. a \in Arg /\ d \subseteq Gids
      BY <1>2 DEF Arg, Above
    <3>3. SyncAt(t, "revoke", a, d) /\ "revoke" \in Places
      BY <3>2 DEF SyncAt, Joining, Places
    <3> HIDE DEF a, d
    <3>4. d \in SUBSET (Claimable \cup Gids)
      BY <3>2
    <3> QED BY <3>1, <3>2, <3>3, <3>4, TypesNow
  <2>5. CASE Revoke(t)
    <3>1. pc[t] = "revoke" /\ UNCHANGED claim /\ todo[t] \subseteq Gids /\ arg[t].n = NoName /\ arg[t].m = SyncUser[t]
      BY <1>2, <2>5 DEF Revoke, SyncAt
    <3>2. CASE todo[t] = {} /\ Goto(t, "done") /\ UNCHANGED <<todo, arg>>
      <4>1. SyncAt(t, "done", arg[t], todo[t])
        BY DEF SyncAt, Joining
      <4>2. arg' = [arg EXCEPT ![t] = arg[t]] /\ todo' = [todo EXCEPT ![t] = todo[t]] /\ "done" \in Places
        BY <1>1, <3>2, TypesNow DEF Places
      <4> QED BY <1>2, <3>1, <3>2, <4>1, <4>2, TypesNow DEF Goto
    <3>3. ASSUME NEW g \in todo[t], todo' = [todo EXCEPT ![t] = @ \ {g}], arg' = [arg EXCEPT ![t].g = g],
                 Goto(t, IF ~Exists(g) THEN "failed"
                         ELSE IF Unclaimed(t, g) THEN "delete_edge" ELSE "revoke")
          PROVE  \E l \in Places, a \in Arg, d \in SUBSET (Claimable \cup Gids) :
                    /\ pc' = [pc EXCEPT ![t] = l] /\ arg' = [arg EXCEPT ![t] = a] /\ todo' = [todo EXCEPT ![t] = d]
                    /\ SyncAt(t, l, a, d) /\ (t \in traffic \/ pc[t] # "idle")
                    /\ claim' \in [Syncs -> SUBSET Claimable]
      <4> DEFINE a == [arg[t] EXCEPT !.g = g]
                 d == todo[t] \ {g}
      <4>1. g \in Gids /\ d \subseteq Gids
        BY <3>1
      <4>2. a \in Arg /\ a.m = arg[t].m /\ a.n = arg[t].n /\ a.g = g /\ arg' = [arg EXCEPT ![t] = a]
        BY <1>1, <1>2, <3>3, <4>1, TypesNow DEF Arg
      <4>3. todo' = [todo EXCEPT ![t] = d]
        BY <3>3
      <4> HIDE DEF a, d
      <4>4. PICK l \in {"failed", "delete_edge", "revoke"} : pc' = [pc EXCEPT ![t] = l]
        BY <3>3 DEF Goto
      <4>5. SyncAt(t, l, a, d) /\ l \in Places
        BY <3>1, <4>1, <4>2 DEF SyncAt, Joining, Places
      <4>6. d \in SUBSET (Claimable \cup Gids)
        BY <4>1
      <4> QED BY <3>1, <4>2, <4>3, <4>4, <4>5, <4>6, TypesNow
    <3> QED BY <2>5, <3>2, <3>3 DEF Revoke
  <2> QED BY <2>1, <2>2, <2>3, <2>4, <2>5 DEF SyncNext
<1>4. /\ todo' \in [Syncs -> SUBSET (Claimable \cup Gids)] /\ todo'[t] = d
      /\ \A s \in Syncs : s # t => todo'[s] = todo[s]
  BY <1>3, TypesNow
<1>5. PhaseInv' /\ pc' \in [Writers -> Places] /\ arg' \in [Writers -> Arg]
  BY <1>1, <1>3, <1>4, PhaseMove
<1>6. GroupsTypeOK'
  BY <1>1, <1>3, <1>4, <1>5, TypesNow, TypeFrame
<1> QED BY <1>5, <1>6 DEF GroupsInv

\* The statements of the store, which admins and sign-ins share.
LEMMA StoreTypes ==
  ASSUME GroupsInv, NEW t \in Writers, StoreNext(t)
  PROVE  GroupsInv'
<1>1. /\ UNCHANGED <<traffic, claim, todo, ops, wpc, stack, acc, crashes>>
      /\ todo' = todo /\ arg[t] \in Arg
  BY TypesNow DEF StoreNext, Commit, CheckName, InsertGroup, CommitGroup, CheckGroup, CheckMember,
        Descend, CheckEdge, InsertEdge, DeleteEdge, tables, walk
<1>2. /\ t \in Admins => AdminAt(t, pc[t], arg[t]) /\ t \notin Syncs
      /\ t \in Syncs => SyncAt(t, pc[t], arg[t], todo[t]) /\ t \notin Admins /\ SyncUser[t] \in Users
      /\ t \in Admins \/ t \in Syncs
  BY TypesNow, Kinds, GroupsAssumption
<1>3. PICK l \in Places, a \in Arg :
         /\ pc' = [pc EXCEPT ![t] = l] /\ arg' = [arg EXCEPT ![t] = a] /\ pc[t] # "idle"
         /\ t \in Admins => AdminAt(t, l, a)
         /\ t \in Syncs => SyncAt(t, l, a, todo[t])
  <2>1. CASE InsertGroup(t)
    <3>1. CASE NameTaken(t) /\ UNCHANGED arg
      <4>1. PICK l \in {"idle", "refind"} : pc' = [pc EXCEPT ![t] = l] /\ (t \in Admins => l = "idle")
        BY <3>1 DEF NameTaken, Goto
      <4>2. l \in Places /\ arg' = [arg EXCEPT ![t] = arg[t]]
        BY <3>1, TypesNow DEF Places
      <4> QED BY <1>1, <1>2, <2>1, <4>1, <4>2 DEF AdminAt, SyncAt, Joining, Adding, InsertGroup
    <3>2. CASE seq < MaxGroups /\ arg' = [arg EXCEPT ![t].g = seq + 1] /\ Goto(t, "commit_group")
      <4> DEFINE a == [arg[t] EXCEPT !.g = seq + 1]
      <4>1. seq + 1 \in Gids
        BY <3>2, TypesNow, GidFacts
      <4>2. a \in Arg /\ a.m = arg[t].m /\ a.n = arg[t].n /\ a.g \in Gids /\ arg' = [arg EXCEPT ![t] = a]
        BY <1>1, <3>2, <4>1, TypesNow DEF Arg
      <4>3. "commit_group" \in Places
        BY DEF Places
      <4> HIDE DEF a
      <4>4. /\ t \in Admins => AdminAt(t, "commit_group", a)
            /\ t \in Syncs => SyncAt(t, "commit_group", a, todo[t])
        BY <1>2, <2>1, <4>2 DEF InsertGroup, AdminAt, SyncAt, Joining, Adding
      <4> QED BY <2>1, <3>2, <4>2, <4>3, <4>4 DEF Goto, InsertGroup
    <3> QED BY <2>1, <3>1, <3>2 DEF InsertGroup
  <2>2. ASSUME UNCHANGED arg, NEW l \in Places, pc' = [pc EXCEPT ![t] = l], pc[t] # "idle",
               t \in Admins => AdminAt(t, l, arg[t]),
               t \in Syncs => SyncAt(t, l, arg[t], todo[t])
        PROVE  \E q \in Places, a \in Arg :
                 /\ pc' = [pc EXCEPT ![t] = q] /\ arg' = [arg EXCEPT ![t] = a] /\ pc[t] # "idle"
                 /\ t \in Admins => AdminAt(t, q, a)
                 /\ t \in Syncs => SyncAt(t, q, a, todo[t])
    <3>1. arg' = [arg EXCEPT ![t] = arg[t]]
      BY <2>2, TypesNow
    <3> QED BY <1>1, <2>2, <3>1
  <2>3. CASE Commit(t)
    <3>1. PICK l \in {"idle", "revoke", "next"} :
             /\ pc' = [pc EXCEPT ![t] = l] /\ pc[t] = "commit" /\ UNCHANGED arg
             /\ t \in Admins => l = "idle"
             /\ t \in Syncs => l = IF arg[t].n = NoName THEN "revoke" ELSE "next"
      BY <1>2, <2>3 DEF Commit, Goto, After
    <3>2. /\ t \in Admins => AdminAt(t, l, arg[t]) /\ l \in Places
          /\ t \in Syncs => SyncAt(t, l, arg[t], todo[t]) /\ l \in Places
      BY <1>2, <3>1, Kinds DEF AdminAt, SyncAt, Joining, Adding, Places
    <3> QED BY <1>2, <2>2, <3>1, <3>2
  <2>4. CASE CheckName(t)
    <3>1. PICK l \in {"idle", "refind", "insert_group"} :
             /\ pc' = [pc EXCEPT ![t] = l] /\ pc[t] = "check_name" /\ UNCHANGED arg
             /\ t \in Admins => l # "refind"
             /\ t \in Syncs => l # "idle"
      BY <1>2, <2>4 DEF CheckName, NameTaken, Goto
    <3>2. /\ l \in Places
          /\ t \in Admins => AdminAt(t, l, arg[t])
          /\ t \in Syncs => SyncAt(t, l, arg[t], todo[t])
      BY <1>2, <3>1 DEF AdminAt, SyncAt, Joining, Adding, Places
    <3> QED BY <2>2, <3>1, <3>2
  <2>5. CASE CommitGroup(t)
    <3>1. PICK l \in {"idle", "check_group"} :
             /\ pc' = [pc EXCEPT ![t] = l] /\ pc[t] = "commit_group" /\ UNCHANGED arg
             /\ t \in Admins => l = "idle"
             /\ t \in Syncs => l = "check_group"
      BY <1>2, <2>5 DEF CommitGroup, Goto
    <3>2. /\ l \in Places
          /\ t \in Admins => AdminAt(t, l, arg[t])
          /\ t \in Syncs => SyncAt(t, l, arg[t], todo[t])
      BY <1>2, <3>1 DEF AdminAt, SyncAt, Joining, Adding, Places
    <3> QED BY <2>2, <3>1, <3>2
  <2>6. CASE CheckGroup(t)
    <3>1. PICK l \in {"idle", "failed", "check_member"} :
             /\ pc' = [pc EXCEPT ![t] = l] /\ pc[t] = "check_group" /\ UNCHANGED arg
             /\ t \in Admins => l # "failed"
             /\ t \in Syncs => l # "idle"
             /\ l = "check_member" => arg[t].g \in Gids
      BY <1>2, <2>6 DEF CheckGroup, Goto, Raised, Exists
    <3>2. /\ l \in Places
          /\ t \in Admins => AdminAt(t, l, arg[t])
          /\ t \in Syncs => SyncAt(t, l, arg[t], todo[t])
      BY <1>2, <3>1 DEF AdminAt, SyncAt, Joining, Adding, Places
    <3> QED BY <2>2, <3>1, <3>2
  <2>7. CASE CheckMember(t)
    <3>1. pc[t] = "check_member" /\ UNCHANGED arg
      BY <2>7 DEF CheckMember
    <3>2. PICK l \in {"idle", "failed", "check_edge", "refused", "descend"} :
             /\ pc' = [pc EXCEPT ![t] = l]
             /\ t \in Admins => l # "failed"
             /\ arg[t].m \in Users => l = "check_edge"
             /\ l \in {"refused", "descend"} => arg[t].m \in Gids
      BY <1>2, <2>7, GidFacts DEF CheckMember, Goto, Raised, Exists
    <3>3. /\ l \in Places
          /\ t \in Admins => AdminAt(t, l, arg[t])
          /\ t \in Syncs => SyncAt(t, l, arg[t], todo[t])
      BY <1>2, <3>1, <3>2 DEF AdminAt, SyncAt, Joining, Adding, Places
    <3> QED BY <2>2, <3>1, <3>2, <3>3
  <2>8. CASE Descend(t)
    <3>1. PICK l \in {"descend", "refused", "check_edge"} :
             pc' = [pc EXCEPT ![t] = l] /\ pc[t] = "descend" /\ UNCHANGED arg
      BY <2>8 DEF Descend, Goto
    <3>2. /\ l \in Places /\ t \notin Syncs
          /\ t \in Admins => AdminAt(t, l, arg[t])
      BY <1>2, <3>1 DEF AdminAt, SyncAt, Joining, Adding, Places
    <3> QED BY <2>2, <3>1, <3>2
  <2>9. CASE CheckEdge(t) \/ InsertEdge(t) \/ DeleteEdge(t)
    <3>1. PICK l \in {"idle", "revoke", "next", "insert_edge", "commit"} :
             /\ pc' = [pc EXCEPT ![t] = l] /\ UNCHANGED arg
             /\ pc[t] \in {"check_edge", "insert_edge", "delete_edge"}
             /\ l = "insert_edge" => pc[t] = "check_edge"
             /\ t \in Admins => l \notin {"revoke", "next"}
             /\ t \in Syncs => /\ l # "idle" /\ (l = "revoke" => arg[t].n = NoName)
                               /\ l = "next" => arg[t].n # NoName
      BY <1>2, <2>9 DEF CheckEdge, InsertEdge, DeleteEdge, Goto, After
    <3>2. /\ l \in Places
          /\ t \in Admins => AdminAt(t, l, arg[t])
          /\ t \in Syncs => SyncAt(t, l, arg[t], todo[t])
      BY <1>2, <3>1, Kinds DEF AdminAt, SyncAt, Joining, Adding, Places
    <3> QED BY <2>2, <3>1, <3>2
  <2> QED BY <2>1, <2>3, <2>4, <2>5, <2>6, <2>7, <2>8, <2>9 DEF StoreNext
<1>4. PhaseInv' /\ pc' \in [Writers -> Places] /\ arg' \in [Writers -> Arg]
  BY <1>1, <1>3, PhaseMove, TypesNow
<1>5. edges' \in SUBSET Edge /\ moved' \in SUBSET Walkers
  <2>1. CASE InsertEdge(t)
    <3>1. <<arg[t].g, arg[t].m>> \in Edge
      BY <1>2, <2>1, Kinds DEF InsertEdge, Edge, AdminAt, SyncAt, Adding, Joining
    <3> QED BY <2>1, <3>1, TypesNow DEF InsertEdge, SetEdges
  <2>2. CASE ~InsertEdge(t)
    <3>1. edges' \subseteq edges /\ moved' \in {moved, Walkers}
      BY <2>2 DEF StoreNext, Commit, CheckName, InsertGroup, CommitGroup, CheckGroup, CheckMember,
          Descend, CheckEdge, DeleteEdge, SetEdges, tables, walk
    <3> QED BY <3>1, TypesNow
  <2> QED BY <2>1, <2>2
<1>6. groups' \in [Gids -> Names \cup {NoName}] /\ seq' \in 0..MaxGroups
  <2>1. CASE InsertGroup(t)
    <3>1. arg[t].n \in Names \cup {NoName}
      BY <1>1 DEF Arg
    <3>2. CASE seq < MaxGroups /\ seq' = seq + 1 /\ groups' = [groups EXCEPT ![seq + 1] = arg[t].n]
      BY <3>1, <3>2, TypesNow, GidFacts
    <3> QED BY <2>1, <3>2, TypesNow DEF InsertGroup
  <2>2. CASE ~InsertGroup(t)
    BY <2>2, TypesNow DEF StoreNext, Commit, CheckName, CommitGroup, CheckGroup, CheckMember,
        Descend, CheckEdge, InsertEdge, DeleteEdge, tables
  <2> QED BY <2>1, <2>2
<1>7. saved' = saved \/ saved' = [groups |-> groups, edges |-> edges, seq |-> seq]
  BY DEF StoreNext, Commit, CheckName, InsertGroup, CommitGroup, CheckGroup, CheckMember,
        Descend, CheckEdge, InsertEdge, DeleteEdge, tables
<1>8. frontier' \in [Writers -> SUBSET Gids] /\ below' \in [Writers -> SUBSET Gids]
  <2>1. CASE CheckMember(t)
    BY <2>1, TypesNow DEF CheckMember
  <2>2. CASE Descend(t)
    <3>1. PICK g \in frontier[t] :
            /\ below' = [below EXCEPT ![t] = @ \cup (Children(g) \ below[t])]
            /\ frontier' = [frontier EXCEPT ![t] = (@ \ {g}) \cup (Children(g) \ below[t])]
      BY <2>2 DEF Descend
    <3>2. Children(g) \subseteq Gids
      BY DEF Children
    <3> QED BY <3>1, <3>2, TypesNow
  <2>3. CASE ~CheckMember(t) /\ ~Descend(t)
    BY <2>3, TypesNow DEF StoreNext, Commit, CheckName, InsertGroup, CommitGroup, CheckGroup,
        CheckEdge, InsertEdge, DeleteEdge
  <2> QED BY <2>1, <2>2, <2>3
<1>9. GroupsTypeOK'
  BY <1>1, <1>4, <1>5, <1>6, <1>7, <1>8, TypesNow, TypeFrame
<1> QED BY <1>4, <1>9 DEF GroupsInv

LEMMA GroupsNextTypes ==
  ASSUME GroupsInv, GroupsNext
  PROVE  GroupsInv'
BY AdminTypes, SyncTypes, StoreTypes DEF GroupsNext

LEMMA CrashTypes ==
  ASSUME GroupsInv, GroupsCrash, UNCHANGED traffic, crashes' \in 0..MaxCrashes
  PROVE  GroupsInv'
<1>1. pc' \in [Writers -> Places]
  BY TypesNow DEF GroupsCrash, Stopped, Raised, Places
<1>2. GroupsTypeOK'
  BY <1>1, TypesNow DEF GroupsCrash, GroupsTypeOK
<1>3. \A t \in Admins : pc'[t] \in {"idle", "refused"} /\ (pc'[t] = "refused" => pc[t] = "refused")
  BY TypesNow, Kinds DEF GroupsCrash, Stopped, Raised, AdminAt
<1>4. \A t \in Syncs : pc'[t] \in {"idle", "done", "failed"}
  BY TypesNow, Kinds DEF GroupsCrash, Stopped, Raised, SyncAt
<1>5. \A t \in Writers : pc[t] = "idle" => pc'[t] = "idle"
  BY DEF GroupsCrash, Stopped
<1>6. \A t \in Admins : AdminAt(t, pc'[t], arg'[t])
  BY <1>3, TypesNow DEF AdminAt, Adding, GroupsCrash
<1>7. \A t \in Syncs : SyncAt(t, pc'[t], arg'[t], todo'[t])
  BY <1>4 DEF SyncAt, Joining
<1>8. PhaseInv'
  BY <1>5, <1>6, <1>7, TypesNow DEF PhaseInv
<1> QED BY <1>2, <1>8 DEF GroupsInv

(***************************************************************************)
(* The walk up the memberships.                                             *)
(***************************************************************************)
\* Replacing the first element of a sequence, pushing one on it, dropping it.
LEMMA TopOfStack ==
  ASSUME NEW S, NEW s \in Seq(S), s # <<>>, NEW f \in S, NEW e \in S
  PROVE  /\ Len(s) \in Nat \ {0} /\ Head(s) = s[1] /\ Head(s) \in S
         /\ LET r == <<f>> \o Tail(s) IN
               r \in Seq(S) /\ Len(r) = Len(s) /\ r[1] = f /\ \A i \in 2..Len(s) : r[i] = s[i]
         /\ LET r == <<e, f>> \o Tail(s) IN
               /\ r \in Seq(S) /\ Len(r) = Len(s) + 1 /\ r[1] = e /\ r[2] = f
               /\ \A i \in 2..Len(s) : r[i + 1] = s[i]
         /\ Tail(s) \in Seq(S) /\ Len(Tail(s)) = Len(s) - 1
         /\ \A i \in 1..(Len(s) - 1) : Tail(s)[i] = s[i + 1]
<1>1. Len(s) \in Nat \ {0} /\ Head(s) = s[1] /\ Head(s) \in S
  BY EmptySeq, LenProperties, HeadTailProperties
<1>2. Tail(s) \in Seq(S) /\ Len(Tail(s)) = Len(s) - 1 /\ \A i \in 1..(Len(s) - 1) : Tail(s)[i] = s[i + 1]
  BY HeadTailProperties
<1>3. <<f>> \in Seq(S) /\ <<e, f>> \in Seq(S) /\ Len(<<f>>) = 1 /\ Len(<<e, f>>) = 2
  OBVIOUS
<1>4. LET r == <<f>> \o Tail(s) IN
        r \in Seq(S) /\ Len(r) = Len(s) /\ r[1] = f /\ \A i \in 2..Len(s) : r[i] = s[i]
  BY <1>1, <1>2, <1>3, ConcatProperties
<1>5. LET r == <<e, f>> \o Tail(s) IN
        /\ r \in Seq(S) /\ Len(r) = Len(s) + 1 /\ r[1] = e /\ r[2] = f
        /\ \A i \in 2..Len(s) : r[i + 1] = s[i]
  BY <1>1, <1>2, <1>3, ConcatProperties
<1> QED BY <1>1, <1>2, <1>4, <1>5

\* GroupsOf is the least set of groups with the user's own that is closed
\* upwards.
LEMMA GroupsOfClosed ==
  ASSUME NEW u
  PROVE  /\ Above(u) \subseteq GroupsOf(u, edges)
         /\ \A g \in GroupsOf(u, edges) : Above(g) \subseteq GroupsOf(u, edges)
BY DEF GroupsOf, Above

LEMMA GroupsOfLeast ==
  ASSUME NEW u, NEW a \in SUBSET Gids, Above(u) \subseteq a, ClosedUnder(a)
  PROVE  GroupsOf(u, edges) \subseteq a
<1>1. \A h \in Gids : (<<h, u>> \in edges \/ \E x \in a : <<h, x>> \in edges) => h \in a
  BY DEF Above, ClosedUnder
<1> QED BY <1>1 DEF GroupsOf

LEMMA WalkBegins ==
  ASSUME NEW u \in Users
  PROVE  WalkShape(u, <<[at |-> u, read |-> FALSE, left |-> {}]>>, {})
BY DEF WalkShape

LEMMA WalkReads ==
  ASSUME NEW u, NEW s \in Seq(Frame), s # <<>>, NEW a, WalkShape(u, s, a), ~Head(s).read
  PROVE  LET f == [Head(s) EXCEPT !.read = TRUE, !.left = Above(Head(s).at)] IN
            f \in Frame /\ WalkShape(u, <<f>> \o Tail(s), a)
<1> DEFINE f == [Head(s) EXCEPT !.read = TRUE, !.left = Above(Head(s).at)]
           r == <<f>> \o Tail(s)
<1>1. Head(s) \in Frame /\ Len(s) \in Nat \ {0} /\ Head(s) = s[1]
  BY TopOfStack
<1>2. f \in Frame /\ f.at = s[1].at /\ f.left = Above(f.at)
  BY <1>1 DEF Frame, Above
<1>3. Len(r) = Len(s) /\ r[1] = f /\ \A i \in 2..Len(s) : r[i] = s[i]
  BY <1>2, TopOfStack
<1> HIDE DEF f, r
<1>4. \A i \in 1..Len(s) : r[i].at = s[i].at
  BY <1>1, <1>2, <1>3
<1>5. WalkShape(u, r, a)
  <2>1. Len(r) > 0 /\ r[Len(r)].at = u
    BY <1>1, <1>3, <1>4 DEF WalkShape
  <2>2. \A i \in 1..(Len(r) - 1) : r[i].at \in a /\ <<r[i].at, r[i + 1].at>> \in edges
    BY <1>1, <1>3, <1>4 DEF WalkShape
  <2>3. \A i \in 2..Len(r) : r[i].read
    BY <1>1, <1>3 DEF WalkShape
  <2>4. \A i \in 1..Len(r) : r[i].read =>
          r[i].left \subseteq Above(r[i].at) /\ Above(r[i].at) \subseteq a \cup r[i].left
    BY <1>1, <1>2, <1>3 DEF WalkShape
  <2>5. \A g \in a : Above(g) \subseteq a \/ \E i \in 1..Len(r) : r[i].at = g
    BY <1>3, <1>4 DEF WalkShape
  <2> QED BY <2>1, <2>2, <2>3, <2>4, <2>5 DEF WalkShape
<1> QED BY <1>2, <1>5 DEF f, r

\* A parent that was found before is skipped.
LEMMA WalkSkips ==
  ASSUME NEW u, NEW s \in Seq(Frame), s # <<>>, NEW a, WalkShape(u, s, a), Head(s).read,
         NEW g \in Head(s).left, g \in a
  PROVE  LET f == [Head(s) EXCEPT !.left = @ \ {g}] IN
            f \in Frame /\ WalkShape(u, <<f>> \o Tail(s), a)
<1> DEFINE f == [Head(s) EXCEPT !.left = @ \ {g}]
           r == <<f>> \o Tail(s)
<1>1. Head(s) \in Frame /\ Len(s) \in Nat \ {0} /\ Head(s) = s[1]
  BY TopOfStack
<1>2. f \in Frame /\ f.at = s[1].at /\ f.read = s[1].read /\ f.left = s[1].left \ {g}
  BY <1>1 DEF Frame
<1>3. Len(r) = Len(s) /\ r[1] = f /\ \A i \in 2..Len(s) : r[i] = s[i]
  BY <1>2, TopOfStack
<1> HIDE DEF f, r
<1>4. \A i \in 1..Len(s) : r[i].at = s[i].at
  BY <1>1, <1>2, <1>3
<1>5. WalkShape(u, r, a)
  <2>1. Len(r) > 0 /\ r[Len(r)].at = u
    BY <1>1, <1>3, <1>4 DEF WalkShape
  <2>2. \A i \in 1..(Len(r) - 1) : r[i].at \in a /\ <<r[i].at, r[i + 1].at>> \in edges
    BY <1>1, <1>3, <1>4 DEF WalkShape
  <2>3. \A i \in 2..Len(r) : r[i].read
    BY <1>1, <1>3 DEF WalkShape
  <2>4. \A i \in 1..Len(r) : r[i].read =>
          r[i].left \subseteq Above(r[i].at) /\ Above(r[i].at) \subseteq a \cup r[i].left
    <3>1. f.left \subseteq Above(f.at) /\ Above(f.at) \subseteq a \cup f.left
      BY <1>1, <1>2 DEF WalkShape
    <3> QED BY <1>1, <1>3, <3>1 DEF WalkShape
  <2>5. \A h \in a : Above(h) \subseteq a \/ \E i \in 1..Len(r) : r[i].at = h
    BY <1>3, <1>4 DEF WalkShape
  <2> QED BY <2>1, <2>2, <2>3, <2>4, <2>5 DEF WalkShape
<1> QED BY <1>2, <1>5 DEF f, r

\* Any other is pushed and walked in turn.
LEMMA WalkPushes ==
  ASSUME NEW u, NEW s \in Seq(Frame), s # <<>>, NEW a, WalkShape(u, s, a), Head(s).read,
         NEW g \in Head(s).left
  PROVE  LET f == [Head(s) EXCEPT !.left = @ \ {g}]
             e == [at |-> g, read |-> FALSE, left |-> {}] IN
            e \in Frame /\ f \in Frame /\ WalkShape(u, <<e, f>> \o Tail(s), a \cup {g})
<1> DEFINE f == [Head(s) EXCEPT !.left = @ \ {g}]
           e == [at |-> g, read |-> FALSE, left |-> {}]
           r == <<e, f>> \o Tail(s)
           b == a \cup {g}
<1>1. Head(s) \in Frame /\ Len(s) \in Nat \ {0} /\ Head(s) = s[1] /\ g \in Above(s[1].at) /\ g \in Gids
  <2>1. Head(s) \in Frame /\ Len(s) \in Nat \ {0} /\ Head(s) = s[1]
    BY TopOfStack
  <2>2. g \in Above(s[1].at)
    BY <2>1 DEF WalkShape
  <2> QED BY <2>1, <2>2 DEF Above
<1>2. /\ f \in Frame /\ f.at = s[1].at /\ f.read = s[1].read /\ f.left = s[1].left \ {g}
      /\ e \in Frame /\ e.at = g /\ ~e.read
  BY <1>1, Kinds DEF Frame
<1>3. Len(r) = Len(s) + 1 /\ r[1] = e /\ r[2] = f /\ \A i \in 2..Len(s) : r[i + 1] = s[i]
  BY <1>2, TopOfStack
<1> HIDE DEF f, e, r, b
<1>4. \A i \in 1..Len(s) : r[i + 1].at = s[i].at /\ r[i + 1].read = s[i].read
  BY <1>1, <1>2, <1>3
<1>5. \A i \in 2..Len(r) : i - 1 \in 1..Len(s) /\ (i - 1) + 1 = i
  BY <1>1, <1>3
<1>6. WalkShape(u, r, b)
  <2>1. Len(r) > 0 /\ r[Len(r)].at = u
    BY <1>1, <1>3, <1>4 DEF WalkShape
  <2>2. \A i \in 1..(Len(r) - 1) : r[i].at \in b /\ <<r[i].at, r[i + 1].at>> \in edges
    <3> SUFFICES ASSUME NEW i \in 1..(Len(r) - 1)
                 PROVE  r[i].at \in b /\ <<r[i].at, r[i + 1].at>> \in edges
      OBVIOUS
    <3>1. CASE i = 1
      <4>1. <<g, s[1].at>> \in edges
        BY <1>1 DEF Above
      <4> QED BY <1>1, <1>2, <1>3, <3>1, <4>1 DEF b
    <3>2. CASE i # 1
      <4>1. i - 1 \in 1..(Len(s) - 1) /\ i - 1 \in 1..Len(s) /\ (i - 1) + 1 = i /\ i \in 1..Len(s)
        BY <1>1, <1>3, <3>2
      <4>2. s[i - 1].at \in a /\ <<s[i - 1].at, s[i].at>> \in edges
        BY <4>1 DEF WalkShape
      <4>3. r[i].at = s[i - 1].at /\ r[i + 1].at = s[i].at
        BY <1>1, <1>4, <4>1
      <4> QED BY <4>2, <4>3 DEF b
    <3> QED BY <3>1, <3>2
  <2>3. \A i \in 2..Len(r) : r[i].read
    <3> SUFFICES ASSUME NEW i \in 2..Len(r) PROVE r[i].read
      OBVIOUS
    <3>1. CASE i = 2
      BY <1>1, <1>2, <1>3, <3>1
    <3>2. CASE i # 2
      <4>1. i - 1 \in 2..Len(s) /\ (i - 1) + 1 = i
        BY <1>1, <1>3, <3>2
      <4>2. r[i] = s[i - 1] /\ s[i - 1].read
        BY <1>3, <4>1 DEF WalkShape
      <4> QED BY <4>2
    <3> QED BY <3>1, <3>2
  <2>4. \A i \in 1..Len(r) : r[i].read =>
          r[i].left \subseteq Above(r[i].at) /\ Above(r[i].at) \subseteq b \cup r[i].left
    <3> SUFFICES ASSUME NEW i \in 1..Len(r), r[i].read
                 PROVE  r[i].left \subseteq Above(r[i].at) /\ Above(r[i].at) \subseteq b \cup r[i].left
      OBVIOUS
    <3>1. i # 1
      BY <1>2, <1>3
    <3>2. CASE i = 2
      <4>1. s[1].left \subseteq Above(s[1].at) /\ Above(s[1].at) \subseteq a \cup s[1].left
        BY <1>1 DEF WalkShape
      <4> QED BY <1>2, <1>3, <3>2, <4>1 DEF b
    <3>3. CASE i # 2
      <4>1. i - 1 \in 2..Len(s) /\ i - 1 \in 1..Len(s) /\ (i - 1) + 1 = i
        BY <1>1, <1>3, <3>1, <3>3
      <4>2. r[i] = s[i - 1]
        BY <1>3, <4>1
      <4>3. s[i - 1].left \subseteq Above(s[i - 1].at) /\ Above(s[i - 1].at) \subseteq a \cup s[i - 1].left
        BY <4>1 DEF WalkShape
      <4> QED BY <4>2, <4>3 DEF b
    <3> QED BY <3>2, <3>3
  <2>5. \A h \in b : Above(h) \subseteq b \/ \E i \in 1..Len(r) : r[i].at = h
    <3> SUFFICES ASSUME NEW h \in b, ~(Above(h) \subseteq b)
                 PROVE  \E i \in 1..Len(r) : r[i].at = h
      OBVIOUS
    <3>1. CASE h = g
      <4>1. 1 \in 1..Len(r)
        BY <1>1, <1>3
      <4> QED BY <1>2, <1>3, <3>1, <4>1
    <3>2. CASE h # g
      <4>1. h \in a /\ ~(Above(h) \subseteq a)
        BY <3>2 DEF b
      <4>2. PICK i \in 1..Len(s) : s[i].at = h
        BY <4>1 DEF WalkShape
      <4>3. i + 1 \in 1..Len(r)
        BY <1>1, <1>3
      <4> QED BY <1>4, <4>2, <4>3
    <3> QED BY <3>1, <3>2
  <2> QED BY <2>1, <2>2, <2>3, <2>4, <2>5 DEF WalkShape
<1> QED BY <1>2, <1>6 DEF f, e, r, b

\* A frame with nothing left is dropped; with the last one the walk is over.
LEMMA WalkReturns ==
  ASSUME NEW u, NEW s \in Seq(Frame), s # <<>>, NEW a, WalkShape(u, s, a), Head(s).read, Head(s).left = {}
  PROVE  /\ Len(s) # 1 => Tail(s) # <<>> /\ WalkShape(u, Tail(s), a)
         /\ Len(s) = 1 => Above(u) \subseteq a /\ ClosedUnder(a)
<1> DEFINE r == Tail(s)
<1>1. Head(s) \in Frame /\ Len(s) \in Nat \ {0} /\ Head(s) = s[1]
  BY TopOfStack
<1>2. r \in Seq(Frame) /\ Len(r) = Len(s) - 1 /\ \A i \in 1..(Len(s) - 1) : r[i] = s[i + 1]
  BY <1>1, TopOfStack
<1>3. Above(s[1].at) \subseteq a
  BY <1>1 DEF WalkShape
<1> HIDE DEF r
<1>4. ASSUME Len(s) # 1 PROVE r # <<>> /\ WalkShape(u, r, a)
  <2>1. Len(r) > 0 /\ r[Len(r)].at = u /\ r # <<>>
    BY <1>1, <1>2, <1>4 DEF WalkShape
  <2>2. \A i \in 1..(Len(r) - 1) : r[i].at \in a /\ <<r[i].at, r[i + 1].at>> \in edges
    <3> SUFFICES ASSUME NEW i \in 1..(Len(r) - 1)
                 PROVE  r[i].at \in a /\ <<r[i].at, r[i + 1].at>> \in edges
      OBVIOUS
    <3>1. i + 1 \in 1..(Len(s) - 1) /\ i \in 1..(Len(s) - 1)
      BY <1>1, <1>2
    <3>2. s[i + 1].at \in a /\ <<s[i + 1].at, s[(i + 1) + 1].at>> \in edges
      BY <3>1 DEF WalkShape
    <3> QED BY <1>2, <3>1, <3>2
  <2>3. \A i \in 2..Len(r) : r[i].read
    BY <1>1, <1>2 DEF WalkShape
  <2>4. \A i \in 1..Len(r) : r[i].read =>
          r[i].left \subseteq Above(r[i].at) /\ Above(r[i].at) \subseteq a \cup r[i].left
    BY <1>1, <1>2 DEF WalkShape
  <2>5. \A g \in a : Above(g) \subseteq a \/ \E i \in 1..Len(r) : r[i].at = g
    <3> SUFFICES ASSUME NEW g \in a, ~(Above(g) \subseteq a)
                 PROVE  \E i \in 1..Len(r) : r[i].at = g
      OBVIOUS
    <3>1. PICK i \in 1..Len(s) : s[i].at = g
      BY DEF WalkShape
    <3>2. i # 1
      BY <1>3, <3>1
    <3>3. i - 1 \in 1..Len(r) /\ (i - 1) + 1 = i
      BY <1>1, <1>2, <3>2
    <3> QED BY <1>2, <3>1, <3>3
  <2> QED BY <2>1, <2>2, <2>3, <2>4, <2>5 DEF WalkShape
<1>5. ASSUME Len(s) = 1 PROVE Above(u) \subseteq a /\ ClosedUnder(a)
  <2>1. s[1].at = u /\ \A i \in 1..Len(s) : i = 1
    BY <1>5 DEF WalkShape
  <2> QED BY <1>3, <2>1 DEF WalkShape, ClosedUnder
<1> QED BY <1>4, <1>5 DEF r

\* A parent that is on the path closes a cycle: the frames from the top down
\* to its own.
LEMMA WalkFindsCycle ==
  ASSUME NEW u \in Users, NEW s \in Seq(Frame), s # <<>>, NEW a \in SUBSET Gids, WalkShape(u, s, a),
         Head(s).read, NEW g \in Head(s).left, NEW j \in 1..Len(s), s[j].at = g
  PROVE  HasCycle(edges) /\ g \in a
<1>1. Head(s) \in Frame /\ Len(s) \in Nat \ {0} /\ Head(s) = s[1]
  BY TopOfStack
<1>2. g \in Gids /\ <<g, s[1].at>> \in edges
  BY <1>1 DEF WalkShape, Frame, Above
<1>3. j # Len(s)
  BY <1>2, GidFacts DEF WalkShape
<1>4. j \in 1..(Len(s) - 1)
  BY <1>1, <1>3
<1> DEFINE X == {s[i].at : i \in 1..j}
<1>5. X \in SUBSET Gids /\ g \in X
  <2>1. \A i \in 1..j : i \in 1..(Len(s) - 1)
    BY <1>1, <1>4
  <2>2. \A i \in 1..j : s[i].at \in Gids
    BY <2>1 DEF WalkShape
  <2> QED BY <1>4, <2>2
<1>6. ASSUME NEW x \in X PROVE \E h \in X : <<h, x>> \in edges
  <2>1. PICK i \in 1..j : x = s[i].at
    OBVIOUS
  <2>2. CASE i = 1
    BY <1>2, <1>5, <2>1, <2>2
  <2>3. CASE i # 1
    <3>1. i - 1 \in 1..j /\ i - 1 \in 1..(Len(s) - 1) /\ (i - 1) + 1 = i
      BY <1>1, <1>4, <2>3
    <3>2. <<s[i - 1].at, s[i].at>> \in edges /\ s[i - 1].at \in X
      BY <3>1 DEF WalkShape
    <3> QED BY <2>1, <3>2
  <2> QED BY <2>2, <2>3
<1>7. HasCycle(edges)
  BY <1>5, <1>6 DEF HasCycle
<1> QED BY <1>4, <1>7 DEF WalkShape

\* The variables of a walk, apart from those of the others.
LEMMA WalkFrame ==
  ASSUME GroupsInv, NEW w \in Walkers,
         UNCHANGED <<traffic, tables, writer, crashes>>,
         NEW p \in {"walk", "resolved", "cycle"}, wpc' = [wpc EXCEPT ![w] = p],
         NEW s \in Seq(Frame), stack' = [stack EXCEPT ![w] = s],
         NEW a \in SUBSET Gids, acc' = [acc EXCEPT ![w] = a],
         p = "walk" => s # <<>>, moved' \in {moved, moved \ {w}}
  PROVE  /\ GroupsInv'
         /\ WalkInv /\ (w \notin moved' => WalkOk(WalkUser[w], p, s, a)) => WalkInv'
<1>1. GroupsInv'
  <2>1. GroupsTypeOK'
    BY DEF GroupsInv, GroupsTypeOK, tables, writer
  <2>2. PhaseInv'
    BY DEF GroupsInv, PhaseInv, writer
  <2> QED BY <2>1, <2>2 DEF GroupsInv
<1>2. ASSUME WalkInv, w \notin moved' => WalkOk(WalkUser[w], p, s, a)
      PROVE  WalkInv'
  <2>1. /\ wpc'[w] = p /\ stack'[w] = s /\ acc'[w] = a /\ edges' = edges
        /\ \A q \in Walkers : q # w => wpc'[q] = wpc[q] /\ stack'[q] = stack[q] /\ acc'[q] = acc[q]
    BY DEF GroupsInv, GroupsTypeOK, tables
  <2> SUFFICES ASSUME NEW q \in Walkers \ moved', wpc'[q] # "idle"
               PROVE  WalkOk(WalkUser[q], wpc[q], stack[q], acc[q])'
    BY DEF WalkInv
  <2>3. CASE q = w
    BY <1>2, <2>1, <2>3 DEF WalkOk, WalkShape, ClosedUnder, Above
  <2>4. CASE q # w
    BY <1>2, <2>1, <2>4 DEF WalkInv, WalkOk, WalkShape, ClosedUnder, Above
  <2> QED BY <2>3, <2>4
<1> QED BY <1>1, <1>2

LEMMA WalkStarts ==
  ASSUME GroupsInv, WalkInv, NEW w \in Walkers, WalkUser[w] # NoName, StartWalk(w),
         UNCHANGED <<traffic, tables, writer, crashes>>
  PROVE  GroupsInv' /\ WalkInv'
<1> DEFINE u == WalkUser[w]
           s == <<[at |-> u, read |-> FALSE, left |-> {}]>>
<1>1. u \in Users /\ [at |-> u, read |-> FALSE, left |-> {}] \in Frame
  BY GroupsAssumption, Kinds DEF Frame
<1>2. s \in Seq(Frame) /\ s # <<>>
  BY <1>1
<1>3. WalkOk(u, "walk", s, {})
  BY <1>1, WalkBegins DEF WalkOk
<1>4. /\ wpc' = [wpc EXCEPT ![w] = "walk"] /\ stack' = [stack EXCEPT ![w] = s]
      /\ acc' = [acc EXCEPT ![w] = {}] /\ moved' = moved \ {w}
  BY DEF StartWalk
<1> HIDE DEF s, u
<1> QED BY <1>2, <1>3, <1>4, WalkFrame DEF u

LEMMA WalkGoesOn ==
  ASSUME GroupsInv, WalkInv, NEW w \in Walkers, WalkStep(w),
         UNCHANGED <<traffic, tables, writer, crashes>>
  PROVE  GroupsInv' /\ WalkInv'
<1> DEFINE u == WalkUser[w]
           s == stack[w]
           a == acc[w]
<1>1. /\ wpc[w] = "walk" /\ s \in Seq(Frame) /\ s # <<>> /\ a \in SUBSET Gids /\ UNCHANGED moved
      /\ wpc \in [Walkers -> {"idle", "walk", "resolved", "cycle"}]
      /\ stack \in [Walkers -> Seq(Frame)] /\ acc \in [Walkers -> SUBSET Gids]
  BY DEF WalkStep, ReadParents, VisitParent, Return, GroupsInv, GroupsTypeOK
<1>2. w \notin moved => /\ u \in Users /\ a \subseteq GroupsOf(u, edges) /\ WalkShape(u, s, a)
  BY <1>1 DEF WalkInv, WalkOk
<1>3. Head(s) \in Frame /\ Head(s) = s[1] /\ Tail(s) \in Seq(Frame) /\ Len(s) \in Nat \ {0}
  BY <1>1, TopOfStack
<1>4. CASE ReadParents(w)
  <2> DEFINE f == [Head(s) EXCEPT !.read = TRUE, !.left = Above(Head(s).at)]
             r == <<f>> \o Tail(s)
  <2>1. ~Head(s).read /\ stack' = [stack EXCEPT ![w] = r] /\ UNCHANGED <<wpc, acc>>
    BY <1>4 DEF ReadParents, SetTop, Top
  <2>2. f \in Frame
    BY <1>3 DEF Frame, Above
  <2>3. r \in Seq(Frame) /\ r # <<>>
    BY <1>1, <2>2, TopOfStack
  <2>4. w \notin moved => WalkOk(u, "walk", r, a)
    <3> SUFFICES ASSUME w \notin moved PROVE WalkOk(u, "walk", r, a)
      OBVIOUS
    <3>1. WalkShape(u, r, a)
      <4> HIDE DEF s, u, a
      <4> QED BY <1>1, <1>2, <2>1, WalkReads
    <3> HIDE DEF f, r
    <3> QED BY <1>2, <3>1 DEF WalkOk
  <2>5. wpc' = [wpc EXCEPT ![w] = "walk"] /\ acc' = [acc EXCEPT ![w] = a]
    BY <1>1, <2>1
  <2> HIDE DEF r
  <2> QED BY <1>1, <2>1, <2>3, <2>4, <2>5, WalkFrame
<1>5. CASE VisitParent(w)
  <2>1. PICK g \in Head(s).left :
          LET rest == [Head(s) EXCEPT !.left = @ \ {g}] IN
          /\ wpc' = [wpc EXCEPT ![w] = IF g \in Path(w) THEN "cycle" ELSE "walk"]
          /\ \/ g \in a /\ stack' = [stack EXCEPT ![w] = <<rest>> \o Tail(@)] /\ UNCHANGED acc
             \/ /\ g \notin a
                /\ acc' = [acc EXCEPT ![w] = @ \cup {g}]
                /\ stack' = [stack EXCEPT ![w] =
                       <<[at |-> g, read |-> FALSE, left |-> {}], rest>> \o Tail(@)]
    BY <1>5 DEF VisitParent, SetTop, Top
  <2>2. Head(s).read
    BY <1>5 DEF VisitParent, Top
  <2> DEFINE f == [Head(s) EXCEPT !.left = @ \ {g}]
             e == [at |-> g, read |-> FALSE, left |-> {}]
             p == IF g \in Path(w) THEN "cycle" ELSE "walk"
  <2>3. g \in Gids /\ f \in Frame /\ e \in Frame
    BY <1>3, Kinds DEF Frame
  <2>4. w \notin moved /\ g \in Path(w) => HasCycle(edges) /\ g \in a
    <3> SUFFICES ASSUME w \notin moved, g \in Path(w) PROVE HasCycle(edges) /\ g \in a
      OBVIOUS
    <3>1. PICK j \in 1..Len(s) : s[j].at = g
      BY <1>1 DEF Path
    <3> QED BY <1>1, <1>2, <2>2, <3>1, WalkFindsCycle
  <2>5. CASE g \in a /\ stack' = [stack EXCEPT ![w] = <<f>> \o Tail(s)] /\ UNCHANGED acc
    <3> DEFINE r == <<f>> \o Tail(s)
    <3>1. r \in Seq(Frame) /\ r # <<>>
      BY <1>1, <2>3, TopOfStack
    <3>2. w \notin moved => WalkOk(u, p, r, a)
      <4> SUFFICES ASSUME w \notin moved PROVE WalkOk(u, p, r, a)
        OBVIOUS
      <4>1. WalkShape(u, r, a)
        <5> HIDE DEF s, u, a
        <5> QED BY <1>1, <1>2, <2>1, <2>2, <2>5, WalkSkips
      <4> HIDE DEF f, r
      <4> QED BY <1>2, <2>4, <4>1 DEF WalkOk
    <3>3. acc' = [acc EXCEPT ![w] = a] /\ p \in {"walk", "cycle"} /\ wpc' = [wpc EXCEPT ![w] = p]
      BY <1>1, <2>1, <2>5
    <3>4. stack' = [stack EXCEPT ![w] = r] /\ moved' \in {moved, moved \ {w}}
      BY <1>1, <2>5
    <3> HIDE DEF f, r, p
    <3>5. (w \notin moved' => WalkOk(u, p, r, a)) /\ p \in {"walk", "resolved", "cycle"}
      BY <1>1, <3>2, <3>3
    <3> HIDE DEF a
    <3> QED BY <1>1, <3>1, <3>3, <3>4, <3>5, WalkFrame
  <2>6. CASE /\ acc' = [acc EXCEPT ![w] = a \cup {g}]
             /\ stack' = [stack EXCEPT ![w] = <<e, f>> \o Tail(s)]
             /\ g \notin a
    <3> DEFINE r == <<e, f>> \o Tail(s)
               b == a \cup {g}
    <3>1. r \in Seq(Frame) /\ r # <<>> /\ b \in SUBSET Gids
      BY <1>1, <2>3, TopOfStack
    <3>2. w \notin moved => b \subseteq GroupsOf(u, edges)
      <4> SUFFICES ASSUME w \notin moved PROVE g \in GroupsOf(u, edges)
        BY <1>2
      <4>1. WalkShape(u, s, a) /\ a \subseteq GroupsOf(u, edges)
        BY <1>2
      <4>2. g \in Above(s[1].at)
        BY <1>3, <2>2, <4>1 DEF WalkShape
      <4>3. CASE Len(s) = 1
        <5>1. s[1].at = u
          BY <4>1, <4>3 DEF WalkShape
        <5> QED BY <4>2, <5>1, GroupsOfClosed
      <4>4. CASE Len(s) # 1
        <5>1. Len(s) \in Nat /\ Len(s) # 0 /\ Len(s) # 1
          BY <1>3, <4>4
        <5>2. \A n \in Nat : n # 0 /\ n # 1 => 1 \in 1..(n - 1)
          OBVIOUS
        <5>3. 1 \in 1..(Len(s) - 1)
          BY <5>1, <5>2
        <5>4. s[1].at \in a
          BY <4>1, <5>3 DEF WalkShape
        <5> QED BY <4>1, <4>2, <5>4, GroupsOfClosed
      <4> QED BY <4>3, <4>4
    <3>3. w \notin moved => WalkOk(u, p, r, b)
      <4> SUFFICES ASSUME w \notin moved PROVE WalkOk(u, p, r, b)
        OBVIOUS
      <4>1. p = "walk"
        BY <2>4, <2>6
      <4>2. WalkShape(u, r, b)
        <5> HIDE DEF s, u, a
        <5> QED BY <1>1, <1>2, <2>1, <2>2, WalkPushes
      <4> HIDE DEF r, b, p
      <4> QED BY <1>2, <3>2, <4>1, <4>2 DEF WalkOk
    <3>4. p \in {"walk", "cycle"} /\ wpc' = [wpc EXCEPT ![w] = p]
      BY <2>1
    <3>5. /\ stack' = [stack EXCEPT ![w] = r] /\ acc' = [acc EXCEPT ![w] = b]
          /\ moved' \in {moved, moved \ {w}}
      BY <1>1, <2>6
    <3> HIDE DEF e, f, r, b, p
    <3>6. (w \notin moved' => WalkOk(u, p, r, b)) /\ p \in {"walk", "resolved", "cycle"}
      BY <1>1, <3>3, <3>4
    <3> QED BY <1>1, <3>1, <3>4, <3>5, <3>6, WalkFrame
  <2>7. \/ g \in a /\ stack' = [stack EXCEPT ![w] = <<f>> \o Tail(s)] /\ UNCHANGED acc
        \/ /\ acc' = [acc EXCEPT ![w] = a \cup {g}]
           /\ stack' = [stack EXCEPT ![w] = <<e, f>> \o Tail(s)]
           /\ g \notin a
    BY <1>1, <2>1
  <2> QED BY <2>5, <2>6, <2>7
<1>6. CASE Return(w)
  <2> DEFINE p == IF Len(s) = 1 THEN "resolved" ELSE "walk"
             r == Tail(s)
  <2>1. /\ Head(s).read /\ Head(s).left = {} /\ UNCHANGED acc
        /\ stack' = [stack EXCEPT ![w] = r] /\ wpc' = [wpc EXCEPT ![w] = p]
    BY <1>6 DEF Return, Top
  <2>2. r \in Seq(Frame) /\ p \in {"walk", "resolved"} /\ acc' = [acc EXCEPT ![w] = a]
    BY <1>1, <1>3, <2>1
  <2>3. p = "walk" => r # <<>>
    <3>1. Len(r) = Len(s) - 1
      BY <1>1, <1>3, TopOfStack
    <3>2. ASSUME r = <<>> PROVE Len(s) = 1
      <4> HIDE DEF s, r
      <4>1. Len(r) = 0
        BY <3>2
      <4> QED BY <1>3, <3>1, <4>1
    <3> QED BY <3>2
  <2>4. w \notin moved => WalkOk(u, p, r, a)
    <3> SUFFICES ASSUME w \notin moved PROVE WalkOk(u, p, r, a)
      OBVIOUS
    <3>1. /\ Len(s) # 1 => WalkShape(u, r, a)
          /\ Len(s) = 1 => Above(u) \subseteq a /\ ClosedUnder(a)
      <4> HIDE DEF s, u, a
      <4> QED BY <1>1, <1>2, <2>1, WalkReturns
    <3> HIDE DEF r
    <3> QED BY <1>2, <3>1 DEF WalkOk
  <2>5. (w \notin moved' => WalkOk(u, p, r, a)) /\ p \in {"walk", "resolved", "cycle"}
    BY <1>1, <2>2, <2>4
  <2> HIDE DEF a, p, r
  <2> QED BY <1>1, <2>1, <2>2, <2>3, <2>5, WalkFrame
<1> QED BY <1>4, <1>5, <1>6 DEF WalkStep

\* Writers never touch a walk; one that changes a membership marks all walks.
LEMMA WritersMark ==
  ASSUME GroupsNext
  PROVE  /\ UNCHANGED <<wpc, stack, acc, crashes, traffic>>
         /\ (edges' = edges /\ moved' = moved) \/ moved' = Walkers
<1>1. ASSUME NEW t \in Admins, AdminNext(t)
      PROVE  /\ UNCHANGED <<wpc, stack, acc, crashes, traffic>>
             /\ (edges' = edges /\ moved' = moved) \/ moved' = Walkers
  BY <1>1 DEF AdminNext, CreateGroup, AddMember, RemoveMember, BeginOp, DeleteGroup, DeleteRow,
        PurgeOut, PurgeIn, SetEdges, walk, tables
<1>2. ASSUME NEW t \in Syncs, SyncNext(t)
      PROVE  UNCHANGED <<wpc, stack, acc, crashes, traffic, edges, moved>>
  BY <1>2 DEF SyncNext, Sync, NextName, Find, Parents, Revoke, walk, tables
<1>3. ASSUME NEW t \in Writers, StoreNext(t)
      PROVE  /\ UNCHANGED <<wpc, stack, acc, crashes, traffic>>
             /\ (edges' = edges /\ moved' = moved) \/ moved' = Walkers
  BY <1>3 DEF StoreNext, Commit, CheckName, InsertGroup, CommitGroup, CheckGroup, CheckMember,
        Descend, CheckEdge, InsertEdge, DeleteEdge, SetEdges, walk, tables
<1> QED BY <1>1, <1>2, <1>3 DEF GroupsNext

LEMMA WalkKept ==
  ASSUME WalkInv, UNCHANGED <<wpc, stack, acc>>, (edges' = edges /\ moved' = moved) \/ moved' = Walkers
  PROVE  WalkInv'
<1>1. CASE moved' = Walkers
  BY <1>1 DEF WalkInv
<1>2. CASE edges' = edges /\ moved' = moved
  <2> SUFFICES ASSUME NEW w \in Walkers \ moved, wpc[w] # "idle",
                      WalkOk(WalkUser[w], wpc[w], stack[w], acc[w])
               PROVE  WalkOk(WalkUser[w], wpc[w], stack[w], acc[w])'
    BY <1>2 DEF WalkInv
  <2>1. WalkShape(WalkUser[w], stack[w], acc[w]) => WalkShape(WalkUser[w], stack[w], acc[w])'
    BY <1>2 DEF WalkShape, Above
  <2>2. ClosedUnder(acc[w]) => ClosedUnder(acc[w])'
    BY <1>2 DEF ClosedUnder, Above
  <2> QED BY <1>2, <2>1, <2>2 DEF WalkOk, Above
<1> QED BY <1>1, <1>2

LEMMA WalkCrash ==
  ASSUME GroupsCrash
  PROVE  WalkInv'
BY DEF GroupsCrash, WalkInv

LEMMA WalkGives ==
  ASSUME GroupsInv, WalkInv
  PROVE  WalkIsClosure
<1> SUFFICES ASSUME NEW w \in Walkers \ moved
             PROVE  /\ wpc[w] = "cycle" => HasCycle(edges)
                    /\ wpc[w] = "resolved" => acc[w] = GroupsOf(WalkUser[w], edges)
  BY DEF WalkIsClosure
<1>1. acc[w] \in SUBSET Gids
  BY DEF GroupsInv, GroupsTypeOK
<1>2. wpc[w] = "cycle" => HasCycle(edges)
  BY DEF WalkInv, WalkOk
<1>3. ASSUME wpc[w] = "resolved" PROVE acc[w] = GroupsOf(WalkUser[w], edges)
  <2>1. /\ Above(WalkUser[w]) \subseteq acc[w] /\ ClosedUnder(acc[w])
        /\ acc[w] \subseteq GroupsOf(WalkUser[w], edges)
    BY <1>3 DEF WalkInv, WalkOk
  <2> QED BY <1>1, <2>1, GroupsOfLeast
<1> QED BY <1>2, <1>3

(***************************************************************************)
(* The hierarchy has no cycle while one admin edits at a time.              *)
(***************************************************************************)
\* More nestings have all the cycles of fewer.
LEMMA CycleMono ==
  ASSUME NEW d, NEW e, Nested(d) \subseteq Nested(e), HasCycle(d)
  PROVE  HasCycle(e)
<1>1. PICK X \in (SUBSET Gids) \ {{}} : \A g \in X : \E h \in X : <<h, g>> \in d
  BY DEF HasCycle
<1>2. ASSUME NEW g \in X PROVE \E h \in X : <<h, g>> \in e
  <2>1. PICK h \in X : <<h, g>> \in d
    BY <1>1
  <2>2. <<h, g>> \in Nested(d)
    BY <1>1, <2>1 DEF Nested
  <2>3. <<h, g>> \in e
    BY <2>2 DEF Nested
  <2> QED BY <2>3
<1> QED BY <1>1, <1>2 DEF HasCycle

\* What the guard of add_member is good for: a nesting of m in g adds no cycle
\* when some set of groups that is closed downwards has m and not g.
LEMMA CycleAdd ==
  ASSUME NEW e, NEW g \in Gids, NEW m \in Gids, NEW D \in SUBSET Gids, m \in D, g \notin D,
         \A x \in D : \A c \in Gids : <<x, c>> \in e => c \in D,
         HasCycle(e \cup {<<g, m>>})
  PROVE  HasCycle(e)
<1>1. PICK X \in (SUBSET Gids) \ {{}} : \A x \in X : \E h \in X : <<h, x>> \in e \cup {<<g, m>>}
  BY DEF HasCycle
<1>2. CASE X \subseteq D
  <2>1. ASSUME NEW x \in X PROVE \E h \in X : <<h, x>> \in e
    <3>1. PICK h \in X : <<h, x>> \in e \cup {<<g, m>>}
      BY <1>1
    <3>2. h # g
      BY <1>2
    <3> QED BY <3>1, <3>2
  <2> QED BY <1>1, <2>1 DEF HasCycle
<1>3. CASE ~(X \subseteq D)
  <2>1. ASSUME NEW x \in X \ D PROVE \E h \in X \ D : <<h, x>> \in e
    <3>1. PICK h \in X : <<h, x>> \in e \cup {<<g, m>>}
      BY <1>1
    <3>2. x # m /\ <<h, x>> \in e
      BY <3>1
    <3>3. h \notin D
      BY <1>1, <3>2
    <3> QED BY <3>2, <3>3
  <2>2. X \ D \in (SUBSET Gids) \ {{}}
    BY <1>1, <1>3
  <2> QED BY <2>1, <2>2 DEF HasCycle
<1> QED BY <1>2, <1>3

\* Children and the guards that use them depend on the nestings only.
LEMMA ChildrenNested ==
  ASSUME Nested(edges') = Nested(edges)
  PROVE  \A x \in Gids : Children(x)' = Children(x)
<1> SUFFICES ASSUME NEW x \in Gids, NEW c \in Gids PROVE (<<x, c>> \in edges') <=> (<<x, c>> \in edges)
  BY DEF Children
<1>1. (<<x, c>> \in edges' <=> <<x, c>> \in Nested(edges')) /\ (<<x, c>> \in edges <=> <<x, c>> \in Nested(edges))
  BY DEF Nested
<1> QED BY <1>1

\* A step that leaves the admins and the nestings alone.
LEMMA HierarchyFrame ==
  ASSUME GroupsInv, HierarchyInv, Nested(edges') = Nested(edges),
         Nested(saved'.edges) \in {Nested(saved.edges), Nested(edges)},
         \A t \in Admins : /\ pc'[t] = pc[t] /\ arg'[t] = arg[t]
                           /\ frontier'[t] = frontier[t] /\ below'[t] = below[t]
  PROVE  HierarchyInv'
<1>1. ~HasCycle(edges') /\ ~HasCycle(saved'.edges)
  BY CycleMono DEF HierarchyInv, Acyclic
<1>2. Acyclic'
  BY <1>1 DEF Acyclic
<1>3. (\A t \in Admins : pc'[t] \notin {"commit", "purge_in"}) => Nested(saved'.edges) = Nested(edges')
  BY DEF HierarchyInv
<1>4. ASSUME NEW t \in Admins, pc[t] = "descend" PROVE DescentOk(t)'
  <2>1. DescentOk(t) /\ arg[t].m \in Gids /\ below[t] \in SUBSET Gids
    BY <1>4, TypesNow, Kinds DEF HierarchyInv, AdminAt
  <2>2. \A x \in below[t] \cup {arg[t].m} : x \in Gids
    BY <2>1
  <2>3. \A x \in below[t] : (\E p \in below[t] \cup {arg[t].m} : <<p, x>> \in edges')
    <3> SUFFICES ASSUME NEW x \in below[t]
                 PROVE  \E p \in below[t] \cup {arg[t].m} : <<p, x>> \in edges'
      OBVIOUS
    <3>1. PICK p \in below[t] \cup {arg[t].m} : <<p, x>> \in edges
      BY <2>1 DEF DescentOk
    <3>2. <<p, x>> \in Nested(edges)
      BY <2>1, <2>2, <3>1 DEF Nested
    <3>3. <<p, x>> \in edges'
      BY <3>2 DEF Nested
    <3> QED BY <3>3
  <2>4. \A x \in below[t] \cup {arg[t].m} : Children(x)' = Children(x)
    BY <2>2, ChildrenNested
  <2> QED BY <2>1, <2>3, <2>4 DEF DescentOk
<1>5. ASSUME NEW t \in Admins, pc[t] \in {"check_edge", "insert_edge"}, arg[t].m \in Gids PROVE GuardOk(t)'
  <2>1. GuardOk(t)
    BY <1>5 DEF HierarchyInv
  <2> QED BY <2>1, ChildrenNested DEF GuardOk
<1>6. ASSUME NEW t \in Admins, pc[t] = "refused" PROVE HasCycle(edges' \cup {<<arg[t].g, arg[t].m>>})
  <2>1. HasCycle(edges \cup {<<arg[t].g, arg[t].m>>})
    BY <1>6 DEF HierarchyInv, RefusedForCause
  <2>2. Nested(edges \cup {<<arg[t].g, arg[t].m>>}) \subseteq Nested(edges' \cup {<<arg[t].g, arg[t].m>>})
    BY DEF Nested
  <2> QED BY <2>1, <2>2, CycleMono
<1>7. RefusedForCause'
  BY <1>6 DEF RefusedForCause
<1> QED BY <1>2, <1>3, <1>4, <1>5, <1>7 DEF HierarchyInv

\* The one admin moves.
LEMMA OthersIdle ==
  ASSUME GroupsInv, OneAdmin, NEW t \in Admins, t \in traffic \/ pc[t] # "idle"
  PROVE  \A a \in Admins : a # t => pc[a] = "idle"
<1>1. t \in traffic
  BY TypesNow, Kinds DEF PhaseInv
<1>2. \A a \in Admins : a # t => a \notin traffic
  BY <1>1 DEF OneAdmin
<1> QED BY <1>2, TypesNow, Kinds DEF PhaseInv

LEMMA AdminMoves ==
  ASSUME GroupsInv, NEW t \in Admins, \A a \in Admins : a # t => pc[a] = "idle",
         NEW l, pc' = [pc EXCEPT ![t] = l], ~HasCycle(edges'), ~HasCycle(saved'.edges),
         l \notin {"commit", "purge_in"} => Nested(saved'.edges) = Nested(edges'),
         l = "descend" => DescentOk(t)',
         l \in {"check_edge", "insert_edge"} /\ arg'[t].m \in Gids => GuardOk(t)',
         l = "refused" => HasCycle(edges' \cup {<<arg'[t].g, arg'[t].m>>})
  PROVE  HierarchyInv'
<1>1. pc'[t] = l /\ \A a \in Admins : a # t => pc'[a] = "idle"
  BY TypesNow, Kinds
<1>2. Acyclic'
  BY DEF Acyclic
<1>3. (\A a \in Admins : pc'[a] \notin {"commit", "purge_in"}) => Nested(saved'.edges) = Nested(edges')
  BY <1>1
<1>4. \A a \in Admins : pc'[a] = "descend" => DescentOk(a)'
  BY <1>1
<1>5. \A a \in Admins : pc'[a] \in {"check_edge", "insert_edge"} /\ arg'[a].m \in Gids => GuardOk(a)'
  BY <1>1
<1>6. RefusedForCause'
  BY <1>1 DEF RefusedForCause
<1> QED BY <1>2, <1>3, <1>4, <1>5, <1>6 DEF HierarchyInv

\* With one admin, every admin but the one at a commit or between two DELETEs
\* has the saved nestings in front of it.
LEMMA SavedNestings ==
  ASSUME GroupsInv, HierarchyInv, NEW t \in Admins, \A a \in Admins : a # t => pc[a] = "idle",
         pc[t] \notin {"commit", "purge_in"}
  PROVE  Nested(saved.edges) = Nested(edges)
BY DEF HierarchyInv

\* A step of the admin that writes no membership.
LEMMA AdminReads ==
  ASSUME GroupsInv, HierarchyInv, NEW t \in Admins, \A a \in Admins : a # t => pc[a] = "idle",
         pc[t] \notin {"commit", "purge_in"}, UNCHANGED <<edges, saved>>,
         NEW l, pc' = [pc EXCEPT ![t] = l],
         l = "descend" => DescentOk(t)',
         l \in {"check_edge", "insert_edge"} /\ arg'[t].m \in Gids => GuardOk(t)',
         l = "refused" => HasCycle(edges \cup {<<arg'[t].g, arg'[t].m>>})
  PROVE  HierarchyInv'
<1>1. ~HasCycle(edges') /\ ~HasCycle(saved'.edges) /\ Nested(saved'.edges) = Nested(edges')
  BY SavedNestings DEF HierarchyInv, Acyclic
<1> QED BY <1>1, AdminMoves

\* A step of the admin that saves what is there.
LEMMA AdminSaves ==
  ASSUME GroupsInv, HierarchyInv, NEW t \in Admins, \A a \in Admins : a # t => pc[a] = "idle",
         UNCHANGED edges, saved'.edges = edges, pc' = [pc EXCEPT ![t] = "idle"]
  PROVE  HierarchyInv'
<1>1. ~HasCycle(edges') /\ ~HasCycle(saved'.edges) /\ Nested(saved'.edges) = Nested(edges')
  BY DEF HierarchyInv, Acyclic
<1> QED BY <1>1, AdminMoves

LEMMA FewerAcyclic ==
  ASSUME NEW d, NEW e, d \subseteq e, ~HasCycle(e)
  PROVE  ~HasCycle(d)
BY CycleMono DEF Nested

\* A step of the admin that removes memberships.
LEMMA AdminRemoves ==
  ASSUME GroupsInv, HierarchyInv, NEW t \in Admins, \A a \in Admins : a # t => pc[a] = "idle",
         edges' \subseteq edges, UNCHANGED saved,
         NEW l \in {"idle", "purge_in", "commit"}, pc' = [pc EXCEPT ![t] = l],
         l = "idle" => edges' = edges /\ pc[t] \notin {"commit", "purge_in"}
  PROVE  HierarchyInv'
<1>1. ~HasCycle(edges') /\ ~HasCycle(saved'.edges)
  BY FewerAcyclic DEF HierarchyInv, Acyclic
<1>2. l \notin {"commit", "purge_in"} => Nested(saved'.edges) = Nested(edges')
  BY SavedNestings
<1> QED BY <1>1, <1>2, AdminMoves

LEMMA DescentStep ==
  ASSUME GroupsInv, HierarchyInv, NEW t \in Admins, Descend(t)
  PROVE  /\ DescentOk(t)' /\ UNCHANGED <<edges, saved, arg>>
         /\ \E l : /\ pc' = [pc EXCEPT ![t] = l]
                   /\ l = IF frontier'[t] # {} THEN "descend"
                          ELSE IF arg[t].g \in below'[t] THEN "refused" ELSE "check_edge"
         /\ arg[t].g \in Gids /\ arg[t].m \in Gids /\ below'[t] \in SUBSET Gids
<1>1. /\ UNCHANGED <<edges, saved, arg>> /\ pc[t] = "descend"
      /\ \E l : /\ pc' = [pc EXCEPT ![t] = l]
                /\ l = IF frontier'[t] # {} THEN "descend"
                       ELSE IF arg[t].g \in below'[t] THEN "refused" ELSE "check_edge"
  BY DEF Descend, Goto, tables
<1>2. arg[t].g \in Gids /\ arg[t].m \in Gids
  BY <1>1, TypesNow DEF AdminAt, Adding
<1>3. DescentOk(t)
  BY <1>1 DEF HierarchyInv
<1> DEFINE m == arg[t].m
           all == below[t] \cup {m}
<1>4. PICK g \in frontier[t] :
          /\ below' = [below EXCEPT ![t] = @ \cup (Children(g) \ below[t])]
          /\ frontier' = [frontier EXCEPT ![t] = (@ \ {g}) \cup (Children(g) \ below[t])]
  BY DEF Descend
<1> DEFINE new == Children(g) \ below[t]
<1>5. below'[t] = below[t] \cup new /\ frontier'[t] = (frontier[t] \ {g}) \cup new
  BY <1>4, TypesNow, Kinds
<1>6. g \in all /\ new \subseteq Gids /\ \A x \in new : <<g, x>> \in edges
  BY <1>3, <1>4 DEF DescentOk, Children
<1>7. \A x : Children(x)' = Children(x)
  BY <1>1 DEF Children
<1>8. below'[t] \in SUBSET Gids
  BY <1>5, <1>6, TypesNow, Kinds
<1>9. DescentOk(t)'
  <2>1. arg'[t].m # arg'[t].g /\ arg'[t] = arg[t] /\ frontier'[t] \subseteq below'[t] \cup {m}
    BY <1>1, <1>3, <1>5 DEF DescentOk
  <2>2. ASSUME NEW x \in (below'[t] \cup {m}) \ frontier'[t] PROVE Children(x) \subseteq below'[t]
    <3>1. x \in all /\ (x \notin frontier[t] \/ x = g)
      BY <1>5
    <3>2. CASE x = g
      BY <1>5, <3>2
    <3>3. CASE x \notin frontier[t]
      BY <1>3, <1>5, <3>1, <3>3 DEF DescentOk
    <3> QED BY <3>1, <3>2, <3>3
  <2>3. ASSUME NEW x \in below'[t] PROVE \E p \in below'[t] \cup {m} : <<p, x>> \in edges
    <3>1. CASE x \in new
      BY <1>5, <1>6, <3>1
    <3>2. CASE x \in below[t]
      BY <1>3, <1>5, <3>2 DEF DescentOk
    <3> QED BY <1>5, <3>1, <3>2
  <2> QED BY <1>1, <1>7, <2>1, <2>2, <2>3 DEF DescentOk
<1> QED BY <1>1, <1>2, <1>8, <1>9

\* add_member's guard lets a nesting through only if it closes no cycle, and
\* refuses it only if it does.
LEMMA DescentHierarchy ==
  ASSUME GroupsInv, HierarchyInv, OneAdmin, NEW t \in Admins, Descend(t)
  PROVE  HierarchyInv'
<1>1. pc[t] = "descend"
  BY DEF Descend
<1>2. \A a \in Admins : a # t => pc[a] = "idle"
  BY <1>1, OthersIdle
<1>3. PICK l : /\ pc' = [pc EXCEPT ![t] = l]
               /\ l = IF frontier'[t] # {} THEN "descend"
                      ELSE IF arg[t].g \in below'[t] THEN "refused" ELSE "check_edge"
  BY DescentStep
<1>4. /\ DescentOk(t)' /\ UNCHANGED <<edges, saved, arg>>
      /\ arg[t].g \in Gids /\ arg[t].m \in Gids /\ below'[t] \in SUBSET Gids
  BY DescentStep
<1> DEFINE D == below'[t] \cup {arg[t].m}
<1>5. /\ arg[t].m # arg[t].g
      /\ \A x \in D \ frontier'[t] : Children(x)' \subseteq below'[t]
      /\ \A x \in below'[t] : \E p \in D : <<p, x>> \in edges
  BY <1>4 DEF DescentOk
<1>6. ASSUME l = "check_edge" PROVE GuardOk(t)'
  <2>1. frontier'[t] = {} /\ arg[t].g \notin below'[t]
    BY <1>3, <1>6
  <2>2. \A x \in D : Children(x)' \subseteq D
    BY <1>5, <2>1
  <2>3. D \in SUBSET Gids /\ arg[t].m \in D /\ arg[t].g \notin D
    BY <1>4, <1>5, <2>1
  <2> HIDE DEF D
  <2> QED BY <1>4, <2>2, <2>3 DEF GuardOk
<1>7. ASSUME l = "refused" PROVE HasCycle(edges \cup {<<arg'[t].g, arg'[t].m>>})
  <2>1. arg[t].g \in below'[t]
    BY <1>3, <1>7
  <2>2. ASSUME NEW x \in D PROVE \E p \in D : <<p, x>> \in edges \cup {<<arg[t].g, arg[t].m>>}
    BY <1>5, <2>1
  <2>3. D \in (SUBSET Gids) \ {{}}
    BY <1>4
  <2> QED BY <1>4, <2>2, <2>3 DEF HasCycle
<1>8. l # "insert_edge"
  BY <1>3
<1>9. pc[t] \notin {"commit", "purge_in"}
  BY <1>1
<1> QED BY <1>2, <1>3, <1>4, <1>6, <1>7, <1>8, <1>9, AdminReads

LEMMA CheckMemberHierarchy ==
  ASSUME GroupsInv, HierarchyInv, OneAdmin, NEW t \in Admins, CheckMember(t)
  PROVE  HierarchyInv'
<1>1. /\ pc[t] = "check_member" /\ UNCHANGED <<edges, saved, arg>>
      /\ frontier'[t] = {arg[t].m} \cap Gids /\ below'[t] = {}
  BY TypesNow, Kinds DEF CheckMember, tables
<1>2. \A a \in Admins : a # t => pc[a] = "idle"
  BY <1>1, OthersIdle
<1>3. arg[t].g \in Gids
  BY <1>1, TypesNow DEF AdminAt, Adding
<1>4. PICK l \in {"idle", "check_edge", "refused", "descend"} :
         /\ pc' = [pc EXCEPT ![t] = l]
         /\ l = "check_edge" => arg[t].m \in Users
         /\ l = "descend" => arg[t].m \in Gids /\ arg[t].m # arg[t].g
         /\ l = "refused" => arg[t].m = arg[t].g
  BY <1>1, GidFacts DEF CheckMember, Goto, Raised, Exists
<1>5. ASSUME l = "descend" PROVE DescentOk(t)'
  BY <1>1, <1>4, <1>5 DEF DescentOk
<1>6. ASSUME l = "refused" PROVE HasCycle(edges \cup {<<arg'[t].g, arg'[t].m>>})
  <2>1. {arg[t].g} \in (SUBSET Gids) \ {{}}
    BY <1>3
  <2> QED BY <1>1, <1>4, <1>6, <2>1 DEF HasCycle
<1>7. l \in {"check_edge", "insert_edge"} => arg'[t].m \notin Gids
  BY <1>1, <1>4, GidFacts
<1>8. pc[t] \notin {"commit", "purge_in"}
  BY <1>1
<1> QED BY <1>1, <1>2, <1>4, <1>5, <1>6, <1>7, <1>8, AdminReads

LEMMA InsertHierarchy ==
  ASSUME GroupsInv, HierarchyInv, OneAdmin, NEW t \in Admins, InsertEdge(t)
  PROVE  HierarchyInv'
<1> DEFINE e == <<arg[t].g, arg[t].m>>
<1>1. /\ pc[t] = "insert_edge" /\ UNCHANGED <<saved, arg>> /\ edges' = edges \cup {e}
      /\ pc' = [pc EXCEPT ![t] = IF e \in edges THEN "idle" ELSE "commit"]
  BY DEF InsertEdge, SetEdges, Goto, After, Held
<1>2. \A a \in Admins : a # t => pc[a] = "idle"
  BY <1>1, OthersIdle
<1>3. arg[t].g \in Gids /\ arg[t].m \in Members
  BY <1>1, TypesNow DEF AdminAt, Adding
<1>4. ~HasCycle(edges')
  <2>1. CASE arg[t].m \in Gids
    <3>1. GuardOk(t)
      BY <1>1, <2>1 DEF HierarchyInv
    <3>2. PICK D \in SUBSET Gids :
             arg[t].m \in D /\ arg[t].g \notin D /\ \A x \in D : Children(x) \subseteq D
      BY <3>1 DEF GuardOk
    <3>3. \A x \in D : \A c \in Gids : <<x, c>> \in edges => c \in D
      BY <3>2 DEF Children
    <3>4. ~HasCycle(edges)
      BY DEF HierarchyInv, Acyclic
    <3> QED BY <1>1, <1>3, <2>1, <3>2, <3>3, <3>4, CycleAdd
  <2>2. CASE arg[t].m \notin Gids
    <3>1. Nested(edges') = Nested(edges)
      BY <1>1, <2>2 DEF Nested
    <3> QED BY <3>1, CycleMono DEF HierarchyInv, Acyclic
  <2> QED BY <2>1, <2>2
<1>5. ~HasCycle(saved'.edges)
  BY <1>1 DEF HierarchyInv, Acyclic
<1>6. CASE e \in edges
  <2>1. Nested(saved'.edges) = Nested(edges')
    BY <1>1, <1>2, <1>6, SavedNestings
  <2>2. pc' = [pc EXCEPT ![t] = "idle"]
    BY <1>1, <1>6
  <2> QED BY <1>2, <1>4, <1>5, <2>1, <2>2, AdminMoves
<1>7. CASE e \notin edges
  <2>1. pc' = [pc EXCEPT ![t] = "commit"]
    BY <1>1, <1>7
  <2> QED BY <1>2, <1>4, <1>5, <2>1, AdminMoves
<1> QED BY <1>6, <1>7

LEMMA AdminHierarchy ==
  ASSUME GroupsInv, HierarchyInv, OneAdmin, NEW t \in Admins, AdminNext(t) \/ StoreNext(t)
  PROVE  HierarchyInv'
<1>1. CASE CreateGroup(t) \/ AddMember(t) \/ RemoveMember(t) \/ DeleteGroup(t)
  <2>1. PICK l \in {"check_name", "check_group", "delete_edge", "delete_group"} :
          /\ t \in traffic /\ pc[t] \in {"idle", "refused"}
          /\ UNCHANGED <<edges, saved>> /\ pc' = [pc EXCEPT ![t] = l]
    BY <1>1 DEF CreateGroup, AddMember, RemoveMember, DeleteGroup, BeginOp, Goto, tables
  <2>2. \A a \in Admins : a # t => pc[a] = "idle"
    BY <2>1, OthersIdle
  <2>3. pc[t] \notin {"commit", "purge_in"}
    BY <2>1
  <2> QED BY <2>1, <2>2, <2>3, AdminReads
<1>2. CASE DeleteRow(t) \/ CheckName(t) \/ InsertGroup(t) \/ CheckGroup(t)
  <2>1. PICK l \in {"idle", "purge_out", "insert_group", "commit_group", "check_member"} :
          /\ pc[t] \in {"delete_group", "check_name", "insert_group", "check_group"}
          /\ UNCHANGED <<edges, saved>> /\ pc' = [pc EXCEPT ![t] = l]
    BY <1>2 DEF DeleteRow, CheckName, InsertGroup, CheckGroup, Goto, NameTaken, Raised, tables
  <2>2. \A a \in Admins : a # t => pc[a] = "idle"
    BY <2>1, OthersIdle
  <2>3. pc[t] \notin {"commit", "purge_in"}
    BY <2>1
  <2> QED BY <2>1, <2>2, <2>3, AdminReads
<1>3. CASE PurgeOut(t) \/ PurgeIn(t) \/ DeleteEdge(t)
  <2>1. PICK l \in {"idle", "purge_in", "commit"} :
          /\ pc[t] \in {"purge_out", "purge_in", "delete_edge"}
          /\ edges' \subseteq edges /\ UNCHANGED saved /\ pc' = [pc EXCEPT ![t] = l]
          /\ l = "idle" => edges' = edges /\ pc[t] \notin {"commit", "purge_in"}
    <3>1. CASE PurgeOut(t)
      BY <3>1 DEF PurgeOut, Goto, SetEdges
    <3>2. CASE PurgeIn(t)
      BY <3>2 DEF PurgeIn, Goto, SetEdges
    <3>3. CASE DeleteEdge(t)
      BY <3>3 DEF DeleteEdge, Goto, SetEdges, Held, After
    <3> QED BY <1>3, <3>1, <3>2, <3>3
  <2>2. \A a \in Admins : a # t => pc[a] = "idle"
    BY <2>1, OthersIdle
  <2> QED BY <2>1, <2>2, AdminRemoves
<1>4. CASE Commit(t) \/ CommitGroup(t)
  <2>1. /\ pc[t] \in {"commit", "commit_group"} /\ UNCHANGED edges /\ saved'.edges = edges
        /\ pc' = [pc EXCEPT ![t] = "idle"]
    BY <1>4 DEF Commit, CommitGroup, Goto, After
  <2>2. \A a \in Admins : a # t => pc[a] = "idle"
    BY <2>1, OthersIdle
  <2> QED BY <2>1, <2>2, AdminSaves
<1>5. CASE CheckEdge(t)
  <2>1. PICK l \in {"idle", "insert_edge"} :
          /\ pc[t] = "check_edge" /\ UNCHANGED <<edges, saved, arg>> /\ pc' = [pc EXCEPT ![t] = l]
    BY <1>5 DEF CheckEdge, Goto, After, tables
  <2>2. \A a \in Admins : a # t => pc[a] = "idle"
    BY <2>1, OthersIdle
  <2>3. arg'[t].m \in Gids => GuardOk(t)'
    BY <2>1 DEF HierarchyInv, GuardOk, Children
  <2>4. pc[t] \notin {"commit", "purge_in"}
    BY <2>1
  <2> QED BY <2>1, <2>2, <2>3, <2>4, AdminReads
<1> QED BY <1>1, <1>2, <1>3, <1>4, <1>5, DescentHierarchy, CheckMemberHierarchy, InsertHierarchy
        DEF AdminNext, StoreNext

\* Sign-ins add and remove users only.
LEMMA SyncHierarchy ==
  ASSUME GroupsInv, HierarchyInv, NEW t \in Syncs, SyncNext(t) \/ StoreNext(t)
  PROVE  HierarchyInv'
<1>1. SyncAt(t, pc[t], arg[t], todo[t]) /\ SyncUser[t] \in Users
  BY TypesNow, GroupsAssumption
<1>2. \A a \in Admins : /\ pc'[a] = pc[a] /\ arg'[a] = arg[a]
                        /\ frontier'[a] = frontier[a] /\ below'[a] = below[a]
  <2> SUFFICES ASSUME NEW a \in Admins
               PROVE  /\ pc'[a] = pc[a] /\ arg'[a] = arg[a]
                      /\ frontier'[a] = frontier[a] /\ below'[a] = below[a]
    OBVIOUS
  <2>1. a # t /\ a \in Writers
    BY Kinds
  <2>2. pc \in [Writers -> Places] /\ arg \in [Writers -> Arg]
        /\ frontier \in [Writers -> SUBSET Gids] /\ below \in [Writers -> SUBSET Gids]
    BY TypesNow
  <2>3. CASE SyncNext(t)
    BY <2>1, <2>2, <2>3 DEF SyncNext, Sync, NextName, Find, Parents, Revoke, Goto, With
  <2>4. CASE StoreNext(t)
    BY <2>1, <2>2, <2>4 DEF StoreNext, Commit, CheckName, InsertGroup, CommitGroup, CheckGroup, CheckMember,
        Descend, CheckEdge, InsertEdge, DeleteEdge, Goto, NameTaken
  <2> QED BY <2>3, <2>4
<1>3. Nested(edges') = Nested(edges)
  <2>1. CASE InsertEdge(t) \/ DeleteEdge(t)
    <3>1. arg[t].m = SyncUser[t]
      BY <1>1, <2>1 DEF SyncAt, Joining, InsertEdge, DeleteEdge
    <3>2. arg[t].m \notin Gids
      BY <1>1, <3>1, GidFacts
    <3> QED BY <2>1, <3>2 DEF InsertEdge, DeleteEdge, SetEdges, Nested
  <2>2. CASE ~(InsertEdge(t) \/ DeleteEdge(t))
    <3>1. UNCHANGED edges
      BY <2>2 DEF SyncNext, Sync, NextName, Find, Parents, Revoke, StoreNext, Commit, CheckName, InsertGroup,
         CommitGroup, CheckGroup, CheckMember, Descend, CheckEdge, tables
    <3> QED BY <3>1
  <2> QED BY <2>1, <2>2
<1>4. saved' = saved \/ saved'.edges = edges
  BY DEF SyncNext, Sync, NextName, Find, Parents, Revoke, StoreNext, Commit, CheckName, InsertGroup,
     CommitGroup, CheckGroup, CheckMember, Descend, CheckEdge, InsertEdge, DeleteEdge, tables
<1> QED BY <1>2, <1>3, <1>4, HierarchyFrame

LEMMA HierarchyNext ==
  ASSUME GroupsInv, HierarchyInv, OneAdmin, GroupsNext
  PROVE  HierarchyInv'
BY AdminHierarchy, SyncHierarchy, Kinds DEF GroupsNext

LEMMA HierarchyCrash ==
  ASSUME GroupsInv, HierarchyInv, OneAdmin, GroupsCrash
  PROVE  HierarchyInv'
<1>1. edges' = saved.edges /\ saved' = saved /\ UNCHANGED arg
  BY DEF GroupsCrash
<1>2. \A t \in Admins : pc'[t] \in {"idle", "refused"} /\ (pc'[t] = "refused" => pc[t] = "refused")
  BY TypesNow, Kinds DEF GroupsCrash, Stopped, Raised, AdminAt
<1>3. Acyclic'
  BY <1>1 DEF HierarchyInv, Acyclic
<1>4. ASSUME NEW t \in Admins, pc[t] = "refused"
      PROVE  HasCycle(edges' \cup {<<arg'[t].g, arg'[t].m>>})
  <2>1. \A a \in Admins : a # t => pc[a] = "idle"
    BY <1>4, OthersIdle
  <2>2. Nested(edges') = Nested(edges)
    BY <1>1, <1>4, <2>1, SavedNestings
  <2>3. HasCycle(edges \cup {<<arg[t].g, arg[t].m>>})
    BY <1>4 DEF HierarchyInv, RefusedForCause
  <2>4. Nested(edges \cup {<<arg[t].g, arg[t].m>>}) \subseteq Nested(edges' \cup {<<arg'[t].g, arg'[t].m>>})
    BY <1>1, <2>2 DEF Nested
  <2> QED BY <2>3, <2>4, CycleMono
<1>5. RefusedForCause'
  BY <1>2, <1>4 DEF RefusedForCause
<1> QED BY <1>1, <1>2, <1>3, <1>5 DEF HierarchyInv

LEMMA HierarchyInit ==
  ASSUME NEW s \in Starts, GroupsInit(s)
  PROVE  HierarchyInv
<1>1. edges \in s.graphs /\ saved.edges = edges /\ \A t \in Admins : pc[t] = "idle"
  BY Kinds DEF GroupsInit
<1>2. ~HasCycle(edges)
  BY <1>1, StartAssumption
<1> QED BY <1>1, <1>2 DEF HierarchyInv, Acyclic, RefusedForCause

(***************************************************************************)
(* No membership of, or in, a group that is gone.                           *)
(***************************************************************************)
\* A writer that moves is alone with no request that deletes groups, or is one.
LEMMA Alone ==
  ASSUME GroupsInv, Apart, NEW t \in Writers, t \in traffic \/ pc[t] # "idle"
  PROVE  /\ \A d \in Deleters : d # t => pc[d] = "idle"
         /\ t \in Deleters => \A q \in Writers : q # t => pc[q] = "idle"
<1>1. t \in traffic /\ \A q \in Writers \ traffic : pc[q] = "idle"
  BY TypesNow DEF PhaseInv
<1>2. \A d \in Deleters : d # t => d \notin traffic
  BY <1>1, Kinds DEF Apart
<1>3. t \in Deleters => \A q \in Writers : q # t => q \notin traffic
  BY <1>1 DEF Apart
<1> QED BY <1>1, <1>2, <1>3, Kinds

\* A step of a writer that is not at delete_group.
LEMMA DanglingMove ==
  ASSUME GroupsInv, DanglingInv, Apart, NEW t \in Writers, t \in traffic \/ pc[t] # "idle",
         NEW l, pc' = [pc EXCEPT ![t] = l], \A q \in Writers : q # t => arg'[q] = arg[q],
         pc[t] \notin {"purge_out", "purge_in"}, l \notin {"purge_out", "purge_in"},
         \A e \in edges' : e \in edges \/ \A g \in Ends(e) : Exists(g),
         \A g \in Gids : groups[g] # NoName => groups'[g] # NoName,
         saved' = saved \/ (saved'.edges = edges /\ saved'.groups = groups),
         l \in {"check_member", "descend", "check_edge", "insert_edge"} => Exists(arg[t].g)',
         l \in {"descend", "check_edge", "insert_edge"} /\ arg'[t].m \in Gids => Exists(arg[t].m)'
  PROVE  DanglingInv'
<1>1. pc'[t] = l /\ \A q \in Writers : q # t => pc'[q] = pc[q]
  BY TypesNow
<1>2. \A d \in Deleters : pc[d] \notin {"purge_out", "purge_in"} /\ pc'[d] \notin {"purge_out", "purge_in"}
  BY <1>1, Alone, Kinds
<1>3. \A e \in edges : \A g \in Ends(e) : Exists(g)
  BY <1>2 DEF DanglingInv
<1>4. \A g : Exists(g) => Exists(g)'
  BY DEF Exists
<1>5. \A e \in edges' : \A g \in Ends(e) : Exists(g)'
  BY <1>3, <1>4
<1>6. \A e \in saved'.edges : \A g \in Ends(e) : saved'.groups[g] # NoName
  <2>1. CASE saved' = saved
    BY <2>1 DEF DanglingInv
  <2>2. CASE saved'.edges = edges /\ saved'.groups = groups
    BY <1>3, <2>2 DEF Exists
  <2> QED BY <2>1, <2>2
<1>7. ASSUME NEW q \in Writers
      PROVE  /\ pc'[q] \in {"check_member", "descend", "check_edge", "insert_edge"} => Exists(arg[q].g)'
             /\ pc'[q] \in {"descend", "check_edge", "insert_edge"} /\ arg'[q].m \in Gids => Exists(arg[q].m)'
  <2>1. CASE q = t
    BY <1>1, <2>1
  <2>2. CASE q # t
    BY <1>1, <1>4, <2>2 DEF DanglingInv
  <2> QED BY <2>1, <2>2
<1> QED BY <1>2, <1>5, <1>6, <1>7 DEF DanglingInv

\* A step of delete_group.
LEMMA DanglingDelete ==
  ASSUME GroupsInv, DanglingInv, Apart, NEW t \in Deleters, DeleteRow(t) \/ PurgeOut(t) \/ PurgeIn(t)
  PROVE  DanglingInv'
<1> DEFINE g == arg[t].g
<1>1. /\ pc[t] \in {"delete_group", "purge_out", "purge_in"} /\ t \in Writers /\ g \in Gids
      /\ UNCHANGED <<saved, arg>> /\ t \in Admins
  BY TypesNow, Kinds DEF DeleteRow, PurgeOut, PurgeIn, AdminAt
<1>2. \A q \in Writers : q # t => pc[q] = "idle"
  BY <1>1, Alone
<1>3. \A q \in Writers : q # t => pc'[q] = "idle"
  BY <1>2, TypesNow DEF DeleteRow, PurgeOut, PurgeIn, Goto
<1>4. pc'[t] \in {"idle", "purge_out", "purge_in", "commit"}
  BY <1>1, TypesNow DEF DeleteRow, PurgeOut, PurgeIn, Goto
<1>5. /\ \A e \in saved'.edges : \A h \in Ends(e) : saved'.groups[h] # NoName
      /\ \A q \in Writers : pc'[q] \notin {"check_member", "descend", "check_edge", "insert_edge"}
  BY <1>1, <1>3, <1>4 DEF DanglingInv
<1>6. ASSUME NEW h \in Gids, NEW e \in edges, h \in Ends(e)
      PROVE  Exists(h) \/ (pc[t] \in {"purge_out", "purge_in"} /\ g = h)
  BY <1>2, <1>6, Kinds DEF DanglingInv
<1>7. CASE DeleteRow(t)
  <2>1. /\ UNCHANGED edges /\ groups' = [groups EXCEPT ![g] = NoName]
        /\ pc'[t] = IF Exists(g) THEN "purge_out" ELSE "idle"
        /\ pc[t] = "delete_group"
    BY <1>1, <1>7, TypesNow DEF DeleteRow, Goto
  <2>2. ASSUME NEW e \in edges', NEW h \in Ends(e)
        PROVE  Exists(h)' \/ (pc'[t] \in {"purge_out", "purge_in"} /\ arg'[t].g = h)
    <3>1. h \in Gids /\ Exists(h)
      BY <1>6, <2>1 DEF Ends
    <3>2. CASE h = g
      BY <1>1, <2>1, <3>1, <3>2
    <3>3. CASE h # g
      BY <1>1, <2>1, <3>1, <3>3, TypesNow DEF Exists
    <3> QED BY <3>2, <3>3
  <2>3. \A q \in Deleters : pc'[q] # "purge_in"
    BY <1>3, <2>1, Kinds
  <2> QED BY <1>5, <2>2, <2>3 DEF DanglingInv
<1>8. CASE PurgeOut(t)
  <2>1. /\ edges' = {e \in edges : e[1] # g} /\ UNCHANGED groups /\ pc'[t] = "purge_in"
    BY <1>1, <1>8, TypesNow DEF PurgeOut, SetEdges, Goto
  <2>2. ASSUME NEW e \in edges', NEW h \in Ends(e)
        PROVE  Exists(h)' \/ (pc'[t] \in {"purge_out", "purge_in"} /\ arg'[t].g = h)
    BY <1>1, <1>6, <2>1 DEF Exists, Ends
  <2>3. \A q \in Deleters : pc'[q] = "purge_in" => \A e \in edges' : e[1] # arg'[q].g
    BY <1>1, <1>3, <2>1, Kinds
  <2> QED BY <1>5, <2>2, <2>3 DEF DanglingInv
<1>9. CASE PurgeIn(t)
  <2>1. /\ edges' = {e \in edges : e[2] # g} /\ UNCHANGED groups /\ pc'[t] = "commit" /\ pc[t] = "purge_in"
    BY <1>1, <1>9, TypesNow DEF PurgeIn, SetEdges, Goto
  <2>2. ASSUME NEW e \in edges', NEW h \in Ends(e) PROVE Exists(h)'
    <3>1. e \in edges /\ e[1] # g /\ e[2] # g /\ h \in Gids
      BY <2>1 DEF DanglingInv, Ends
    <3>2. h # g
      BY <3>1 DEF Ends
    <3> QED BY <1>6, <2>1, <3>1, <3>2 DEF Exists
  <2>3. \A q \in Deleters : pc'[q] # "purge_in"
    BY <1>3, <2>1, Kinds
  <2> QED BY <1>5, <2>2, <2>3 DEF DanglingInv
<1> QED BY <1>7, <1>8, <1>9

LEMMA AdminDangling ==
  ASSUME GroupsInv, DanglingInv, Apart, NEW t \in Admins, AdminNext(t)
  PROVE  DanglingInv'
<1>1. CASE CreateGroup(t) \/ AddMember(t) \/ RemoveMember(t) \/ DeleteGroup(t)
  <2>1. PICK l \in {"check_name", "check_group", "delete_edge", "delete_group"} :
          /\ t \in traffic /\ pc[t] \in {"idle", "refused"}
          /\ UNCHANGED <<edges, groups, saved>> /\ pc' = [pc EXCEPT ![t] = l]
    BY <1>1 DEF CreateGroup, AddMember, RemoveMember, DeleteGroup, BeginOp, Goto, tables
  <2>2. \A q \in Writers : q # t => arg'[q] = arg[q]
    BY <1>1, TypesNow DEF CreateGroup, AddMember, RemoveMember, DeleteGroup, BeginOp, With
  <2>3. t \in Writers /\ pc[t] \notin {"purge_out", "purge_in"}
    BY <2>1, Kinds
  <2> QED BY <2>1, <2>2, <2>3, DanglingMove
<1>2. CASE t \in Deleters /\ (DeleteRow(t) \/ PurgeOut(t) \/ PurgeIn(t))
  BY <1>2, DanglingDelete
<1> QED BY <1>1, <1>2 DEF AdminNext

LEMMA SyncDangling ==
  ASSUME GroupsInv, DanglingInv, Apart, NEW t \in Syncs, SyncNext(t)
  PROVE  DanglingInv'
<1>1. PICK l \in {"next", "parents", "find", "check_group", "check_name", "failed", "revoke", "done",
                  "delete_edge"} :
        /\ (t \in traffic \/ pc[t] # "idle") /\ pc[t] \notin {"purge_out", "purge_in"}
        /\ UNCHANGED <<edges, groups, saved>> /\ pc' = [pc EXCEPT ![t] = l]
  BY DEF SyncNext, Sync, NextName, Find, Parents, Revoke, Goto, tables
<1>2. \A q \in Writers : q # t => arg'[q] = arg[q]
  BY TypesNow DEF SyncNext, Sync, NextName, Find, Parents, Revoke, With
<1>3. t \in Writers /\ (t \in traffic \/ pc[t] # "idle") /\ pc[t] \notin {"purge_out", "purge_in"}
  BY <1>1, TypesNow, Kinds DEF SyncAt
<1> QED BY <1>1, <1>2, <1>3, DanglingMove

LEMMA StoreDangling ==
  ASSUME GroupsInv, DanglingInv, Apart, NEW t \in Writers, StoreNext(t)
  PROVE  DanglingInv'
<1>1. \A q \in Writers : q # t => arg'[q] = arg[q]
  BY TypesNow DEF StoreNext, Commit, CheckName, InsertGroup, CommitGroup, CheckGroup, CheckMember,
        Descend, CheckEdge, InsertEdge, DeleteEdge
<1>2. pc[t] \notin {"idle", "purge_out", "purge_in"}
  BY DEF StoreNext, Commit, CheckName, InsertGroup, CommitGroup, CheckGroup, CheckMember,
        Descend, CheckEdge, InsertEdge, DeleteEdge
<1>3. /\ t \in Admins => AdminAt(t, pc[t], arg[t])
      /\ t \in Syncs => SyncAt(t, pc[t], arg[t], todo[t])
      /\ t \in Admins \/ t \in Syncs
  BY TypesNow, Kinds
<1>4. CASE Commit(t) \/ CommitGroup(t) \/ CheckName(t)
  <2>1. PICK l \in {"idle", "revoke", "next", "check_group", "refind", "insert_group"} :
          /\ pc' = [pc EXCEPT ![t] = l] /\ UNCHANGED <<groups, edges>>
          /\ saved' = saved \/ (saved'.edges = edges /\ saved'.groups = groups)
    BY <1>4 DEF Commit, CommitGroup, CheckName, NameTaken, Goto, After, tables
  <2> QED BY <1>1, <1>2, <2>1, DanglingMove
<1>5. CASE InsertGroup(t)
  <2>1. PICK l \in {"idle", "refind", "commit_group"} :
          pc' = [pc EXCEPT ![t] = l] /\ UNCHANGED <<edges, saved>>
    BY <1>5 DEF InsertGroup, NameTaken, Goto
  <2>2. arg[t].n # NoName
    BY <1>3, <1>5, Kinds, GroupsAssumption DEF InsertGroup, AdminAt, SyncAt, Joining
  <2>3. \A g \in Gids : groups[g] # NoName => groups'[g] # NoName
    BY <1>5, <2>2, TypesNow DEF InsertGroup
  <2> QED BY <1>1, <1>2, <2>1, <2>3, DanglingMove
<1>6. CASE CheckGroup(t)
  <2>1. PICK l \in {"idle", "failed", "check_member"} :
          /\ pc' = [pc EXCEPT ![t] = l] /\ UNCHANGED <<groups, edges, saved, arg>>
          /\ l = "check_member" => Exists(arg[t].g)
    BY <1>6 DEF CheckGroup, Raised, Goto, tables
  <2>2. l = "check_member" => Exists(arg[t].g)'
    BY <2>1 DEF Exists
  <2> QED BY <1>1, <1>2, <2>1, <2>2, DanglingMove
<1>7. CASE CheckMember(t)
  <2>1. /\ pc[t] = "check_member" /\ UNCHANGED <<groups, edges, saved, arg>>
    BY <1>7 DEF CheckMember, tables
  <2>2. PICK l \in {"idle", "failed", "check_edge", "refused", "descend"} :
          /\ pc' = [pc EXCEPT ![t] = l]
          /\ l \in {"check_edge", "descend"} => arg[t].m \in Users \/ Exists(arg[t].m)
    BY <1>7, GidFacts DEF CheckMember, Goto, Raised, Exists
  <2>3. Exists(arg[t].g)' /\ (l \in {"check_edge", "descend"} /\ arg'[t].m \in Gids => Exists(arg[t].m)')
    BY <2>1, <2>2, GidFacts DEF DanglingInv, Exists
  <2> QED BY <1>1, <1>2, <2>1, <2>2, <2>3, DanglingMove
<1>8. CASE Descend(t) \/ CheckEdge(t)
  <2>1. /\ pc[t] \in {"descend", "check_edge"} /\ UNCHANGED <<groups, edges, saved, arg>>
    BY <1>8 DEF Descend, CheckEdge, tables
  <2>2. PICK l \in {"descend", "refused", "check_edge", "idle", "revoke", "next", "insert_edge"} :
           pc' = [pc EXCEPT ![t] = l]
    BY <1>8 DEF Descend, CheckEdge, Goto, After
  <2>3. Exists(arg[t].g)' /\ (arg'[t].m \in Gids => Exists(arg[t].m)')
    BY <2>1 DEF DanglingInv, Exists
  <2> QED BY <1>1, <1>2, <2>1, <2>2, <2>3, DanglingMove
<1>9. CASE InsertEdge(t)
  <2> DEFINE e == <<arg[t].g, arg[t].m>>
  <2>1. /\ pc[t] = "insert_edge" /\ UNCHANGED <<groups, saved, arg>> /\ edges' = edges \cup {e}
    BY <1>9 DEF InsertEdge, SetEdges
  <2>2. PICK l \in {"idle", "revoke", "next", "commit"} : pc' = [pc EXCEPT ![t] = l]
    BY <1>9 DEF InsertEdge, Goto, After
  <2>3. \A g \in Ends(e) : Exists(g)
    BY <2>1 DEF DanglingInv, Ends
  <2>4. \A x \in edges' : x \in edges \/ \A g \in Ends(x) : Exists(g)
    BY <2>1, <2>3
  <2> HIDE DEF e
  <2> QED BY <1>1, <1>2, <2>1, <2>2, <2>4, DanglingMove
<1>10. CASE DeleteEdge(t)
  <2>1. edges' \subseteq edges /\ UNCHANGED <<groups, saved, arg>>
    BY <1>10 DEF DeleteEdge, SetEdges
  <2>2. PICK l \in {"idle", "revoke", "next", "commit"} : pc' = [pc EXCEPT ![t] = l]
    BY <1>10 DEF DeleteEdge, Goto, After
  <2> QED BY <1>1, <1>2, <2>1, <2>2, DanglingMove
<1> QED BY <1>4, <1>5, <1>6, <1>7, <1>8, <1>9, <1>10 DEF StoreNext

LEMMA DanglingNext ==
  ASSUME GroupsInv, DanglingInv, Apart, GroupsNext
  PROVE  DanglingInv'
BY AdminDangling, SyncDangling, StoreDangling DEF GroupsNext

LEMMA DanglingCrash ==
  ASSUME GroupsInv, DanglingInv, GroupsCrash
  PROVE  DanglingInv'
<1>1. edges' = saved.edges /\ groups' = saved.groups /\ saved' = saved
  BY DEF GroupsCrash
<1>2. \A t \in Writers : pc'[t] \in {"idle", "refused", "done", "failed"}
  BY DEF GroupsCrash, Stopped, Raised
<1>3. \A e \in edges' : \A g \in Ends(e) : Exists(g)'
  BY <1>1 DEF DanglingInv, Exists, Ends
<1> QED BY <1>1, <1>2, <1>3, Kinds DEF DanglingInv

LEMMA DanglingInit ==
  ASSUME NEW s \in Starts, GroupsInit(s)
  PROVE  DanglingInv
<1>1. /\ edges \in s.graphs /\ saved.edges = edges /\ saved.groups = groups /\ groups = StartGroups
      /\ \A t \in Writers : pc[t] = "idle"
  BY DEF GroupsInit
<1>2. ASSUME NEW e \in edges, NEW g \in Ends(e) PROVE Exists(g)
  <2>1. g \in Gids /\ g <= Len(StartNames)
    BY <1>1, StartAssumption DEF Ends
  <2>2. StartNames \in Seq(Names) /\ Len(StartNames) \in Nat /\ g \in 1..Len(StartNames)
    BY <2>1, GroupsAssumption, GidFacts
  <2>3. groups[g] = StartNames[g] /\ StartNames[g] \in Names
    BY <1>1, <2>1, <2>2 DEF StartGroups
  <2> QED BY <2>1, <2>3, GroupsAssumption DEF Exists
<1> QED BY <1>1, <1>2, Kinds DEF DanglingInv, Exists

LEMMA DanglingGives ==
  ASSUME DanglingInv
  PROVE  NoDangling
BY Kinds DEF DanglingInv, NoDangling, Ends

(***************************************************************************)
(* A sign-in leaves its user in exactly the groups it claims.               *)
(***************************************************************************)
LEMMA IdInit ==
  ASSUME NEW s \in Starts, GroupsInit(s)
  PROVE  IdInv
<1>1. Len(StartNames) \in Nat
  BY GroupsAssumption
<1> QED BY <1>1, GidFacts DEF GroupsInit, IdInv, StartGroups

LEMMA IdNext ==
  ASSUME GroupsInv, IdInv, GroupsNext
  PROVE  IdInv'
<1> DEFINE Kept == saved' = saved \/ (saved'.groups = groups /\ saved'.seq = seq)
           Ids == \/ UNCHANGED <<groups, seq>>
                  \/ \E t \in Writers : groups' = [groups EXCEPT ![arg[t].g] = NoName] /\ UNCHANGED seq
                  \/ \E t \in Writers :
                        seq < MaxGroups /\ seq' = seq + 1 /\ groups' = [groups EXCEPT ![seq + 1] = arg[t].n]
<1>1. ASSUME NEW t \in Admins, AdminNext(t) PROVE Kept /\ Ids
  BY <1>1, Kinds DEF AdminNext, CreateGroup, AddMember, RemoveMember, BeginOp, DeleteGroup, DeleteRow,
        PurgeOut, PurgeIn, tables
<1>2. ASSUME NEW t \in Syncs, SyncNext(t) PROVE Kept /\ Ids
  BY <1>2 DEF SyncNext, Sync, NextName, Find, Parents, Revoke, tables
<1>3. ASSUME NEW t \in Writers, StoreNext(t) PROVE Kept /\ Ids
  BY <1>3 DEF StoreNext, Commit, CheckName, InsertGroup, CommitGroup, CheckGroup, CheckMember, Descend,
        CheckEdge, InsertEdge, DeleteEdge, tables
<1>4. Kept /\ Ids
  BY <1>1, <1>2, <1>3 DEF GroupsNext
<1>5. ASSUME NEW g \in Gids, g > seq' PROVE groups'[g] = NoName
  <2>1. CASE UNCHANGED <<groups, seq>>
    BY <1>5, <2>1 DEF IdInv
  <2>2. CASE \E t \in Writers : groups' = [groups EXCEPT ![arg[t].g] = NoName] /\ UNCHANGED seq
    BY <1>5, <2>2, TypesNow DEF IdInv
  <2>3. CASE \E t \in Writers :
               seq < MaxGroups /\ seq' = seq + 1 /\ groups' = [groups EXCEPT ![seq + 1] = arg[t].n]
    <3>1. g > seq /\ g # seq + 1
      BY <1>5, <2>3, TypesNow, GidFacts
    <3> QED BY <2>3, <3>1, TypesNow DEF IdInv
  <2> QED BY <1>4, <2>1, <2>2, <2>3
<1>6. \A g \in Gids : g > saved'.seq => saved'.groups[g] = NoName
  BY <1>4 DEF IdInv
<1> QED BY <1>5, <1>6 DEF IdInv

LEMMA IdCrash ==
  ASSUME IdInv, GroupsCrash
  PROVE  IdInv'
BY DEF IdInv, GroupsCrash

\* What a sign-in with the claim c does to the tables.
Reconciled(c) ==
    /\ \A g \in Gids : groups[g] # NoName => groups'[g] = groups[g]
    /\ \A g \in Gids : groups'[g] # groups[g] => groups'[g] \in c
    /\ \A g \in Gids : \A m : <<g, m>> \in edges /\ <<g, m>> \notin edges' => groups[g] \notin c
    /\ \A g \in Gids : \A m : <<g, m>> \in edges' /\ <<g, m>> \notin edges => groups[g] \in c

\* Any sign-in with the same claim keeps what it has reached.
LEMMA ClaimKept ==
  ASSUME NEW s \in Syncs, NEW c, c \subseteq Claimable, Reconciled(c), claim[s] = c, claim'[s] = c
  PROVE  /\ \A n \in c : Joined(s, n) => Joined(s, n)'
         /\ Unwanted(s)' \subseteq Unwanted(s)
         /\ \A g \in Gids : Unclaimed(s, g) => Unclaimed(s, g)'
<1>1. ASSUME NEW n \in c, Joined(s, n) PROVE Joined(s, n)'
  <2>1. PICK g \in Gids : groups[g] = n /\ <<g, SyncUser[s]>> \in edges
    BY <1>1 DEF Joined
  <2>2. groups'[g] = n /\ <<g, SyncUser[s]>> \in edges'
    BY <2>1, Kinds DEF Reconciled
  <2> QED BY <2>2 DEF Joined
<1>2. ASSUME NEW g \in Unwanted(s)' PROVE g \in Unwanted(s)
  <2>1. g \in Gids /\ <<g, SyncUser[s]>> \in edges' /\ groups'[g] \in Claimable \ c
    BY <1>2 DEF Unwanted, Above, Unclaimed
  <2>2. groups'[g] = groups[g] /\ <<g, SyncUser[s]>> \in edges
    BY <2>1 DEF Reconciled
  <2> QED BY <2>1, <2>2 DEF Unwanted, Above, Unclaimed
<1>3. ASSUME NEW g \in Gids, Unclaimed(s, g) PROVE Unclaimed(s, g)'
  BY <1>3, Kinds DEF Unclaimed, Reconciled
<1> QED BY <1>1, <1>2, <1>3

LEMMA Reconciles ==
  ASSUME GroupsInv, IdInv, NEW t \in Syncs, SyncOk(t), SyncNext(t) \/ StoreNext(t)
  PROVE  Reconciled(claim[t])
<1>1. SyncAt(t, pc[t], arg[t], todo[t]) /\ t \in Writers
  BY TypesNow, Kinds
<1>2. CASE InsertGroup(t) /\ UNCHANGED groups
  BY <1>2 DEF Reconciled, InsertGroup
<1>3. CASE InsertGroup(t) /\ ~UNCHANGED groups
  <2>1. /\ UNCHANGED edges /\ groups' = [groups EXCEPT ![seq + 1] = arg[t].n] /\ seq < MaxGroups
        /\ arg[t].n \in claim[t]
    BY <1>3 DEF InsertGroup, SyncOk, Joining
  <2>2. seq + 1 \in Gids /\ groups[seq + 1] = NoName
    BY <2>1, TypesNow, GidFacts DEF IdInv
  <2> QED BY <2>1, <2>2, TypesNow DEF Reconciled
<1>4. CASE InsertEdge(t)
  <2>1. UNCHANGED groups /\ edges' = edges \cup {<<arg[t].g, arg[t].m>>} /\ groups[arg[t].g] \in claim[t]
    BY <1>4 DEF InsertEdge, SetEdges, SyncOk, Joining, Found
  <2> QED BY <2>1 DEF Reconciled
<1>5. CASE DeleteEdge(t)
  <2>1. UNCHANGED groups /\ edges' = edges \ {<<arg[t].g, arg[t].m>>} /\ groups[arg[t].g] \notin claim[t]
    BY <1>5 DEF DeleteEdge, SetEdges, SyncOk, Unclaimed
  <2> QED BY <2>1 DEF Reconciled
<1>6. CASE ~(InsertGroup(t) \/ InsertEdge(t) \/ DeleteEdge(t))
  <2>1. UNCHANGED <<groups, edges>>
    BY <1>6 DEF SyncNext, Sync, NextName, Find, Parents, Revoke, StoreNext, Commit, CheckName,
        CommitGroup, CheckGroup, CheckMember, Descend, CheckEdge, tables
  <2> QED BY <2>1 DEF Reconciled
<1> QED BY <1>2, <1>3, <1>4, <1>5, <1>6

\* A sign-in that does not move.
LEMMA SyncStays ==
  ASSUME NEW s \in Syncs, SyncOk(s), NEW c, c \subseteq Claimable, Reconciled(c),
         claim[s] = c, claim'[s] = c, pc'[s] = pc[s], arg'[s] = arg[s], todo'[s] = todo[s],
         SyncAt(s, pc[s], arg[s], todo[s])
  PROVE  SyncOk(s)'
<1>1. /\ \A n \in c : Joined(s, n) => Joined(s, n)'
      /\ Unwanted(s)' \subseteq Unwanted(s)
      /\ \A g \in Gids : Unclaimed(s, g) => Unclaimed(s, g)'
  BY ClaimKept
<1>2. pc[s] \in Found => arg'[s].g \in Gids /\ groups'[arg'[s].g] = arg'[s].n
  BY Kinds DEF SyncOk, Found, Joining, Reconciled
<1>3. pc[s] = "delete_edge" => Unclaimed(s, arg[s].g)'
  <2>1. ASSUME pc[s] = "delete_edge" PROVE arg[s].g \in Gids /\ Unclaimed(s, arg[s].g)
    BY <2>1 DEF SyncOk, SyncAt
  <2> QED BY <1>1, <2>1 DEF Unclaimed
<1> QED BY <1>1, <1>2, <1>3 DEF SyncOk

\* A sign-in that moves.
LEMMA SyncMoves ==
  ASSUME GroupsInv, IdInv, NEW t \in Syncs, SyncOk(t), SyncNext(t) \/ StoreNext(t), pc[t] # "idle"
  PROVE  SyncOk(t)' /\ claim' = claim
<1> USE DEF Joining, Found
<1>1. /\ SyncAt(t, pc[t], arg[t], todo[t]) /\ t \in Writers /\ t \notin Admins /\ claim[t] \subseteq Claimable
      /\ SyncUser[t] \in Users /\ arg[t] \in Arg
      /\ pc \in [Writers -> Places] /\ arg \in [Writers -> Arg] /\ todo \in [Syncs -> SUBSET (Claimable \cup Gids)]
  BY TypesNow, Kinds, GroupsAssumption
<1>2. claim' = claim
  BY DEF SyncNext, Sync, NextName, Find, Parents, Revoke, StoreNext, Commit, CheckName, InsertGroup,
     CommitGroup, CheckGroup, CheckMember, Descend, CheckEdge, InsertEdge, DeleteEdge
<1>3. Reconciled(claim[t])
  BY Reconciles
<1>4. /\ \A n \in claim[t] : Joined(t, n) => Joined(t, n)'
      /\ Unwanted(t)' \subseteq Unwanted(t)
      /\ \A g \in Gids : Unclaimed(t, g) => Unclaimed(t, g)'
  BY <1>1, <1>2, <1>3, ClaimKept
<1>5. CASE NextName(t)
  <2>1. CASE todo[t] = {} /\ Goto(t, "parents") /\ UNCHANGED <<todo, arg>>
    <3>1. pc'[t] = "parents" /\ pc[t] = "next"
      BY <1>1, <1>5, <2>1 DEF NextName, Goto
    <3>2. \A n \in claim[t] : Joined(t, n)'
      BY <1>4, <2>1, <3>1 DEF SyncOk
    <3> QED BY <1>2, <3>1, <3>2 DEF SyncOk
  <2>2. CASE \E n \in todo[t] :
             /\ todo' = [todo EXCEPT ![t] = @ \ {n}]
             /\ With(t, 0, SyncUser[t], n) /\ Goto(t, "find")
    <3>1. PICK n \in todo[t] :
             /\ todo' = [todo EXCEPT ![t] = @ \ {n}]
             /\ With(t, 0, SyncUser[t], n) /\ Goto(t, "find")
      BY <2>2
    <3>2. pc[t] = "next" /\ pc'[t] = "find" /\ arg'[t].n = n /\ todo'[t] = todo[t] \ {n}
      BY <1>1, <1>5, <3>1 DEF NextName, Goto, With
    <3>3. todo[t] \subseteq claim[t] /\ \A k \in claim[t] : k \in todo[t] \/ Joined(t, k)'
      BY <1>4, <3>2 DEF SyncOk
    <3> QED BY <1>2, <3>2, <3>3 DEF SyncOk
  <2> QED BY <1>5, <2>1, <2>2 DEF NextName
<1>6. CASE Find(t)
  <2>1. pc[t] \in {"find", "refind"} /\ UNCHANGED <<groups, edges, todo>>
    BY <1>6 DEF Find, tables
  <2>2. /\ arg[t].n \in claim[t] /\ todo[t] \subseteq claim[t]
        /\ \A n \in claim[t] : n \in todo[t] \/ n = arg[t].n \/ Joined(t, n)'
    BY <1>4, <2>1 DEF SyncOk
  <2>3. CASE \E g \in IdOf(arg[t].n) : arg' = [arg EXCEPT ![t].g = g] /\ Goto(t, "check_group")
    <3>1. PICK g \in Gids : groups[g] = arg[t].n /\ arg' = [arg EXCEPT ![t].g = g] /\ Goto(t, "check_group")
      BY <2>3 DEF IdOf
    <3>2. pc'[t] = "check_group" /\ arg'[t].g = g /\ arg'[t].n = arg[t].n
      BY <1>1, <3>1 DEF Goto, Arg
    <3> QED BY <1>2, <2>1, <2>2, <3>1, <3>2 DEF SyncOk
  <2>4. CASE UNCHANGED arg /\ Goto(t, IF pc[t] = "find" THEN "check_name" ELSE "failed")
    <3>1. pc'[t] \in {"check_name", "failed"}
      BY <1>1, <2>4 DEF Goto
    <3> QED BY <1>2, <2>1, <2>2, <2>4, <3>1 DEF SyncOk
  <2> QED BY <1>6, <2>3, <2>4 DEF Find
<1>7. CASE Parents(t)
  <2>1. /\ pc[t] = "parents" /\ pc'[t] = "revoke" /\ todo'[t] = Above(SyncUser[t]) /\ UNCHANGED <<groups, edges>>
        /\ arg'[t].n = NoName
    BY <1>1, <1>7 DEF Parents, Goto, With, tables
  <2>2. Unwanted(t)' \subseteq Above(SyncUser[t]) /\ \A n \in claim[t] : Joined(t, n)'
    BY <1>4, <2>1 DEF Unwanted, SyncOk
  <2> QED BY <1>2, <2>1, <2>2 DEF SyncOk
<1>8. CASE Revoke(t)
  <2>1. pc[t] = "revoke" /\ UNCHANGED <<groups, edges>> /\ Unwanted(t) \subseteq todo[t]
        /\ \A n \in claim[t] : Joined(t, n)'
    BY <1>4, <1>8 DEF Revoke, tables, SyncOk
  <2>2. CASE todo[t] = {} /\ Goto(t, "done") /\ UNCHANGED <<todo, arg>>
    <3>1. pc'[t] = "done" /\ Unwanted(t)' = {}
      BY <1>1, <1>4, <2>1, <2>2 DEF Goto
    <3> QED BY <1>2, <2>1, <3>1 DEF SyncOk
  <2>3. CASE \E g \in todo[t] :
             /\ todo' = [todo EXCEPT ![t] = @ \ {g}]
             /\ arg' = [arg EXCEPT ![t].g = g]
             /\ Goto(t, IF ~Exists(g) THEN "failed"
                        ELSE IF Unclaimed(t, g) THEN "delete_edge" ELSE "revoke")
    <3>1. PICK g \in todo[t] :
             /\ todo' = [todo EXCEPT ![t] = @ \ {g}]
             /\ arg' = [arg EXCEPT ![t].g = g]
             /\ Goto(t, IF ~Exists(g) THEN "failed"
                        ELSE IF Unclaimed(t, g) THEN "delete_edge" ELSE "revoke")
      BY <2>3
    <3>2. /\ pc'[t] \in {"failed", "delete_edge", "revoke"} /\ todo'[t] = todo[t] \ {g} /\ arg'[t].g = g
          /\ pc'[t] = "delete_edge" => Unclaimed(t, g)
          /\ pc'[t] = "revoke" => ~Unclaimed(t, g)
      BY <1>1, <3>1 DEF Goto, Arg
    <3>3. /\ pc'[t] = "revoke" => Unwanted(t)' \subseteq todo'[t]
          /\ Unwanted(t)' \subseteq todo'[t] \cup {g}
      BY <1>4, <2>1, <3>2 DEF Unwanted
    <3>4. pc'[t] = "delete_edge" => Unclaimed(t, arg[t].g)'
      BY <1>2, <2>1, <3>2 DEF Unclaimed
    <3> QED BY <1>2, <2>1, <3>2, <3>3, <3>4 DEF SyncOk
  <2> QED BY <1>8, <2>2, <2>3 DEF Revoke
<1>9. CASE Commit(t)
  <2>1. /\ pc[t] = "commit" /\ pc'[t] = (IF arg[t].n = NoName THEN "revoke" ELSE "next")
        /\ UNCHANGED <<arg, todo>>
    BY <1>1, <1>9 DEF Commit, Goto, After
  <2> QED BY <1>2, <1>4, <2>1 DEF SyncOk
<1>10. CASE CheckName(t) \/ CommitGroup(t) \/ CheckGroup(t) \/ CheckMember(t)
  <2>1. /\ pc[t] \in {"check_name", "commit_group", "check_group", "check_member"} /\ UNCHANGED <<arg, todo, groups>>
    BY <1>10 DEF CheckName, CommitGroup, CheckGroup, CheckMember, tables
  <2>2. /\ pc'[t] \in {"refind", "insert_group", "check_group", "check_member", "check_edge", "failed"}
        /\ pc[t] = "check_name" => pc'[t] \in {"refind", "insert_group"}
    <3>1. CASE CheckName(t)
      BY <1>1, <3>1 DEF CheckName, NameTaken, Goto
    <3>2. CASE CommitGroup(t)
      BY <1>1, <3>2 DEF CommitGroup, Goto
    <3>3. CASE CheckGroup(t)
      BY <1>1, <3>3 DEF CheckGroup, Raised, Goto
    <3>4. CASE CheckMember(t)
      <4>1. pc[t] = "check_member" /\ arg[t].m \in Users
        BY <1>1, <3>4 DEF CheckMember, SyncAt
      <4>2. pc'[t] = "check_edge"
        BY <1>1, <3>4, <4>1, GidFacts DEF CheckMember, Goto, Exists
      <4> QED BY <4>1, <4>2
    <3> QED BY <1>10, <3>1, <3>2, <3>3, <3>4
  <2>3. /\ arg[t].n \in claim[t] /\ todo[t] \subseteq claim[t]
        /\ \A n \in claim[t] : n \in todo[t] \/ n = arg[t].n \/ Joined(t, n)'
    BY <1>4, <2>1 DEF SyncOk
  <2>4. pc'[t] \in Found => arg'[t].g \in Gids /\ groups'[arg'[t].g] = arg'[t].n
    BY <2>1, <2>2 DEF SyncOk
  <2> QED BY <1>2, <2>1, <2>2, <2>3, <2>4 DEF SyncOk
<1>11. CASE InsertGroup(t)
  <2>1. pc[t] = "insert_group" /\ UNCHANGED todo
    BY <1>11 DEF InsertGroup
  <2>2. /\ arg[t].n \in claim[t] /\ todo[t] \subseteq claim[t]
        /\ \A n \in claim[t] : n \in todo[t] \/ n = arg[t].n \/ Joined(t, n)'
    BY <1>4, <2>1 DEF SyncOk
  <2>3. \/ pc'[t] = "refind" /\ UNCHANGED arg
        \/ /\ pc'[t] = "commit_group" /\ arg'[t].n = arg[t].n /\ arg'[t].g = seq + 1 /\ seq < MaxGroups
           /\ groups' = [groups EXCEPT ![seq + 1] = arg[t].n]
    BY <1>1, <1>11 DEF InsertGroup, NameTaken, Goto, Arg
  <2>4. pc'[t] = "commit_group" => arg'[t].g \in Gids /\ groups'[arg'[t].g] = arg'[t].n
    <3>1. seq < MaxGroups => seq + 1 \in Gids
      BY TypesNow, GidFacts
    <3> QED BY <2>3, <3>1, TypesNow
  <2> QED BY <1>2, <2>1, <2>2, <2>3, <2>4 DEF SyncOk
<1>12. CASE CheckEdge(t) \/ InsertEdge(t)
  <2>1. /\ pc[t] \in {"check_edge", "insert_edge"} /\ UNCHANGED <<arg, todo, groups>> /\ arg[t].m = SyncUser[t]
        /\ edges \subseteq edges' /\ arg[t].n \in claim[t] /\ arg[t].n # NoName
    BY <1>1, <1>12, Kinds DEF CheckEdge, InsertEdge, SetEdges, tables, SyncAt, SyncOk
  <2>2. /\ todo[t] \subseteq claim[t] /\ arg[t].g \in Gids /\ groups[arg[t].g] = arg[t].n
        /\ \A n \in claim[t] : n \in todo[t] \/ n = arg[t].n \/ Joined(t, n)'
    BY <1>4, <2>1 DEF SyncOk
  <2>3. pc'[t] \in {"insert_edge", "next", "commit"} /\ (pc'[t] # "insert_edge" => <<arg[t].g, arg[t].m>> \in edges')
    <3>1. CASE CheckEdge(t)
      BY <1>1, <2>1, <3>1 DEF CheckEdge, Goto, After, Held, tables
    <3>2. CASE InsertEdge(t)
      BY <1>1, <2>1, <3>2 DEF InsertEdge, SetEdges, Goto, After, Held
    <3> QED BY <1>12, <3>1, <3>2
  <2>4. pc'[t] # "insert_edge" => Joined(t, arg[t].n)'
    <3>1. ASSUME pc'[t] # "insert_edge" PROVE <<arg'[t].g, SyncUser[t]>> \in edges' /\ groups'[arg'[t].g] = arg'[t].n
      BY <2>1, <2>2, <2>3, <3>1
    <3> QED BY <2>1, <2>2, <3>1 DEF Joined
  <2>5. pc'[t] # "insert_edge" => \A n \in claim[t] : n \in todo[t] \/ Joined(t, n)'
    <3>1. pc'[t] # "insert_edge" => \A n \in claim[t] : n = arg[t].n => Joined(t, n)'
      BY <2>1, <2>4 DEF Joined
    <3> QED BY <2>2, <3>1
  <2> QED BY <1>2, <2>1, <2>2, <2>3, <2>5 DEF SyncOk
<1>13. CASE DeleteEdge(t)
  <2>1. /\ pc[t] = "delete_edge" /\ UNCHANGED <<arg, todo, groups>> /\ arg[t].m = SyncUser[t] /\ arg[t].n = NoName
        /\ edges' = edges \ {<<arg[t].g, arg[t].m>>} /\ pc'[t] \in {"revoke", "commit"}
    BY <1>1, <1>13 DEF DeleteEdge, SetEdges, SyncAt, Goto, After
  <2>2. Unwanted(t) \subseteq todo[t] \cup {arg[t].g} /\ \A n \in claim[t] : Joined(t, n)'
    BY <1>4, <2>1 DEF SyncOk
  <2>3. arg[t].g \notin Unwanted(t)'
    BY <2>1 DEF Unwanted, Above
  <2>4. Unwanted(t)' \subseteq todo'[t]
    BY <1>4, <2>1, <2>2, <2>3
  <2> QED BY <1>2, <2>1, <2>2, <2>4 DEF SyncOk
<1>14. ~Sync(t) /\ ~Descend(t)
  BY <1>1 DEF Sync, Descend, SyncAt
<1> QED BY <1>2, <1>5, <1>6, <1>7, <1>8, <1>9, <1>10, <1>11, <1>12, <1>13, <1>14 DEF SyncNext, StoreNext

LEMMA SyncInit ==
  ASSUME NEW s \in Starts, GroupsInit(s)
  PROVE  SyncInv
BY Kinds DEF GroupsInit, SyncInv, SyncOk, Joining, Found

LEMMA SyncInvNext ==
  ASSUME GroupsInv, IdInv, SyncInv, GroupsNext
  PROVE  SyncInv'
<1> SUFFICES ASSUME crashes = 0, traffic \subseteq Syncs, OneClaim', NEW s \in Syncs PROVE SyncOk(s)'
  BY WritersMark DEF SyncInv
<1>1. \A t \in Admins : t \notin traffic /\ pc[t] = "idle"
  BY TypesNow, Kinds DEF PhaseInv
<1>2. PICK t \in Syncs : SyncNext(t) \/ StoreNext(t)
  <2>1. ASSUME NEW t \in Admins PROVE ~AdminNext(t) /\ ~StoreNext(t)
    BY <1>1 DEF AdminNext, CreateGroup, AddMember, RemoveMember, BeginOp, DeleteGroup, DeleteRow, PurgeOut,
        PurgeIn, StoreNext, Commit, CheckName, InsertGroup, CommitGroup, CheckGroup, CheckMember, Descend,
        CheckEdge, InsertEdge, DeleteEdge
  <2> QED BY <2>1, Kinds DEF GroupsNext
<1>3. \A q \in Syncs : q # t =>
         pc'[q] = pc[q] /\ arg'[q] = arg[q] /\ todo'[q] = todo[q] /\ claim'[q] = claim[q]
  <2>1. CASE SyncNext(t)
    BY <2>1, Kinds, TypesNow DEF SyncNext, Sync, NextName, Find, Parents, Revoke, Goto, With
  <2>2. CASE StoreNext(t)
    BY <2>2, Kinds, TypesNow DEF StoreNext, Commit, CheckName, InsertGroup, CommitGroup, CheckGroup,
       CheckMember, Descend, CheckEdge, InsertEdge, DeleteEdge, Goto, NameTaken
  <2> QED BY <1>2, <2>1, <2>2
<1>4. CASE pc[t] = "idle"
  <2>1. Sync(t) /\ UNCHANGED <<groups, edges>> /\ t \in Writers
    BY <1>2, <1>4, Kinds DEF SyncNext, Sync, NextName, Find, Parents, Revoke, StoreNext, Commit, CheckName, InsertGroup,
       CommitGroup, CheckGroup, CheckMember, Descend, CheckEdge, InsertEdge, DeleteEdge, tables
  <2>2. OneClaim
    BY <1>3, <1>4 DEF OneClaim
  <2>3. CASE s = t
    <3>1. PICK c \in SUBSET Claimable :
             claim' = [claim EXCEPT ![t] = c] /\ todo' = [todo EXCEPT ![t] = c]
      BY <2>1 DEF Sync
    <3>2. pc'[t] = "next" /\ claim'[t] = c /\ todo'[t] = c
      BY <2>1, <3>1, TypesNow DEF Sync, Goto
    <3> QED BY <2>3, <3>2 DEF SyncOk, Joining, Found
  <2>4. CASE s # t
    <3>1. SyncOk(s)
      BY <2>2 DEF SyncInv
    <3>2. pc'[s] = pc[s] /\ arg'[s] = arg[s] /\ todo'[s] = todo[s] /\ claim'[s] = claim[s]
      BY <1>3, <2>4
    <3>3. Reconciled(claim[s]) /\ claim[s] \subseteq Claimable /\ SyncAt(s, pc[s], arg[s], todo[s])
      BY <2>1, TypesNow DEF Reconciled
    <3> QED BY <3>1, <3>2, <3>3, SyncStays
  <2> QED BY <2>3, <2>4
<1>5. CASE pc[t] # "idle"
  <2>1. claim' = claim
    BY <1>2, <1>5 DEF SyncNext, Sync, NextName, Find, Parents, Revoke, StoreNext, Commit, CheckName, InsertGroup,
       CommitGroup, CheckGroup, CheckMember, Descend, CheckEdge, InsertEdge, DeleteEdge
  <2>2. pc'[t] # "idle"
    <3>1. CASE SyncNext(t)
      BY <1>5, <3>1, TypesNow, Kinds DEF SyncNext, Sync, NextName, Find, Parents, Revoke, Goto
    <3>2. CASE StoreNext(t)
      <4>1. t \notin Admins /\ t \in Writers /\ pc \in [Writers -> Places]
        BY Kinds, TypesNow
      <4>2. CASE CheckMember(t)
        BY <4>1, <4>2, GidFacts DEF CheckMember, Goto, Raised, Exists
      <4>3. CASE ~CheckMember(t)
        BY <3>2, <4>1, <4>3 DEF StoreNext, Commit, CheckName, InsertGroup, CommitGroup, CheckGroup,
           Descend, CheckEdge, InsertEdge, DeleteEdge, Goto, NameTaken, After, Raised
      <4> QED BY <4>2, <4>3
    <3> QED BY <1>2, <3>1, <3>2
  <2>3. OneClaim
    BY <1>3, <2>1, <2>2 DEF OneClaim
  <2>4. SyncOk(t) /\ SyncOk(s)
    BY <2>3 DEF SyncInv
  <2>5. CASE s = t
    BY <1>2, <1>5, <2>4, <2>5, SyncMoves
  <2>6. CASE s # t
    <3>1. pc'[s] = pc[s] /\ arg'[s] = arg[s] /\ todo'[s] = todo[s] /\ claim'[s] = claim[s]
      BY <1>3, <2>6
    <3>2. CASE pc[s] = "idle"
      BY <3>1, <3>2 DEF SyncOk, Joining, Found
    <3>3. CASE pc[s] # "idle"
      <4>1. claim[s] = claim[t]
        BY <1>5, <2>3, <3>3 DEF OneClaim
      <4>2. Reconciled(claim[s]) /\ claim[s] \subseteq Claimable /\ SyncAt(s, pc[s], arg[s], todo[s])
        BY <1>2, <2>4, <4>1, Reconciles, TypesNow
      <4> QED BY <2>4, <3>1, <4>2, SyncStays
    <3> QED BY <3>2, <3>3
  <2> QED BY <2>5, <2>6
<1> QED BY <1>4, <1>5

LEMMA SyncGives ==
  ASSUME GroupsInv, SyncInv
  PROVE  SyncReconciles
<1> SUFFICES ASSUME NEW t \in Syncs, pc[t] = "done", crashes = 0, traffic \subseteq Syncs,
                    \A s \in Syncs : pc[s] = "done" => claim[s] = claim[t],
                    \A s \in Syncs : pc[s] \in {"idle", "done"}
             PROVE  {groups[g] : g \in Above(SyncUser[t])} \cap Claimable = claim[t]
  BY DEF SyncReconciles
<1>1. OneClaim
  BY DEF OneClaim
<1>2. SyncOk(t) /\ claim[t] \subseteq Claimable
  BY <1>1, TypesNow DEF SyncInv
<1>3. Unwanted(t) = {} /\ \A n \in claim[t] : Joined(t, n)
  BY <1>2 DEF SyncOk
<1>4. ASSUME NEW g \in Above(SyncUser[t]), groups[g] \in Claimable PROVE groups[g] \in claim[t]
  BY <1>3, <1>4 DEF Unwanted, Unclaimed
<1>5. ASSUME NEW n \in claim[t] PROVE \E g \in Above(SyncUser[t]) : groups[g] = n
  BY <1>3, <1>5 DEF Joined, Above
<1> QED BY <1>2, <1>4, <1>5
=============================================================================
