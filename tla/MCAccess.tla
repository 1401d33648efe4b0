------------------------------ MODULE MCAccess ------------------------------
(* Instances of Access for TLC. *)
EXTENDS Access

CONSTANTS ann, bob, w1, w2, e1, d1, s1, s2, k1, q1, r1, r2, n1, n2, eng, ops_

SyncBob == [t \in Syncs |-> bob]
BobOrNobody == [w \in Walkers |-> IF w = w1 THEN bob ELSE NoName]
Three == <<n1, n2, eng>>
BobAsks == [q \in Requests |-> bob]
AnnResolves == [r \in Resolvers |-> ann]

\* All acyclic nestings of the three groups, with bob in any of them.
Old == 1..3
Nestings == {x \in SUBSET (Old \X Old) : ~HasCycle(x)}
AllGraphs == {x \cup (gs \X {bob}) : x \in Nestings, gs \in SUBSET Old}
\* bob in the first, which is in both of the others; a chain; flat.
SomeGraphs == {{<<1, bob>>, <<2, 1>>, <<3, 1>>}, {<<1, bob>>, <<2, 1>>, <<3, 2>>}, {<<3, bob>>}}

OfMode(m, p) == [owner |-> ann, mode |-> m, pw |-> p]
Open == [mount |-> OfMode("open", FALSE), entries |-> {}]
Shut == [mount |-> OfMode("restricted", FALSE),
         entries |-> {[subject |-> 3, role |-> "write"], [subject |-> bob, role |-> "read"]}]
Fallback == [mount |-> OfMode("restricted", TRUE), entries |-> {[subject |-> 2, role |-> "receive"]}]
Legacy == [mount |-> [owner |-> NoName, mode |-> "legacy", pw |-> FALSE], entries |-> {}]
Gone == [mount |-> NoMount, entries |-> {}]
AgentPolicies == {Shut, Fallback}

Start(who, graphs, policies) == [who |-> who, graphs |-> graphs, policies |-> policies]
\* One admin at a time; deletions and sign-ins apart; approvals and agents apart.
Ordinary == {
    Start({w1, w2}, AllGraphs, {Open, Shut, Fallback, Legacy, Gone}),
    Start({d1, w1}, SomeGraphs, {Shut}),
    Start({e1, s1}, SomeGraphs, {Open}),
    Start({s1, s2}, SomeGraphs, {Open}),
    Start({k1, w1}, SomeGraphs, {Shut, Gone}),
    Start({k1, w2, Sweep}, {{}}, {Open, Shut, Gone}),
    Start({q1, r1, r2, Sweep}, {{}}, {Fallback, Legacy})}
=============================================================================
