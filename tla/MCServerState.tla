--------------------------- MODULE MCServerState ---------------------------
(* Instances of ServerState for TLC. *)
EXTENDS ServerState

CONSTANTS phone, laptop, s1, s2, s3, c1, v1, l1, q1, f1, f2, x1, n1, n2, t1, k1

\* Two tabs of the phone, and the laptop.
Tabs == [s \in Sockets |-> IF s = s3 THEN laptop ELSE phone]
Mine == [c \in Askers \cup Dismissers |-> phone]

Empty == [i \in Sids |-> NoRow]
Full == [i \in Sids |-> IF i = 1 THEN [title |-> "t", content |-> Blank] ELSE NoRow]
Start(who, notices, fails, snips) == [who |-> who, notices |-> notices, fails |-> fails, snips |-> snips]
Ordinary == {
    Start({c1, v1, l1}, FALSE, FALSE, Empty), Start({c1, v1}, FALSE, TRUE, Empty),
    Start({s1, s2}, FALSE, FALSE, Empty), Start({s1, s3}, TRUE, FALSE, Empty),
    \* a page is loaded again while a broadcast is under way
    Start({s1, s2}, TRUE, FALSE, Empty),
    Start({q1, f1, f2, x1}, FALSE, FALSE, Empty), Start({q1, f1, s1}, TRUE, FALSE, Empty),
    Start({n1, n2, k1}, FALSE, FALSE, Full), Start({n1, n2, k1}, FALSE, FALSE, Empty),
    Start({t1, s1}, TRUE, FALSE, Full), Start({t1, k1, s1}, TRUE, FALSE, Full)}
=============================================================================
