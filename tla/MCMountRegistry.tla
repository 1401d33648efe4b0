--------------------------- MODULE MCMountRegistry ---------------------------
(* Instances of MountRegistry for TLC. *)
EXTENDS MountRegistry, TLC

CONSTANTS k1, k2, c1, c2, ip1, ip2, lo, ann

\* Every socket from one address and without an account, or each from its
\* own address and all of one account.
OneIp == [k \in Conns |-> ip1]
TwoIps == [k \in Conns |-> IF k = k1 THEN ip1 ELSE ip2]
Anonymous == [k \in Conns |-> NoOwner]
OneOwner == [k \in Conns |-> ann]

CodeSymmetry == Permutations(Codes \ {Dropbox})
=============================================================================
