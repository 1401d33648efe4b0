------------------------------ MODULE MCFiles ------------------------------
(* Instances of Files for TLC. *)
EXTENDS Files

MCTmp == [n \in Names |-> IF n = "f" THEN "f.tmp" ELSE "tmp"]
MCAlt == [n \in Names |-> IF n = "f" THEN <<"f_1", "f_2">> ELSE <<"f_2">>]
Sizes == [u \in Requests |-> IF u = "u1" THEN 2 ELSE 1]

R(kind, files, mode) ==
    [kind |-> kind, files |-> files, mode |-> mode, ttl |-> TRUE, declared |-> FALSE, user |-> "ann"]
Off == R("none", <<"f">>, "none")
S(r1, r2, old, rows) ==
    [req |-> [u \in Requests |-> IF u = "u1" THEN r1 ELSE r2], old |-> old, rows |-> rows,
     deletes |-> {}, folders |-> {}, renames |-> {}, crash |-> FALSE]

Ordinary == {
    \* an overwrite while the sweep, a rename and crashes go on
    [S(R("api", <<"f">>, "overwrite"), Off, {"f", "g"}, {"f", "g"}) EXCEPT !.crash = TRUE],
    [S(R("api", <<"f">>, "overwrite"), Off, {"f"}, {}) EXCEPT !.renames = {<<"f", "g">>}, !.deletes = {"f", "g", "../h"}, !.crash = TRUE],
    \* two uploads of one name
    [S(R("api", <<"f">>, "none"), R("api", <<"f">>, "none"), {}, {}) EXCEPT !.deletes = {"f"}],
    [S(R("share", <<"f">>, "rename"), [R("api", <<"f">>, "none") EXCEPT !.ttl = FALSE, !.user = ""], {"f"}, {}) EXCEPT !.deletes = {"f"}],
    S(R("api", <<"f">>, "overwrite"), R("api", <<"f">>, "overwrite"), {"f"}, {}),
    \* several files, one of which is refused
    [S(R("api", <<"g", "f">>, "skip"), R("api", <<"h", "../h">>, "none"), {"g"}, {"g"}) EXCEPT !.deletes = {"f"}, !.crash = TRUE],
    \* a folder takes the name
    [S(R("api", <<"f">>, "overwrite"), Off, {"f"}, {"f"}) EXCEPT !.deletes = {"f"}, !.folders = {"f"}, !.crash = TRUE],
    [S(R("api", <<"f">>, "none"), Off, {}, {}) EXCEPT !.folders = {"f"}, !.renames = {<<"f", "g">>}],
    \* a user's storage
    S(R("mine", <<"f", "g">>, "none"), R("mine", <<"h">>, "none"), {}, {}),
    S([R("mine", <<"f">>, "none") EXCEPT !.declared = TRUE], [R("mine", <<"h">>, "none") EXCEPT !.declared = TRUE], {"g"}, {}),
    [S(R("mine", <<"f", "g">>, "overwrite"), R("mine", <<"h", "g">>, "none"), {"f"}, {}) EXCEPT !.deletes = {"h"}],
    S(R("mine", <<"f", "g">>, "skip"), Off, {"g"}, {})}
\* An upload that skips a file the user has.
Skips == {S(R("mine", <<"f", "g">>, "skip"), Off, {"g"}, {})}
\* Every request overwrites the same file.
Overwrites == {S(R("api", <<"f">>, "overwrite"), R("api", <<"f">>, "overwrite"), {"f"}, {})}
=============================================================================
