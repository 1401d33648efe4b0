------------------------------ MODULE MCSignIn ------------------------------
(* Instances of SignIn for TLC. *)
EXTENDS SignIn

CONSTANTS f1, f2, s1, s2, l1, l2, a1, b1, b2, sub1, sub2, ann

\* Everybody is called ann.
AllAnn == [s \in Subjects |-> ann]
OnePerson == [t \in Flows |-> sub1]
TwoPeople == [t \in Flows |-> IF t = f1 THEN sub1 ELSE sub2]
Where == [t \in Flows \cup Logins |-> IF t = f1 THEN b1 ELSE b2]
AnnNames == {<<ann, 1>>, <<ann, 2>>}
TwoEarly == <<s1, s2>>
NoEarly == <<>>

\* One person signs in while others sign up, log in or are disabled; or one
\* person signs in twice at once.
Ordinary == {{f1, s1, l1, a1}, {s1, s2, l1, l2}, {f1, l1, l2}, {f1, f2}}
TwoSignups == {{f1, s1, s2}}
\* Two people sign in at once: refutes OwnAccount (Subject <- TwoPeople).
TwoSignOns == {{f1, f2}}
=============================================================================
