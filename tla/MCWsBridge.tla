----------------------------- MODULE MCWsBridge -----------------------------
(* Instances of WsBridge for TLC. *)
EXTENDS WsBridge

M(kind, n, big) == [kind |-> kind, n |-> n, big |-> big]
\* Both kinds from both ends; the app's last message is too large for a frame.
Talk == [e \in Ends |-> IF e = "browser" THEN <<M("text", 1, FALSE), M("bytes", 2, FALSE)>>
                        ELSE <<M("bytes", 1, FALSE), M("text", 2, TRUE)>>]

S(local, breaks, full, accepts) == [local |-> local, breaks |-> breaks, full |-> full, accepts |-> accepts]
Mounts == {S(TRUE, FALSE, FALSE, TRUE), S(TRUE, FALSE, FALSE, FALSE), S(FALSE, FALSE, FALSE, TRUE),
           S(FALSE, TRUE, FALSE, TRUE), S(FALSE, TRUE, FALSE, FALSE), S(FALSE, FALSE, TRUE, TRUE)}
=============================================================================
