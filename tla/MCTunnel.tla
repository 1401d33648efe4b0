------------------------------ MODULE MCTunnel ------------------------------
(* Model values for model checking Tunnel. *)
EXTENDS Tunnel, TLC

CONSTANTS r1, r2, noReq

OneReq == {r1}
TwoReqs == {r1, r2}
NoSide == {}
NoSlow == {}
RelayBeats == {"relay"}
EveryFault == {"abort", "leave", "lost", "close", "app"}
Breaks == {"lost", "close", "prompt"}
=============================================================================
