---------------------------- MODULE HttpExchange ----------------------------
(***************************************************************************)
(* What the relay promises a visitor, without tunnel, frames or agent: a    *)
(* request is answered with an error, or its response is streamed in order, *)
(* each frame once.  A response ends early only when the tunnel was torn    *)
(* down.  Each request is independent of the others.                        *)
(***************************************************************************)
EXTENDS Integers, Sequences

CONSTANTS
    Reqs,     \* requests
    RespLen   \* frames of a response body

VARIABLES
    phase,    \* of each request
    body,     \* the response frames its browser got
    broken    \* the tunnel was torn down

exchange == <<phase, body, broken>>

Phases == {"idle", "waiting", "streaming", "failed", "complete", "left"}

EInit ==
    /\ phase = [r \in Reqs |-> "idle"]
    /\ body = [r \in Reqs |-> <<>>]
    /\ broken = FALSE

Enter(r, from, to) == phase[r] = from /\ phase' = [phase EXCEPT ![r] = to]

Change(r) ==
    \/ Enter(r, "idle", "waiting")
    \/ Enter(r, "idle", "failed")
    \/ Enter(r, "waiting", "failed")
    \/ Enter(r, "waiting", "streaming")
    \/ Enter(r, "waiting", "left")
    \/ Enter(r, "streaming", "left")
    \/ Enter(r, "streaming", "complete") /\ (broken \/ Len(body[r]) = RespLen)

Deliver(r) ==
    /\ phase[r] = "streaming" /\ Len(body[r]) < RespLen
    /\ body' = [body EXCEPT ![r] = Append(@, Len(@) + 1)]

ENext ==
    \/ \E r \in Reqs : Change(r) /\ UNCHANGED <<body, broken>>
    \/ \E r \in Reqs : Deliver(r) /\ UNCHANGED <<phase, broken>>
    \/ ~broken /\ broken' = TRUE /\ UNCHANGED <<phase, body>>

ESpec == EInit /\ [][ENext]_exchange
=============================================================================
