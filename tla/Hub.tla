-------------------------------- MODULE Hub --------------------------------
(***************************************************************************)
(* The hub of the file server's devices: the registrations of the           *)
(* ConnectionManager, the handler of one WebSocket, and broadcasts, which   *)
(* send to a snapshot of the registrations one device after the other and   *)
(* afterwards remove every device whose send failed.                        *)
(***************************************************************************)
EXTENDS Integers, FiniteSets, Sequences

CONSTANTS
    Devices,     \* device ids the clients present
    Sockets,     \* WebSocket connections, each used once
    DeviceOf,    \* the device each presents
    NoSocket,    \* no registration
    Callers,     \* requests of the HTTP interface, which broadcast too
    Starts       \* what a behaviour starts with: who comes, are departures
                 \* noticed, may the store fail, the snippets there are

Actors == Sockets \cup Callers

ASSUME HubAssumption ==
    /\ DeviceOf \in [Sockets -> Devices]
    /\ NoSocket \notin Sockets /\ Sockets \cap Callers = {}

VARIABLES
    start,    \* the start that was chosen
    conn,     \* active_connections (and devices, which has the same keys)
    newest,   \* the socket that registered last for each device, if no
              \* broadcast has removed the device since
    up,       \* sockets whose peer is there
    hpc,      \* where each handler is
    todo,     \* broadcast: <<device, socket>> still to be sent to
    dead      \* broadcast: devices whose send failed

hub == <<conn, newest, up, hpc, todo, dead>>

Handling == {"list", "toast", "count", "loop", "update", "push"}   \* inside the handler's try
Leaving == {"bye_toast", "bye_count"}
Casting == {"toast", "count", "push"} \cup Leaving
HandlerPlaces == {"new", "end"} \cup Handling \cup Leaving

Live(c) == {p \in Devices \X Sockets : c[p[1]] = p[2]}
At(s, place) == hpc' = [hpc EXCEPT ![s] = place]

\* broadcast and broadcast_all of actor a, over the registrations c.
Cast(a, c, exclude) ==
    /\ todo' = [todo EXCEPT ![a] = {p \in Live(c) : p[1] # exclude}]
    /\ dead' = [dead EXCEPT ![a] = {}]
Quiet == UNCHANGED <<todo, dead>>

\* Sending to a peer that left fails once the handler has ended, and before
\* that if the transport has noticed.
SendOk(s) == s \in up \/ hpc[s] # "end"
SendFails(s) == s \notin up /\ (start.notices \/ hpc[s] = "end")

CastSend(a) ==
    /\ \E p \in todo[a] :
          /\ todo' = [todo EXCEPT ![a] = @ \ {p}]
          /\ \/ SendOk(p[2]) /\ UNCHANGED dead
             \/ SendFails(p[2]) /\ dead' = [dead EXCEPT ![a] = @ \cup {p[1]}]
    /\ UNCHANGED <<conn, newest, up, hpc>>

\* A broadcast ends: it removes the devices it found dead, by their ids.
Purge(a) ==
    /\ conn' = [d \in Devices |-> IF d \in dead[a] THEN NoSocket ELSE conn[d]]
    /\ newest' = [d \in Devices |-> IF d \in dead[a] THEN NoSocket ELSE newest[d]]
-----------------------------------------------------------------------------
(***************************************************************************)
(* One handler of /ws.                                                      *)
(***************************************************************************)
\* Without a valid session the socket is closed with 4001.
Reject(s) ==
    /\ s \in start.who /\ hpc[s] = "new" /\ At(s, "end")
    /\ UNCHANGED <<conn, newest, up, todo, dead>>

\* accept, registration, and the send of the device list up to its await.
Connect(s) ==
    /\ s \in start.who /\ hpc[s] = "new" /\ At(s, "list")
    /\ up' = up \cup {s}
    /\ conn' = [conn EXCEPT ![DeviceOf[s]] = s]
    /\ newest' = [newest EXCEPT ![DeviceOf[s]] = s]
    /\ Quiet

\* The finally clause: only the registered socket takes its device down.
\* Mutant: without the test whether it is the registered one.
TeardownAlways(s) ==
    /\ conn' = [conn EXCEPT ![DeviceOf[s]] = NoSocket]
    /\ Cast(s, conn', NoSocket) /\ At(s, "bye_toast")
Teardown(s) ==
    \/ /\ conn[DeviceOf[s]] = s
       /\ conn' = [conn EXCEPT ![DeviceOf[s]] = NoSocket]
       /\ Cast(s, conn', NoSocket) /\ At(s, "bye_toast")
    \/ conn[DeviceOf[s]] # s /\ At(s, "end") /\ UNCHANGED conn /\ Quiet

\* The list is sent; devices[device_id] raises if the device was removed since.
Listed(s) ==
    /\ hpc[s] = "list"
    /\ \/ /\ SendOk(s) /\ conn[DeviceOf[s]] # NoSocket
          /\ Cast(s, conn, DeviceOf[s]) /\ At(s, "toast") /\ UNCHANGED <<conn, up>>
       \/ /\ SendFails(s) \/ conn[DeviceOf[s]] = NoSocket
          /\ Teardown(s) /\ up' = up \ {s}
    /\ UNCHANGED newest

\* The end of a broadcast, and what the handler does next.
CastEnd(s) ==
    /\ hpc[s] \in Casting /\ todo[s] = {} /\ Purge(s)
    /\ \/ hpc[s] = "toast" /\ At(s, "count") /\ Cast(s, conn', NoSocket)
       \/ hpc[s] \in {"count", "push"} /\ At(s, "loop") /\ Quiet
       \/ hpc[s] = "bye_toast" /\ At(s, "bye_count") /\ Cast(s, conn', NoSocket)
       \/ hpc[s] = "bye_count" /\ At(s, "end") /\ Quiet
    /\ UNCHANGED up

\* The peer goes away; the handler learns of it when it receives.
Leave(s) ==
    /\ s \in up /\ up' = up \ {s}
    /\ UNCHANGED <<conn, newest, hpc, todo, dead>>
\* Mutant: the loop ends without the finally clause.
DisconnectIgnored(s) ==
    /\ hpc[s] = "loop" /\ s \notin up /\ At(s, "end")
    /\ UNCHANGED <<conn, newest, up, todo, dead>>
Disconnected(s) ==
    /\ hpc[s] = "loop" /\ s \notin up /\ Teardown(s)
    /\ UNCHANGED <<newest, up>>

HandlerNext(s) == Connect(s) \/ Listed(s) \/ CastSend(s) \/ CastEnd(s) \/ Disconnected(s)
HubNext(s) == Reject(s) \/ Leave(s) \/ HandlerNext(s)

HubInit ==
    /\ conn = [d \in Devices |-> NoSocket] /\ newest = [d \in Devices |-> NoSocket]
    /\ up = {} /\ hpc = [s \in Sockets |-> "new"]
    /\ todo = [a \in Actors |-> {}] /\ dead = [a \in Actors |-> {}]

\* The server stops and starts again with no connection.
HubRestart ==
    /\ conn' = [d \in Devices |-> NoSocket] /\ newest' = [d \in Devices |-> NoSocket]
    /\ up' = {} /\ hpc' = [s \in Sockets |-> IF hpc[s] = "new" THEN "new" ELSE "end"]
    /\ todo' = [a \in Actors |-> {}] /\ dead' = [a \in Actors |-> {}]
-----------------------------------------------------------------------------
(***************************************************************************)
(* Properties.                                                              *)
(***************************************************************************)
\* Every variable has its type; a device is registered with a socket of its own.
HubTypeOK ==
    /\ start \in Starts
    /\ conn \in [Devices -> Sockets \cup {NoSocket}]
    /\ newest \in [Devices -> Sockets \cup {NoSocket}]
    /\ up \in SUBSET Sockets /\ hpc \in [Sockets -> HandlerPlaces]
    /\ todo \in [Actors -> SUBSET (Devices \X Sockets)] /\ dead \in [Actors -> SUBSET Devices]
    /\ \A d \in Devices : conn[d] # NoSocket => DeviceOf[conn[d]] = d

\* No device stays listed after the handler of its socket has ended, whatever
\* broadcasts, newer sockets and failures came between.
NoGhost == \A d \in Devices : conn[d] # NoSocket => hpc[conn[d]] \in Handling

\* is_current_connection: "The first tab's teardown must not evict the newer
\* connection": the newest socket of a device, while it is served and its peer
\* is there, is the registered one, unless a broadcast has failed on the device.
NewestRegistered ==
    \A s \in up : hpc[s] = "loop" /\ newest[DeviceOf[s]] = s => conn[DeviceOf[s]] = s

\* A device whose peer left is eventually no longer registered with that socket.
GoneIsForgotten == \A s \in Sockets : s \notin up ~> conn[DeviceOf[s]] # s
=============================================================================
