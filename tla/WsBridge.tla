------------------------------ MODULE WsBridge ------------------------------
(***************************************************************************)
(* One visitor's WebSocket to an app behind a mount.  Through the tunnel it *)
(* passes two bridges, proxy_websocket on the relay and handle_ws_open_frame*)
(* on the agent; to a mount the relay serves itself it passes one,          *)
(* LocalAsgiMount.bridge_websocket.  The three are alike: two tasks pump    *)
(* messages, "down" from the browser to the app and "up" from the app to    *)
(* the browser, until one of them ends; then the other is cancelled and the *)
(* bridge leaves.  A step runs one task from an await to its next.  The     *)
(* queues hold every message here; what a full one does is in Tunnel.       *)
(***************************************************************************)
EXTENDS Naturals, Sequences, SequencesExt

CONSTANTS
    Script,     \* the messages each end may send, in order: "browser", "app"
    Starts      \* is the mount local, may the tunnel break, is a stream left,
                \* does the app accept

Ends == {"browser", "app"}
Bridges == {"relay", "agent", "local"}
Ways == {"down", "up"}
Sides == {"relay", "agent"}   \* ends of the tunnel
Kinds == {"text", "bytes"}

\* A message has a kind, a number, and may be above MAX_PAYLOAD_BYTES.
Message == [kind : Kinds, n : Nat, big : BOOLEAN]
ASSUME BridgeAssumption ==
    /\ Script \in [Ends -> Seq(Message)]
    /\ \A e \in Ends : \A i \in DOMAIN Script[e] : Script[e][i].n = i
    /\ Starts \subseteq [local : BOOLEAN, breaks : BOOLEAN, full : BOOLEAN, accepts : BOOLEAN]

VARIABLES
    start,
    said,      \* messages each end has sent
    heard,     \* messages each end got
    open,      \* ends whose socket is open
    quit,      \* ends that closed theirs themselves
    pc,        \* where each bridge is
    alive,     \* its tasks that run
    box, fin,  \* what a task reads from, and whether that has ended
    hold,      \* the message it is sending
    up, wire,  \* the tunnel, and the frames on their way to each side
    reg,       \* sides that have the stream in _streams
    shut,      \* sides that have torn the connection down (_closed)
    snapped    \* tasks that ended with an exception

ends == <<said, heard, open, quit>>
tasks == <<alive, box, fin, hold>>
tunnel == <<up, wire, reg, shut>>
vars == <<start, ends, pc, tasks, tunnel, snapped>>

Way(e) == IF e = "browser" THEN "down" ELSE "up"
Used == IF start.local THEN {"local"} ELSE {"relay", "agent"}
\* The bridge an end's socket leads to, and the end a bridge's task sends to.
Entry(e) == IF start.local THEN "local" ELSE IF e = "browser" THEN "relay" ELSE "agent"
FarEnd(d) == IF d = "down" THEN "app" ELSE "browser"
ToTunnel(b, d) == <<b, d>> \in {<<"relay", "down">>, <<"agent", "up">>}
Other(s) == IF s = "relay" THEN "agent" ELSE "relay"
\* The task that reads the stream of a side.
Reader(s) == IF s = "relay" THEN "up" ELSE "down"

Goto(b, place) == pc' = [pc EXCEPT ![b] = place]
\* The end sees its socket closed.
CloseEnd(e) == open' = open \ {e}
-----------------------------------------------------------------------------
(***************************************************************************)
(* The payload of WS_DATA: a marker byte and the message.                   *)
(***************************************************************************)
Encode(m) == [marker |-> IF m.kind = "text" THEN 0 ELSE 1, n |-> m.n, big |-> m.big]
\* Mutant: every message goes on as text.
DecodeText(p) == [kind |-> "text", n |-> p.n, big |-> p.big]
Decode(p) == [kind |-> IF p.marker = 0 THEN "text" ELSE "bytes", n |-> p.n, big |-> p.big]
-----------------------------------------------------------------------------
(***************************************************************************)
(* The ends.                                                                *)
(***************************************************************************)
EndStep == UNCHANGED <<start, pc, alive, hold, tunnel, snapped>>
Say(e) ==
    /\ e \in open /\ Len(said[e]) < Len(Script[e])
    /\ said' = [said EXCEPT ![e] = Append(@, Script[e][Len(@) + 1])]
    /\ box' = [box EXCEPT ![Entry(e)][Way(e)] = Append(@, Script[e][Len(said[e]) + 1])]
    /\ UNCHANGED <<heard, open, quit, fin>> /\ EndStep
Leave(e) ==
    /\ e \in open /\ CloseEnd(e) /\ quit' = quit \cup {e}
    /\ fin' = [fin EXCEPT ![Entry(e)][Way(e)] = TRUE]
    /\ UNCHANGED <<said, heard, box>> /\ EndStep
-----------------------------------------------------------------------------
(***************************************************************************)
(* The tunnel.  Only frames of this stream are shown.                       *)
(***************************************************************************)
\* A send into a tunnel that is down but not yet seen to be is lost.
Send(s, f) == wire' = IF up THEN [wire EXCEPT ![s] = Append(@, f)] ELSE wire
TunnelStep == UNCHANGED <<start, ends, alive, hold, up, snapped>>
Take(s, kind) == wire[s] # <<>> /\ Head(wire[s]).kind = kind /\ wire' = [wire EXCEPT ![s] = Tail(@)]
\* on_ws_open registers the stream before it spawns the bridge.
OnWsOpen ==
    /\ Take("agent", "open") /\ reg' = reg \cup {"agent"}
    /\ Goto("agent", "connect") /\ UNCHANGED <<box, fin, shut>> /\ TunnelStep
\* _dispatch_frame; frames of a stream that is gone are ignored.
OnData(s) ==
    /\ Take(s, "data")
    /\ box' = IF s \in reg THEN [box EXCEPT ![s][Reader(s)] = Append(@, Head(wire[s]).payload)] ELSE box
    /\ UNCHANGED <<pc, fin, reg, shut>> /\ TunnelStep
OnClose(s) ==
    /\ Take(s, "close")
    /\ fin' = IF s \in reg THEN [fin EXCEPT ![s][Reader(s)] = TRUE] ELSE fin
    /\ UNCHANGED <<pc, box, reg, shut>> /\ TunnelStep
Lose ==
    /\ start.breaks /\ up /\ up' = FALSE /\ wire' = [s \in Sides |-> <<>>]
    /\ UNCHANGED <<start, ends, pc, tasks, reg, shut, snapped>>
\* _tear_down of a side that has learned of it, once.
\* Mutant: the stream is forgotten and its reader not told.
ForgetOnly(s) ==
    /\ ~up /\ s \notin shut /\ shut' = shut \cup {s} /\ reg' = reg \ {s}
    /\ UNCHANGED <<pc, box, fin, wire>> /\ TunnelStep
TearDown(s) ==
    /\ ~up /\ s \notin shut /\ shut' = shut \cup {s} /\ reg' = reg \ {s}
    /\ fin' = IF s \in reg THEN [fin EXCEPT ![s][Reader(s)] = TRUE] ELSE fin
    /\ UNCHANGED <<pc, box, wire>> /\ TunnelStep
-----------------------------------------------------------------------------
(***************************************************************************)
(* How a bridge starts.                                                     *)
(***************************************************************************)
StartTasks(b, ways) == Goto(b, "run") /\ alive' = [alive EXCEPT ![b] = ways]
StartStep == UNCHANGED <<start, said, heard, quit, box, fin, hold, up, shut, snapped>>
\* authorize and get_connection, or the local mount; a refused visitor is closed.
Visit ==
    /\ pc[Entry("browser")] = "idle"
    /\ \/ start.local /\ Goto("local", "connect") /\ UNCHANGED open
       \/ ~start.local /\ "relay" \notin shut /\ Goto("relay", "dial") /\ UNCHANGED open
       \/ ~start.local /\ Goto("relay", "done") /\ CloseEnd("browser")
    /\ UNCHANGED <<alive, wire, reg>> /\ StartStep
\* open_stream and WS_OPEN.  Without room, or tunnel, the browser is closed.  The
\* connection may have been torn down since get_connection: open_stream does not look.
Dial ==
    /\ pc["relay"] = "dial"
    /\ \/ /\ ~start.full /\ reg' = reg \cup {"relay"} /\ Send("agent", [kind |-> "open"])
          /\ StartTasks("relay", Ways) /\ UNCHANGED open
       \/ /\ (~up \/ start.full) /\ Goto("relay", "done") /\ CloseEnd("browser")
          /\ UNCHANGED <<alive, wire, reg>>
    /\ StartStep
\* aconnect_ws; a stream torn down meanwhile has no reader (StreamNotFoundError).
\* When the app refuses, the agent goes on to WS_CLOSE: the
\* remove_stream of the inner finally clause is not reached.
Connect(b) ==
    /\ pc[b] = "connect"
    /\ IF start.accepts
       THEN StartTasks(b, IF b = "local" \/ b \in reg THEN Ways ELSE {"up"}) /\ open' = open \cup {"app"}
       ELSE /\ Goto(b, IF b = "agent" THEN "bye" ELSE "done") /\ UNCHANGED alive
            /\ open' = IF b = "agent" THEN open ELSE open \ {"browser"}
    /\ UNCHANGED <<wire, reg>> /\ StartStep
-----------------------------------------------------------------------------
(***************************************************************************)
(* The two tasks of a bridge.                                               *)
(***************************************************************************)
TaskStep == UNCHANGED <<start, said, open, quit, pc, up, shut>>
Receive(b, d) ==
    /\ d \in alive[b] /\ hold[b][d] = <<>> /\ box[b][d] # <<>>
    /\ hold' = [hold EXCEPT ![b][d] = <<Head(box[b][d])>>]
    /\ box' = [box EXCEPT ![b][d] = Tail(@)]
    /\ UNCHANGED <<heard, alive, fin, wire, reg, snapped>> /\ TaskStep
\* The browser disconnected, the stream or the local socket was closed: what
\* came before has been passed on.
\* Mutant: a closed stream is left at once.
FinishAtOnce(b, d) ==
    /\ d \in alive[b] /\ hold[b][d] = <<>> /\ fin[b][d]
    /\ alive' = [alive EXCEPT ![b] = @ \ {d}]
    /\ reg' = IF d = Reader(b) THEN reg \ {b} ELSE reg
    /\ UNCHANGED <<heard, box, fin, hold, wire, snapped>> /\ TaskStep
Finish(b, d) ==
    /\ d \in alive[b] /\ hold[b][d] = <<>> /\ box[b][d] = <<>> /\ fin[b][d]
    /\ alive' = [alive EXCEPT ![b] = @ \ {d}]
    /\ reg' = IF d = Reader(b) THEN reg \ {b} ELSE reg
    /\ UNCHANGED <<heard, box, fin, hold, wire, snapped>> /\ TaskStep
Held(b, d) == hold[b][d][1]
ToEnd(b, d) == IF b \in Sides THEN Decode(Held(b, d)) ELSE Held(b, d)
\* send_ws_data, or a send to the end; one that is gone may still take it.
Forward(b, d) ==
    /\ d \in alive[b] /\ hold[b][d] # <<>>
    /\ hold' = [hold EXCEPT ![b][d] = <<>>]
    /\ IF ToTunnel(b, d)
       THEN /\ ~Held(b, d).big /\ UNCHANGED heard
            /\ Send(Other(b), [kind |-> "data", payload |-> Encode(Held(b, d))])
       ELSE /\ UNCHANGED wire
            /\ heard' = IF FarEnd(d) \in open
                        THEN [heard EXCEPT ![FarEnd(d)] = Append(@, ToEnd(b, d))] ELSE heard
    /\ UNCHANGED <<alive, box, fin, reg, snapped>> /\ TaskStep
\* The send raises: no tunnel, a message above MAX_PAYLOAD_BYTES, an end that left.
Raise(b, d) ==
    /\ d \in alive[b] /\ hold[b][d] # <<>>
    /\ IF ToTunnel(b, d) THEN ~up \/ Held(b, d).big ELSE FarEnd(d) \notin open
    /\ alive' = [alive EXCEPT ![b] = @ \ {d}] /\ hold' = [hold EXCEPT ![b][d] = <<>>]
    /\ snapped' = snapped \cup {<<b, d>>}
    /\ UNCHANGED <<heard, box, fin, wire, reg>> /\ TaskStep
-----------------------------------------------------------------------------
(***************************************************************************)
(* How it ends.                                                             *)
(***************************************************************************)
EndingStep == UNCHANGED <<start, said, heard, quit, box, up, shut, snapped>>
\* asyncio.wait returns at the first task that ends; the other is cancelled.
Cancel(b) ==
    /\ pc[b] = "run" /\ alive[b] # Ways
    /\ alive' = [alive EXCEPT ![b] = {}] /\ hold' = [hold EXCEPT ![b] = [d \in Ways |-> <<>>]]
    /\ Goto(b, CASE b = "relay" -> "bye" [] b = "agent" -> "remove" [] b = "local" -> "remove")
    /\ UNCHANGED <<open, fin, wire, reg>> /\ EndingStep
\* remove_stream.  The agent's local socket closes with its context; the
\* browser's when the handler returns.
RemoveStream(b) ==
    /\ pc[b] = "remove" /\ reg' = reg \ {b}
    /\ Goto(b, IF b = "agent" THEN "bye" ELSE "done")
    /\ open' = CASE b = "relay" -> open \ {"browser"} [] b = "agent" -> open \ {"app"} [] b = "local" -> {}
    /\ UNCHANGED <<alive, hold, fin, wire>> /\ EndingStep
\* send_ws_close; an error is only logged.
Bye(b) ==
    /\ pc[b] = "bye" /\ Goto(b, IF b = "relay" THEN "remove" ELSE "done")
    /\ Send(Other(b), [kind |-> "close"])
    /\ UNCHANGED <<open, alive, hold, fin, reg>> /\ EndingStep
-----------------------------------------------------------------------------
Init ==
    /\ start \in Starts
    /\ said = [e \in Ends |-> <<>>] /\ heard = [e \in Ends |-> <<>>]
    /\ open = {"browser"} /\ quit = {} /\ snapped = {}
    /\ pc = [b \in Bridges |-> "idle"] /\ alive = [b \in Bridges |-> {}]
    /\ box = [b \in Bridges |-> [d \in Ways |-> <<>>]]
    /\ fin = [b \in Bridges |-> [d \in Ways |-> FALSE]]
    /\ hold = [b \in Bridges |-> [d \in Ways |-> <<>>]]
    /\ up = TRUE /\ wire = [s \in Sides |-> <<>>] /\ reg = {} /\ shut = {}

BridgeNext(b) ==
    \/ \E d \in Ways : Receive(b, d) \/ Finish(b, d) \/ Forward(b, d) \/ Raise(b, d)
    \/ Connect(b) \/ Cancel(b) \/ RemoveStream(b) \/ Bye(b)
Arrive(s) == OnData(s) \/ OnClose(s)
SideNext(s) == Arrive(s) \/ TearDown(s)
Next ==
    \/ \E e \in Ends : Say(e) \/ Leave(e)
    \/ OnWsOpen \/ Lose \/ Visit \/ Dial
    \/ \E s \in Sides : SideNext(s)
    \/ \E b \in Bridges : BridgeNext(b)

Ended(b) == pc[b] \in {"idle", "done"}
\* The end of an agent's connection: close() after drain() has waited for the
\* handlers.  (A heartbeat without pongs or the TTL may tear it down before, but
\* a heartbeat whose ping fails ends without.)
AgentCloses == Ended("agent") /\ TearDown("agent")
\* The event loops run what can run, frames arrive, the relay's receive loop
\* sees the tunnel go and calls close(), the agent's does after its drain().
Spec ==
    /\ Init /\ [][Next]_vars
    /\ WF_vars(Visit) /\ WF_vars(Dial) /\ WF_vars(OnWsOpen)
    /\ WF_vars(SideNext("relay")) /\ WF_vars(Arrive("agent")) /\ WF_vars(AgentCloses)
    /\ \A b \in Bridges : WF_vars(BridgeNext(b))
-----------------------------------------------------------------------------
(***************************************************************************)
(* Properties.                                                              *)
(***************************************************************************)
\* Each end gets what the other sent, in order, text as text and bytes as
\* bytes, without gap or repetition.
InOrder == IsPrefix(heard["app"], said["browser"]) /\ IsPrefix(heard["browser"], said["app"])

\* When only one end closed, the tunnel held and no send failed, the other
\* end has got everything that one had sent: the close overtakes no message
\* and no cancelled task loses one.
LastWords ==
    up /\ snapped = {} /\ (\A b \in Used : pc[b] = "done")
    => /\ quit = {"app"} => heard["browser"] = said["app"]
       /\ quit = {"browser"} /\ start.accepts => heard["app"] = said["browser"]

\* A stream that was opened in a connection already torn down: nobody closes it,
\* the bridge waits for its browser.
OpenedLate == "relay" \in reg \cap shut /\ "browser" \notin quit
\* An agent that lost the tunnel drains: its bridge waits for its app.
Draining == ~up /\ "agent" \notin shut /\ pc["agent"] = "run" /\ "app" \notin quit

\* Once an end has closed, the tunnel is lost or the app refused, every bridge
\* ends, the browser's socket with it, and the stream is gone from both sides,
\* with three exceptions: a stream opened late, the bridge that keeps the agent
\* draining, and the stream of an app that refused, which stays with the agent
\* while the tunnel holds (agent/proxy.py:221).
BridgesEnd ==
    (quit # {} \/ ~up \/ ~start.accepts) /\ pc[Entry("browser")] # "idle"
        ~> /\ \A b \in Used : Ended(b) \/ (b = "relay" /\ OpenedLate) \/ (b = "agent" /\ Draining)
           /\ "browser" \in open => OpenedLate
           /\ "relay" \in reg => OpenedLate
           /\ "agent" \in reg => Draining \/ (up /\ ~start.accepts)

\* run_agent_loop "retries with exponential backoff on disconnect": after the
\* tunnel is lost the agent's bridge ends, for the next dial waits for it.  No run
\* checks it: an app that says nothing refutes it (Draining).
DrainEnds == ~up ~> Ended("agent")
=============================================================================
