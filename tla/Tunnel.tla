------------------------------- MODULE Tunnel -------------------------------
(***************************************************************************)
(* HTTP requests multiplexed over one tunnel: the TunnelConnection on both  *)
(* ends of an agent's WebSocket, the relay's proxy_request for each         *)
(* visitor, and the agent's handle_open_frame for each OPEN.                *)
(*                                                                         *)
(* Each end has one receive loop.  It handles a frame to the end before it  *)
(* takes the next one: a full stream queue, or a pong that the socket does  *)
(* not take, makes it wait.  A step runs one coroutine from an await to its *)
(* next.  Frame payloads are numbered.                                      *)
(***************************************************************************)
EXTENDS Integers, Sequences, FiniteSets

CONSTANTS
    Reqs,        \* requests of visitors
    NoReq,       \* the request of a control frame
    BodyLen,     \* DATA frames of a request body, without the sentinel
    RespLen,     \* DATA frames of a response body
    Depth,       \* QUEUE_DEPTH
    MaxStreams,  \* MAX_STREAMS
    WireCap,     \* frames the socket and its buffers hold in one direction
    Limit,       \* HEARTBEAT_MISSED_LIMIT
    Slow,        \* requests whose browser may stop reading for minutes
    Beats,       \* ends whose heartbeat is modelled
    Faults       \* events allowed: "abort", "leave", "lost", "close", "app", "prompt"

Sides == {"relay", "agent"}
Peer(s) == IF s = "relay" THEN "agent" ELSE "relay"

ASSUME TunnelAssumption ==
    /\ NoReq \notin Reqs
    /\ BodyLen \in Nat /\ RespLen \in Nat
    /\ Depth \in Nat \ {0} /\ MaxStreams \in Nat \ {0} /\ WireCap \in Nat \ {0}
    /\ Limit \in Nat \ {0}
    /\ Slow \subseteq Reqs /\ Beats \subseteq Sides

VARIABLES
    up,         \* the WebSocket is connected
    wire,       \* frames on their way to each end
    streams,    \* _streams of each end
    queue,      \* StreamState.queue
    ended,      \* StreamState.closed
    put,        \* the DATA frame the receive loop waits to put, or NoFrame
    shut,       \* _closed
    loop,       \* "run", "prompt" (agent: asking its user), "drain" (agent:
                \* awaiting its handlers), "gone"
    beat,       \* heartbeat task: "sleep", "wait" for a pong, "dead"
    missed,     \* its counter of missed pongs
    pong,       \* _pong_event
    rpc,        \* where proxy_request is, per request
    sent,       \* request body frames it has sent
    delivered,  \* response body frames the browser got
    apc,        \* where handle_open_frame is, per request
    asent,      \* response frames it has sent, the metadata first
    got         \* request body frames it has collected

net == <<up, wire>>
ends == <<streams, queue, ended, put, shut, loop>>
heart == <<beat, missed, pong>>
visitors == <<rpc, sent, delivered>>
handlers == <<apc, asent, got>>
vars == <<net, ends, heart, visitors, handlers>>

\* Payload 0 is the end-of-body sentinel of a request and the metadata of a
\* response.
MaxFrame == IF BodyLen > RespLen THEN BodyLen ELSE RespLen
StreamFrame == [kind : {"open", "data", "close", "cancel"}, req : Reqs, n : 0..MaxFrame]
ControlFrame == [kind : {"ping", "pong", "expired", "choice"}, req : {NoReq}, n : {0}]
Frame == StreamFrame \cup ControlFrame
Data(r, n) == [kind |-> "data", req |-> r, n |-> n]
Signal(k, r) == [kind |-> k, req |-> r, n |-> 0]
NoFrame == Signal("pong", NoReq)

\* Outcomes of a request: the responses 503, 500, 431, 503 and 504, a body
\* streamed to its end, and a browser that left.
Outcomes == {"offline", "error", "rejected", "lost", "timeout", "complete", "left"}
Cancelling == {"cancel", "leaving"}
RelayPcs == {"idle", "opened", "body", "sent", "first", "head", "stream"} \cup Cancelling \cup Outcomes
AgentPcs == {"none", "spawned", "body", "respond", "done"}
\* A request whose coroutine or response generator still runs.
Live(r) == rpc[r] \notin Outcomes \cup {"idle"}
\* ... and which reads, or is going to read, its stream.
Served(r) == Live(r) /\ rpc[r] \notin Cancelling

-----------------------------------------------------------------------------
(***************************************************************************)
(* TunnelConnection, alike on both ends.                                    *)
(***************************************************************************)
Room(s) == Len(wire[s]) < WireCap
Send(to, f) == up /\ Room(to) /\ wire' = [wire EXCEPT ![to] = Append(@, f)]

\* A send that may fail without consequence: CANCEL from the proxy.
SendAnyway(to, f) ==
    \/ Send(to, f)
    \/ ~up /\ UNCHANGED wire

\* open_stream
Full(s) == Cardinality(streams[s]) >= MaxStreams
OpenStream(s, r) == ~Full(s) /\ streams' = [streams EXCEPT ![s] = @ \cup {r}]

RemoveStream(s, r) == streams' = [streams EXCEPT ![s] = @ \ {r}]

Pop(s, r) == queue[s][r] # <<>> /\ queue' = [queue EXCEPT ![s][r] = Tail(@)]


\* _tear_down: every stream ends and is forgotten, the heartbeat stops.  The
\* socket stays as it is.
TearDown(s) ==
    IF shut[s] THEN UNCHANGED <<shut, ended, streams, beat>>
    ELSE /\ shut' = [shut EXCEPT ![s] = TRUE]
         /\ ended' = [ended EXCEPT ![s] = @ \cup streams[s]]
         /\ streams' = [streams EXCEPT ![s] = {}]
         /\ beat' = [beat EXCEPT ![s] = "dead"]

\* The socket goes down: of what is on its way each end still reads a prefix.
Cut ==
    /\ up' = FALSE
    /\ \E i \in 0..Len(wire["relay"]), j \in 0..Len(wire["agent"]) :
          wire' = [s \in Sides |-> IF s = "relay" THEN SubSeq(wire[s], 1, i)
                                                  ELSE SubSeq(wire[s], 1, j)]

\* The receive loop takes the next frame.
Take(s) == wire' = [wire EXCEPT ![s] = Tail(@)]
Incoming(s, kinds) ==
    /\ loop[s] = "run" /\ put[s] = NoFrame
    /\ wire[s] # <<>> /\ Head(wire[s]).kind \in kinds

\* Mutant: put_nowait, and a frame that finds the queue full is dropped.
ReceiveDataDrops(s) ==
    /\ Incoming(s, {"data"}) /\ Take(s)
    /\ LET f == Head(wire[s]) IN
       \/ /\ f.req \in streams[s] /\ Len(queue[s][f.req]) < Depth
          /\ queue' = [queue EXCEPT ![s][f.req] = Append(@, f.n)]
       \/ /\ f.req \notin streams[s] \/ Len(queue[s][f.req]) >= Depth
          /\ UNCHANGED queue
    /\ UNCHANGED <<up, put, streams, ended, shut, loop, heart, visitors, handlers>>

\* _dispatch_frame of DATA: into the stream's queue, or wait for room in it,
\* or ignored when there is no such stream.
ReceiveData(s) ==
    /\ Incoming(s, {"data"}) /\ Take(s)
    /\ LET f == Head(wire[s]) IN
       \/ /\ f.req \in streams[s] /\ Len(queue[s][f.req]) < Depth
          /\ queue' = [queue EXCEPT ![s][f.req] = Append(@, f.n)]
          /\ UNCHANGED put
       \/ /\ f.req \in streams[s] /\ Len(queue[s][f.req]) >= Depth
          /\ put' = [put EXCEPT ![s] = f]
          /\ UNCHANGED queue
       \/ f.req \notin streams[s] /\ UNCHANGED <<queue, put>>
    /\ UNCHANGED <<up, streams, ended, shut, loop, heart, visitors, handlers>>

\* The put the loop waits for succeeds, whether or not anybody still reads.
PutDone(s) ==
    LET f == put[s] IN
    /\ f # NoFrame /\ Len(queue[s][f.req]) < Depth
    /\ queue' = [queue EXCEPT ![s][f.req] = Append(@, f.n)]
    /\ put' = [put EXCEPT ![s] = NoFrame]
    /\ UNCHANGED <<net, streams, ended, shut, loop, heart, visitors, handlers>>

\* CLOSE and CANCEL: close_stream, ignored when there is no such stream.
ReceiveEnd(s) ==
    /\ Incoming(s, {"close", "cancel"}) /\ Take(s)
    /\ ended' = [ended EXCEPT ![s] = @ \cup ({Head(wire[s]).req} \cap streams[s])]
    /\ UNCHANGED <<up, streams, queue, put, shut, loop, heart, visitors, handlers>>

ReceivePong(s) ==
    /\ Incoming(s, {"pong"}) /\ Take(s)
    /\ pong' = [pong EXCEPT ![s] = TRUE]
    /\ UNCHANGED <<up, ends, beat, missed, visitors, handlers>>

\* The relay drops its TTL records on the user's choice; no stream changes.
ReceiveChoice ==
    /\ Incoming("relay", {"choice"}) /\ Take("relay")
    /\ UNCHANGED <<up, ends, heart, visitors, handlers>>

\* Mutant: the relay's handler ends without closing its connection.
EndLoopNoClose(s) ==
    /\ loop' = [loop EXCEPT ![s] = IF s = "relay" THEN "gone" ELSE "drain"]
    /\ UNCHANGED <<shut, ended, streams, beat>>

\* The end of a receive loop.  The relay's handler closes its connection; the
\* agent first awaits its handlers.
EndLoop(s) ==
    \/ s = "relay" /\ TearDown(s) /\ loop' = [loop EXCEPT ![s] = "gone"]
    \/ /\ s = "agent" /\ loop' = [loop EXCEPT ![s] = "drain"]
       /\ UNCHANGED <<shut, ended, streams, beat>>

\* A ping is answered from within the loop; on a dead socket the send raises
\* and the loop ends.
ReceivePing(s) ==
    /\ Incoming(s, {"ping"})
    /\ \/ /\ up /\ Room(Peer(s))
          /\ wire' = [wire EXCEPT ![s] = Tail(@), ![Peer(s)] = Append(@, Signal("pong", NoReq))]
          /\ UNCHANGED <<shut, ended, streams, beat, loop>>
       \/ ~up /\ Take(s) /\ EndLoop(s)
    /\ UNCHANGED <<up, queue, put, missed, pong, visitors, handlers>>

LoopEnds(s) ==
    /\ loop[s] = "run" /\ put[s] = NoFrame
    /\ ~up /\ wire[s] = <<>>
    /\ EndLoop(s)
    /\ UNCHANGED <<net, queue, put, missed, pong, visitors, handlers>>

-----------------------------------------------------------------------------
(***************************************************************************)
(* The heartbeat.                                                           *)
(***************************************************************************)
\* On a dead socket the ping raises and the task is over.
Ping(s) ==
    /\ s \in Beats /\ beat[s] = "sleep"
    /\ pong' = [pong EXCEPT ![s] = FALSE]
    /\ \/ Send(Peer(s), Signal("ping", NoReq)) /\ beat' = [beat EXCEPT ![s] = "wait"]
       \/ ~up /\ UNCHANGED wire /\ beat' = [beat EXCEPT ![s] = "dead"]
    /\ UNCHANGED <<up, ends, missed, visitors, handlers>>

PongSeen(s) ==
    /\ beat[s] = "wait" /\ pong[s]
    /\ beat' = [beat EXCEPT ![s] = "sleep"]
    /\ missed' = [missed EXCEPT ![s] = 0]
    /\ UNCHANGED <<net, ends, pong, visitors, handlers>>

\* A pong is overdue only when something stands still for the 15 s of the
\* interval: the socket is gone, the agent's loop waits for its user, or the
\* relay's loop waits for a browser that does not read, or for nobody.
Overdue ==
    \/ ~up
    \/ loop["agent"] = "prompt"
    \/ put["relay"] # NoFrame /\ (put["relay"].req \in Slow \/ ~Served(put["relay"].req))

\* Mutant: the heartbeat gives up without a teardown.
MissNoTearDown(s) ==
    /\ beat[s] = "wait" /\ ~pong[s] /\ Overdue
    /\ missed' = [missed EXCEPT ![s] = @ + 1]
    /\ beat' = [beat EXCEPT ![s] = IF missed[s] + 1 < Limit THEN "sleep" ELSE "dead"]
    /\ UNCHANGED <<net, ends, pong, visitors, handlers>>

Miss(s) ==
    /\ beat[s] = "wait" /\ ~pong[s] /\ Overdue
    /\ missed' = [missed EXCEPT ![s] = @ + 1]
    /\ \/ /\ missed[s] + 1 < Limit /\ beat' = [beat EXCEPT ![s] = "sleep"]
          /\ UNCHANGED <<shut, ended, streams>>
       \/ missed[s] + 1 >= Limit /\ TearDown(s)
    /\ UNCHANGED <<net, queue, put, loop, pong, visitors, handlers>>

-----------------------------------------------------------------------------
(***************************************************************************)
(* The relay: proxy_request for a visitor's request r.                      *)
(***************************************************************************)
Move(r, place) == rpc' = [rpc EXCEPT ![r] = place]

\* get_connection tests _closed and open_stream follows without an await.
Request(r) ==
    /\ rpc[r] = "idle"
    /\ \/ shut["relay"] /\ Move(r, "offline") /\ UNCHANGED streams
       \/ ~shut["relay"] /\ Full("relay") /\ Move(r, "error") /\ UNCHANGED streams
       \/ ~shut["relay"] /\ OpenStream("relay", r) /\ Move(r, "opened")
    /\ UNCHANGED <<net, queue, ended, put, shut, loop, heart, sent, delivered, handlers>>

\* OPEN, unless the metadata is too large to be sent.
SendOpen(r) ==
    /\ rpc[r] = "opened"
    /\ \/ /\ Send("agent", Signal("open", r)) /\ Move(r, "body")
          /\ UNCHANGED streams
       \/ RemoveStream("relay", r) /\ Move(r, "rejected") /\ UNCHANGED wire
    /\ UNCHANGED <<up, queue, ended, put, shut, loop, heart, sent, delivered, handlers>>

\* Mutant: one chunk more than the body has.
SendBodyOverrun(r) ==
    /\ rpc[r] = "body"
    /\ \/ /\ sent[r] <= BodyLen
          /\ Send("agent", Data(r, sent[r] + 1))
          /\ sent' = [sent EXCEPT ![r] = @ + 1] /\ UNCHANGED rpc
       \/ /\ sent[r] >= BodyLen
          /\ Send("agent", Data(r, 0))
          /\ Move(r, "sent") /\ UNCHANGED sent
    /\ UNCHANGED <<up, ends, heart, delivered, handlers>>

\* The body, then the sentinel.
SendBody(r) ==
    /\ rpc[r] = "body"
    /\ \/ /\ sent[r] < BodyLen
          /\ Send("agent", Data(r, sent[r] + 1))
          /\ sent' = [sent EXCEPT ![r] = @ + 1] /\ UNCHANGED rpc
       \/ /\ sent[r] = BodyLen
          /\ Send("agent", Data(r, 0))
          /\ Move(r, "sent") /\ UNCHANGED sent
    /\ UNCHANGED <<up, ends, heart, delivered, handlers>>

\* A send on a dead socket raises.  As a TunnelSendError it is answered with
\* 503; the framework's own disconnect error, raised by the first send that
\* meets the loss, escapes and leaves the stream for _tear_down.
SendFails(r) ==
    /\ rpc[r] \in {"opened", "body"} /\ ~up
    /\ \/ RemoveStream("relay", r) /\ Move(r, "lost")
       \/ UNCHANGED streams /\ Move(r, "error")
    /\ UNCHANGED <<net, queue, ended, put, shut, loop, heart, sent, delivered, handlers>>

\* Mutant: a finally sends the sentinel of an aborted upload as well.
AbortSendsSentinel(r) ==
    /\ "abort" \in Faults /\ rpc[r] = "body"
    /\ Send("agent", Data(r, 0))
    /\ Move(r, "left")
    /\ UNCHANGED <<up, ends, heart, sent, delivered, handlers>>

\* The browser goes away while its body is being read: ClientDisconnect
\* escapes proxy_request.
AbortUpload(r) ==
    /\ "abort" \in Faults /\ rpc[r] = "body"
    /\ Move(r, "left")
    /\ UNCHANGED <<net, ends, heart, sent, delivered, handlers>>

\* read_stream looks the stream up, then waits for the first frame.
ReadStream(r) ==
    /\ rpc[r] = "sent"
    /\ Move(r, IF r \in streams["relay"] THEN "first" ELSE "error")
    /\ UNCHANGED <<net, ends, heart, sent, delivered, handlers>>

FirstChunk(r) ==
    /\ rpc[r] = "first" /\ Pop("relay", r) /\ Move(r, "head")
    /\ UNCHANGED <<net, streams, ended, put, shut, loop, heart, sent, delivered, handlers>>

\* 30 s without a first frame: the proxy awaits the sending of CANCEL.  The
\* stream stays registered meanwhile, and nobody reads it.
FirstByteTimeout(r) ==
    /\ rpc[r] = "first" /\ queue["relay"][r] = <<>>
    /\ Move(r, "cancel")
    /\ UNCHANGED <<net, ends, heart, sent, delivered, handlers>>

\* Mutant: the stream of a cancelled request is kept.
CancelKeepsSlot(r) ==
    /\ rpc[r] \in Cancelling
    /\ SendAnyway("agent", Signal("cancel", r))
    /\ Move(r, IF rpc[r] = "cancel" THEN "timeout" ELSE "left")
    /\ UNCHANGED <<up, ends, heart, sent, delivered, handlers>>

\* CANCEL is sent, or the send raised: the stream is forgotten and the
\* request ends, with 504 or with the generator.  A put that waits for room
\* in its queue goes on waiting.
CancelSent(r) ==
    /\ rpc[r] \in Cancelling
    /\ SendAnyway("agent", Signal("cancel", r))
    /\ RemoveStream("relay", r)
    /\ Move(r, IF rpc[r] = "cancel" THEN "timeout" ELSE "left")
    /\ UNCHANGED <<up, queue, ended, put, shut, loop, heart, sent, delivered, handlers>>

\* Mutant: the metadata is not understood, and the request fails with its
\* stream still registered.
StartStreamFails(r) ==
    /\ rpc[r] = "head"
    /\ Move(r, "error")
    /\ UNCHANGED <<net, ends, heart, sent, delivered, handlers>>

\* StreamingResponse starts the generator, which looks the stream up.
StartStream(r) ==
    /\ rpc[r] = "head"
    /\ Move(r, IF r \in streams["relay"] THEN "stream" ELSE "error")
    /\ UNCHANGED <<net, ends, heart, sent, delivered, handlers>>

\* The browser was gone before that: StreamingResponse is cancelled and the
\* generator, never started, does not run its finally.
LeftBeforeStart(r) ==
    /\ "leave" \in Faults /\ rpc[r] = "head"
    /\ Move(r, "left")
    /\ UNCHANGED <<net, ends, heart, sent, delivered, handlers>>

Chunk(r) ==
    /\ rpc[r] = "stream" /\ Pop("relay", r)
    /\ delivered' = [delivered EXCEPT ![r] = Append(@, Head(queue["relay"][r]))]
    /\ UNCHANGED <<net, streams, ended, put, shut, loop, heart, rpc, sent, handlers>>

\* read_stream_iter returns once the stream has ended and is drained.
Finish(r) ==
    /\ rpc[r] = "stream" /\ r \in ended["relay"] /\ queue["relay"][r] = <<>>
    /\ RemoveStream("relay", r) /\ Move(r, "complete")
    /\ UNCHANGED <<net, queue, ended, put, shut, loop, heart, sent, delivered, handlers>>

\* The generator, with a chunk in hand, notices that the browser is gone and
\* awaits the sending of CANCEL.
CancelOnDisconnect(r) ==
    /\ "leave" \in Faults /\ rpc[r] = "stream" /\ Pop("relay", r)
    /\ Move(r, "leaving")
    /\ UNCHANGED <<net, streams, ended, put, shut, loop, heart, sent, delivered, handlers>>

\* StreamingResponse notices it and cancels the generator.
Dropped(r) ==
    /\ "leave" \in Faults /\ rpc[r] \in {"stream", "leaving"}
    /\ RemoveStream("relay", r) /\ Move(r, "left")
    /\ UNCHANGED <<net, queue, ended, put, shut, loop, heart, sent, delivered, handlers>>

-----------------------------------------------------------------------------
(***************************************************************************)
(* The agent: on_open, handle_open_frame, drain.                            *)
(***************************************************************************)
\* on_open registers the stream, then spawns the handler.  StreamLimitError
\* ends the loop.
ReceiveOpen ==
    /\ Incoming("agent", {"open"}) /\ Take("agent")
    /\ LET r == Head(wire["agent"]).req IN
       \/ /\ OpenStream("agent", r)
          /\ apc' = [apc EXCEPT ![r] = "spawned"]
          /\ UNCHANGED loop
       \/ /\ Full("agent")
          /\ loop' = [loop EXCEPT !["agent"] = "drain"]
          /\ UNCHANGED <<streams, apc>>
    /\ UNCHANGED <<up, queue, ended, put, shut, heart, visitors, asent, got>>

\* expired_files: the control handler asks at the terminal, and the receive
\* loop waits for the answer.
ReceiveExpired ==
    /\ Incoming("agent", {"expired"}) /\ Take("agent")
    /\ loop' = [loop EXCEPT !["agent"] = "prompt"]
    /\ UNCHANGED <<up, streams, queue, ended, put, shut, heart, visitors, handlers>>

\* The user's choice goes to the relay; on a dead socket that send ends the
\* loop.
UserAnswers ==
    /\ loop["agent"] = "prompt"
    /\ \/ /\ Send("relay", Signal("choice", NoReq))
          /\ loop' = [loop EXCEPT !["agent"] = "run"]
       \/ /\ ~up /\ UNCHANGED wire
          /\ loop' = [loop EXCEPT !["agent"] = "drain"]
    /\ UNCHANGED <<up, streams, queue, ended, put, shut, heart, visitors, handlers>>

HandlerStart(r) ==
    /\ apc[r] = "spawned"
    /\ apc' = [apc EXCEPT ![r] = IF r \in streams["agent"] THEN "body" ELSE "done"]
    /\ UNCHANGED <<net, ends, heart, visitors, asent, got>>

\* One frame of the body; the sentinel ends it and gives the stream up.
BodyChunk(r) ==
    /\ apc[r] = "body" /\ Pop("agent", r)
    /\ LET n == Head(queue["agent"][r]) IN
       \/ /\ n = 0 /\ RemoveStream("agent", r)
          /\ apc' = [apc EXCEPT ![r] = "respond"] /\ UNCHANGED got
       \/ /\ n # 0 /\ got' = [got EXCEPT ![r] = Append(@, n)]
          /\ UNCHANGED <<apc, streams>>
    /\ UNCHANGED <<net, ended, put, shut, loop, heart, visitors, asent>>

\* Metadata, body frames, CLOSE.
Respond(r) ==
    /\ apc[r] = "respond"
    /\ \/ /\ asent[r] <= RespLen
          /\ Send("relay", Data(r, asent[r]))
          /\ asent' = [asent EXCEPT ![r] = @ + 1] /\ UNCHANGED apc
       \/ /\ asent[r] > RespLen
          /\ Send("relay", Signal("close", r))
          /\ apc' = [apc EXCEPT ![r] = "done"] /\ UNCHANGED asent
    /\ UNCHANGED <<up, ends, heart, visitors, got>>

\* A send on a dead socket ends the handler; so does an application that
\* raises, which it can do only before its response is complete and sent.
RespondFails(r) ==
    /\ apc[r] = "respond"
    /\ ~up \/ ("app" \in Faults /\ asent[r] = 0)
    /\ apc' = [apc EXCEPT ![r] = "done"]
    /\ UNCHANGED <<net, ends, heart, visitors, asent, got>>

\* drain awaits every handler; then the connection and the socket are closed.
Drained ==
    /\ loop["agent"] = "drain"
    /\ \A r \in Reqs : apc[r] \in {"none", "done"}
    /\ loop' = [loop EXCEPT !["agent"] = "gone"]
    /\ TearDown("agent") /\ Cut
    /\ UNCHANGED <<queue, put, missed, pong, visitors, handlers>>

-----------------------------------------------------------------------------
(***************************************************************************)
(* The environment: the network fails, or one end closes the connection at  *)
(* the end of the mount's TTL.                                              *)
(***************************************************************************)
SocketLost ==
    /\ "lost" \in Faults /\ up /\ Cut
    /\ UNCHANGED <<ends, heart, visitors, handlers>>

\* close() is a no-op on a connection that was torn down.
Close(s) ==
    /\ "close" \in Faults /\ up /\ ~shut[s]
    /\ TearDown(s) /\ Cut
    /\ UNCHANGED <<queue, put, loop, missed, pong, visitors, handlers>>

\* A tunnel whose mount is registered.  After a reclaim the relay has sent
\* the list of expired files.
Init ==
    /\ up = TRUE
    /\ wire = [s \in Sides |-> IF s = "agent" /\ "prompt" \in Faults
                               THEN <<Signal("expired", NoReq)>> ELSE <<>>]
    /\ streams = [s \in Sides |-> {}]
    /\ queue = [s \in Sides |-> [r \in Reqs |-> <<>>]]
    /\ ended = [s \in Sides |-> {}]
    /\ put = [s \in Sides |-> NoFrame]
    /\ shut = [s \in Sides |-> FALSE]
    /\ loop = [s \in Sides |-> "run"]
    /\ beat = [s \in Sides |-> "sleep"]
    /\ missed = [s \in Sides |-> 0]
    /\ pong = [s \in Sides |-> FALSE]
    /\ rpc = [r \in Reqs |-> "idle"]
    /\ sent = [r \in Reqs |-> 0]
    /\ delivered = [r \in Reqs |-> <<>>]
    /\ apc = [r \in Reqs |-> "none"]
    /\ asent = [r \in Reqs |-> 0]
    /\ got = [r \in Reqs |-> <<>>]

\* Steps proxy_request takes by itself.
RelayStep(r) ==
    \/ SendOpen(r) \/ SendBody(r) \/ SendFails(r)
    \/ ReadStream(r) \/ FirstChunk(r) \/ FirstByteTimeout(r) \/ CancelSent(r)
    \/ StartStream(r) \/ Finish(r)

Receive(s) ==
    \/ ReceiveData(s) \/ ReceiveEnd(s) \/ ReceivePing(s) \/ ReceivePong(s)
    \/ s = "agent" /\ (ReceiveOpen \/ ReceiveExpired)
    \/ s = "relay" /\ ReceiveChoice
    \/ PutDone(s) \/ LoopEnds(s)

AgentStep(r) == HandlerStart(r) \/ BodyChunk(r) \/ Respond(r) \/ RespondFails(r)

Heartbeat(s) == Ping(s) \/ PongSeen(s) \/ Miss(s)

Next ==
    \/ \E r \in Reqs :
         \/ Request(r) \/ RelayStep(r) \/ Chunk(r)
         \/ AbortUpload(r) \/ LeftBeforeStart(r) \/ CancelOnDisconnect(r) \/ Dropped(r)
         \/ AgentStep(r)
    \/ \E s \in Sides : Receive(s) \/ Heartbeat(s) \/ Close(s)
    \/ UserAnswers \/ Drained \/ SocketLost

Spec == Init /\ [][Next]_vars

\* Both event loops run, the application answers, a browser outside Slow
\* reads, the agent's user answers.  Visitors, faults and slow browsers are free.
\* Strong fairness where a step may wait for the socket: every writer that
\* waits is resumed when the buffer drains, so none is starved by the others.
Fairness ==
    /\ \A r \in Reqs : SF_vars(RelayStep(r)) /\ SF_vars(AgentStep(r))
    /\ \A r \in Reqs \ Slow : WF_vars(Chunk(r))
    /\ \A s \in Sides : WF_vars(Receive(s)) /\ WF_vars(Heartbeat(s))
    /\ WF_vars(Drained) /\ SF_vars(UserAnswers)
FairSpec == Spec /\ Fairness

-----------------------------------------------------------------------------
TypeOK ==
    /\ up \in BOOLEAN
    /\ wire \in [Sides -> Seq(Frame)]
    /\ streams \in [Sides -> SUBSET Reqs]
    /\ queue \in [Sides -> [Reqs -> Seq(0..MaxFrame)]]
    /\ ended \in [Sides -> SUBSET Reqs]
    /\ put \in [Sides -> StreamFrame \cup {NoFrame}]
    /\ shut \in [Sides -> BOOLEAN]
    /\ loop \in [Sides -> {"run", "prompt", "drain", "gone"}]
    /\ beat \in [Sides -> {"sleep", "wait", "dead"}]
    /\ missed \in [Sides -> 0..Limit]
    /\ pong \in [Sides -> BOOLEAN]
    /\ rpc \in [Reqs -> RelayPcs]
    /\ sent \in [Reqs -> 0..BodyLen]
    /\ delivered \in [Reqs -> Seq(0..MaxFrame)]
    /\ apc \in [Reqs -> AgentPcs]
    /\ asent \in [Reqs -> 0..(RespLen + 1)]
    /\ got \in [Reqs -> Seq(0..MaxFrame)]

Phase(r) ==
    CASE rpc[r] = "idle"     -> "idle"
      [] rpc[r] \in {"stream", "leaving"} -> "streaming"
      [] rpc[r] = "complete" -> "complete"
      [] rpc[r] = "left"     -> "left"
      [] rpc[r] \in Outcomes \ {"complete", "left"} -> "failed"
      [] OTHER               -> "waiting"

Exchange == INSTANCE HttpExchange WITH
    phase <- [r \in Reqs |-> Phase(r)], body <- delivered, broken <- shut["relay"]

\* The tunnel implements HttpExchange: through two receive loops, bounded
\* queues, blocked puts, cancellations and teardowns a browser gets a
\* response's frames in order, once, and all of them unless the relay tore
\* the tunnel down.
ExchangeSpec == Exchange!ESpec

\* The local application only ever runs on a whole request body, whatever
\* aborted uploads, teardowns and a broken socket leave of it: a body that
\* was cut short has no sentinel.
UploadIntact ==
    \A r \in Reqs : apc[r] = "respond" => got[r] = [n \in 1..BodyLen |-> n]

\* A stream slot of the relay is held only for a request that is still being
\* served, or that failed on a dead socket and waits for the teardown.
SlotsReleased ==
    \A r \in streams["relay"] : Live(r) \/ ~up

\* The receive loop of the relay waits only for a reader that is still there,
\* unless that request was given up with a CANCEL or its browser left, or the
\* tunnel was torn down: no other end of a request leaves the loop, and with
\* it every stream, waiting.  (The frames of a response that comes while the
\* CANCEL is being sent do.)
PutHasReader ==
    LET f == put["relay"] IN
    f # NoFrame => \/ Served(f.req) \/ Len(queue["relay"][f.req]) < Depth
                   \/ rpc[f.req] \in Cancelling \cup {"timeout", "left"} \/ shut["relay"]

\* Both directions of a live socket are full, and the loop at either end waits
\* for the other: no send has a timeout, and _tear_down does not close the
\* socket.
Jammed == up /\ ~Room("agent") /\ ~Room("relay")

\* A loop that waits to put a frame nobody will take does not hold the mount
\* up for good: the heartbeat, whose pongs it does not read, gives the tunnel
\* up, unless the socket is lost before or its ping is stuck in a jam.
StuckLoopGivenUp ==
    put["relay"] # NoFrame ~> put["relay"] = NoFrame \/ shut["relay"] \/ ~up \/ []Jammed


\* A lost socket is noticed on both sides: the mount does not stay routable,
\* unless the relay's loop waits to put a frame of a request that was given
\* up (the heartbeat then dies of the loss without a teardown); and the agent
\* leaves the connection, so that it can dial again, unless a handler of it
\* waits for a request body that cannot come any more, or its loop for a
\* handler that found its stream torn down.
LossNoticed ==
    /\ ~up ~> \/ shut["relay"]
              \/ put["relay"] # NoFrame /\ ~Served(put["relay"].req)
    /\ ~up ~> \/ loop["agent"] = "gone"
              \/ put["agent"] # NoFrame \/ \E r \in Reqs : apc[r] = "body"
=============================================================================
