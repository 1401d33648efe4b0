----------------------------- MODULE TunnelProofs -----------------------------
(***************************************************************************)
(* Theorems about Tunnel, for any number of requests, frames and slots.     *)
(***************************************************************************)
EXTENDS Tunnel, SequenceTheorems, TLAPS

(***************************************************************************)
(* Type correctness.                                                        *)
(***************************************************************************)
LEMMA FrameTypes ==
  /\ 0 \in 0..MaxFrame
  /\ \A n \in 0..BodyLen : n \in 0..MaxFrame
  /\ \A n \in 0..RespLen : n \in 0..MaxFrame
  /\ \A r \in Reqs, n \in 0..MaxFrame : Data(r, n) \in StreamFrame
  /\ \A r \in Reqs, k \in {"open", "close", "cancel"} : Signal(k, r) \in StreamFrame
  /\ \A k \in {"ping", "pong", "expired", "choice"} : Signal(k, NoReq) \in ControlFrame
  /\ NoFrame \in ControlFrame
<1>1. MaxFrame \in Nat /\ BodyLen <= MaxFrame /\ RespLen <= MaxFrame
  BY TunnelAssumption DEF MaxFrame
<1>2. 0 \in 0..MaxFrame
  BY <1>1
<1>3. /\ \A n \in 0..BodyLen : n \in 0..MaxFrame
      /\ \A n \in 0..RespLen : n \in 0..MaxFrame
  BY <1>1, TunnelAssumption
<1>4. \A r \in Reqs, n \in 0..MaxFrame : Data(r, n) \in StreamFrame
  BY DEF Data, StreamFrame
<1>5. \A r \in Reqs, k \in {"open", "close", "cancel"} : Signal(k, r) \in StreamFrame
  BY <1>2 DEF Signal, StreamFrame
<1>6. \A k \in {"ping", "pong", "expired", "choice"} : Signal(k, NoReq) \in ControlFrame
  BY DEF Signal, ControlFrame
<1>7. NoFrame \in ControlFrame
  BY <1>6 DEF NoFrame
<1> QED BY <1>2, <1>3, <1>4, <1>5, <1>6, <1>7

WireType == wire \in [Sides -> Seq(Frame)]

\* What sending, taking and losing frames does to the wires.
LEMMA WireTypes ==
  ASSUME WireType, NEW s \in Sides, NEW f \in Frame
  PROVE  /\ Send(s, f) => WireType'
         /\ SendAnyway(s, f) => WireType'
         /\ wire[s] # <<>> /\ Take(s) => WireType'
         /\ Cut => WireType'
<1> USE DEF WireType
<1>1. Append(wire[s], f) \in Seq(Frame)
  BY AppendProperties
<1>2. Send(s, f) => WireType'
  BY <1>1 DEF Send
<1>3. SendAnyway(s, f) => WireType'
  BY <1>2 DEF SendAnyway
<1>4. wire[s] # <<>> => Tail(wire[s]) \in Seq(Frame)
  BY HeadTailProperties
<1>5. wire[s] # <<>> /\ Take(s) => WireType'
  BY <1>4 DEF Take
<1>6. Cut => WireType'
  <2>1. \A q \in Sides : \A i \in 0..Len(wire[q]) : SubSeq(wire[q], 1, i) \in Seq(Frame)
    <3> SUFFICES ASSUME NEW q \in Sides, NEW i \in 0..Len(wire[q])
                 PROVE  SubSeq(wire[q], 1, i) \in Seq(Frame)
      OBVIOUS
    <3>1. wire[q] \in Seq(Frame) /\ Len(wire[q]) \in Nat
      BY LenProperties
    <3> QED BY <3>1, SubSeqProperties
  <2> QED BY <2>1 DEF Cut, Sides
<1> QED BY <1>2, <1>3, <1>5, <1>6

QueueType == queue \in [Sides -> [Reqs -> Seq(0..MaxFrame)]]

\* What putting and getting does to the stream queues.
LEMMA QueueTypes ==
  ASSUME QueueType, NEW s \in Sides, NEW r \in Reqs, NEW n \in 0..MaxFrame
  PROVE  /\ queue' = [queue EXCEPT ![s][r] = Append(@, n)] => QueueType'
         /\ Pop(s, r) => QueueType' /\ Head(queue[s][r]) \in 0..MaxFrame
<1> USE DEF QueueType
<1>1. queue[s][r] \in Seq(0..MaxFrame)
  OBVIOUS
<1>2. Append(queue[s][r], n) \in Seq(0..MaxFrame)
  BY <1>1, AppendProperties
<1>3. queue[s][r] # <<>> => /\ Tail(queue[s][r]) \in Seq(0..MaxFrame)
                            /\ Head(queue[s][r]) \in 0..MaxFrame
  BY <1>1, HeadTailProperties
<1>4. queue' = [queue EXCEPT ![s][r] = Append(@, n)] => QueueType'
  BY <1>2
<1>5. Pop(s, r) => QueueType' /\ Head(queue[s][r]) \in 0..MaxFrame
  BY <1>3 DEF Pop
<1> QED BY <1>4, <1>5

\* The heartbeat counts to its limit only once: the teardown that follows
\* kills the task.
HeartInv ==
    \A s \in Sides : /\ shut[s] => beat[s] = "dead"
                     /\ beat[s] # "dead" => missed[s] < Limit

TypeInv == TypeOK /\ HeartInv

\* What a frame of a given kind carries.
LEMMA HeadTypes ==
  ASSUME TypeOK, NEW s \in Sides, NEW kinds, Incoming(s, kinds)
  PROVE  /\ wire[s] # <<>> /\ Head(wire[s]) \in Frame /\ Head(wire[s]).kind \in kinds
         /\ Head(wire[s]).kind \in {"open", "data", "close", "cancel"} =>
              /\ Head(wire[s]) \in StreamFrame
              /\ Head(wire[s]).req \in Reqs /\ Head(wire[s]).n \in 0..MaxFrame
<1>1. wire[s] \in Seq(Frame) /\ wire[s] # <<>> /\ Head(wire[s]).kind \in kinds
  BY DEF TypeOK, Incoming
<1>2. Head(wire[s]) \in Frame
  BY <1>1, HeadTailProperties
<1>3. ASSUME NEW f \in Frame, f.kind \in {"open", "data", "close", "cancel"}
      PROVE  f \in StreamFrame /\ f.req \in Reqs /\ f.n \in 0..MaxFrame
  <2>1. f \notin ControlFrame
    BY <1>3 DEF ControlFrame
  <2>2. f \in StreamFrame
    BY <1>3, <2>1 DEF Frame
  <2> QED BY <2>2 DEF StreamFrame
<1> QED BY <1>1, <1>2, <1>3

LEMMA OpenHead ==
  ASSUME TypeOK, ReceiveOpen
  PROVE  Head(wire["agent"]).req \in Reqs
<1>1. "agent" \in Sides /\ Incoming("agent", {"open"})
  BY DEF Sides, ReceiveOpen
<1> QED BY <1>1, HeadTypes

\* A step that leaves the connection's ends and heartbeats as they are, up to
\* the slots and queues.
Settled ==
    /\ ended \in [Sides -> SUBSET Reqs]
    /\ streams \in [Sides -> SUBSET Reqs]
    /\ shut \in [Sides -> BOOLEAN]
    /\ beat \in [Sides -> {"sleep", "wait", "dead"}]

\* Taking and giving back a slot, and moving a request.
LEMMA SlotMoves ==
  ASSUME TypeOK, NEW s \in Sides, NEW r \in Reqs
  PROVE  /\ OpenStream(s, r) \/ RemoveStream(s, r) => streams' \in [Sides -> SUBSET Reqs]
         /\ \A place \in RelayPcs : Move(r, place) => rpc' \in [Reqs -> RelayPcs]
<1>1. streams \in [Sides -> SUBSET Reqs] /\ rpc \in [Reqs -> RelayPcs]
  BY DEF TypeOK
<1>2. OpenStream(s, r) \/ RemoveStream(s, r) => streams' \in [Sides -> SUBSET Reqs]
  BY <1>1 DEF OpenStream, RemoveStream
<1>3. \A place \in RelayPcs : Move(r, place) => rpc' \in [Reqs -> RelayPcs]
  BY <1>1 DEF Move
<1> QED BY <1>2, <1>3

\* The places proxy_request moves to.
LEMMA Places == {"offline", "error", "rejected", "lost", "timeout", "complete", "left",
                 "opened", "body", "sent", "first", "head", "stream", "cancel", "leaving"} \subseteq RelayPcs
BY DEF RelayPcs, Outcomes, Cancelling

LEMMA TearDownTypes ==
  ASSUME TypeInv, NEW s \in Sides, TearDown(s), missed' = missed
  PROVE  Settled' /\ HeartInv' /\ shut'[s] /\ beat'[s] = "dead"
<1> USE DEF TypeInv, TypeOK, HeartInv, Settled
<1>1. CASE shut[s]
  BY <1>1 DEF TearDown
<1>2. CASE ~shut[s]
  <2>1. /\ shut' = [shut EXCEPT ![s] = TRUE] /\ ended' = [ended EXCEPT ![s] = @ \cup streams[s]]
        /\ streams' = [streams EXCEPT ![s] = {}] /\ beat' = [beat EXCEPT ![s] = "dead"]
    BY <1>2 DEF TearDown
  <2>2. shut' \in [Sides -> BOOLEAN] /\ beat' \in [Sides -> {"sleep", "wait", "dead"}]
    BY <2>1
  <2>3. streams' \in [Sides -> SUBSET Reqs]
    BY <2>1
  <2>4. ended' \in [Sides -> SUBSET Reqs]
    BY <2>1
  <2>5. HeartInv' /\ shut'[s] /\ beat'[s] = "dead"
    BY <2>1
  <2> QED BY <2>2, <2>3, <2>4, <2>5
<1> QED BY <1>1, <1>2

LEMMA EndLoopTypes ==
  ASSUME TypeInv, NEW s \in Sides, EndLoop(s), missed' = missed
  PROVE  Settled' /\ HeartInv' /\ loop' \in [Sides -> {"run", "prompt", "drain", "gone"}]
<1>1. CASE s = "relay"
  BY <1>1, TearDownTypes DEF EndLoop, TypeInv, TypeOK
<1>2. CASE s # "relay"
  BY <1>2 DEF EndLoop, TypeInv, TypeOK, HeartInv, Settled
<1> QED BY <1>1, <1>2

LEMMA VisitorTypes ==
  ASSUME TypeInv, NEW r \in Reqs,
         \/ Request(r) \/ RelayStep(r) \/ Chunk(r)
         \/ AbortUpload(r) \/ LeftBeforeStart(r) \/ CancelOnDisconnect(r) \/ Dropped(r)
  PROVE  TypeInv'
<1> USE DEF TypeInv, TypeOK, HeartInv, net, ends, heart, visitors, handlers
<1>0. "relay" \in Sides /\ "agent" \in Sides /\ WireType /\ QueueType
  BY DEF Sides, WireType, QueueType
<1>a. /\ OpenStream("relay", r) \/ RemoveStream("relay", r) => streams' \in [Sides -> SUBSET Reqs]
      /\ \A place \in {"offline", "error", "rejected", "lost", "timeout", "complete", "left",
                        "opened", "body", "sent", "first", "head", "stream",
                        "cancel", "leaving"} :
            Move(r, place) => rpc' \in [Reqs -> RelayPcs]
  BY <1>0, SlotMoves, Places
<1>1. CASE Request(r)
  BY <1>a, <1>1 DEF Request
<1>2. CASE SendOpen(r)
  <2>1. WireType'
    BY <1>0, <1>2, WireTypes, FrameTypes DEF SendOpen, Frame, WireType
  <2> QED BY <1>a, <1>2, <2>1 DEF SendOpen, WireType
<1>3. CASE SendBody(r)
  <2>1. WireType'
    <3>1. sent[r] \in 0..BodyLen /\ (sent[r] < BodyLen => sent[r] + 1 \in 0..BodyLen)
      BY TunnelAssumption
    <3>2. Data(r, 0) \in Frame /\ (sent[r] < BodyLen => Data(r, sent[r] + 1) \in Frame)
      BY <3>1, FrameTypes DEF Frame
    <3> QED BY <1>0, <1>3, <3>2, WireTypes DEF SendBody
  <2>2. rpc' \in [Reqs -> RelayPcs]
    BY <1>a, <1>3 DEF SendBody
  <2>3. sent' \in [Reqs -> 0..BodyLen]
    <3>1. CASE sent' = sent
      BY <3>1
    <3>2. CASE sent[r] < BodyLen /\ sent' = [sent EXCEPT ![r] = @ + 1]
      BY <3>2, TunnelAssumption
    <3> QED BY <1>3, <3>1, <3>2 DEF SendBody
  <2> QED BY <1>3, <2>1, <2>2, <2>3 DEF SendBody, WireType
<1>4. CASE SendFails(r)
  BY <1>a, <1>4 DEF SendFails
<1>5. CASE ReadStream(r)
  BY <1>a, <1>5 DEF ReadStream
<1>6. CASE FirstChunk(r)
  <2>1. QueueType'
    BY <1>0, <1>6, QueueTypes, FrameTypes DEF FirstChunk
  <2> QED BY <1>a, <1>6, <2>1 DEF FirstChunk, QueueType
<1>7. CASE FirstByteTimeout(r) \/ CancelSent(r)
  <2>1. WireType'
    BY <1>0, <1>7, WireTypes, FrameTypes DEF FirstByteTimeout, CancelSent, Frame, WireType
  <2>2. rpc' \in [Reqs -> RelayPcs]
    BY <1>a, <1>7 DEF FirstByteTimeout, CancelSent
  <2> QED BY <1>a, <1>7, <2>1, <2>2 DEF FirstByteTimeout, CancelSent, WireType
<1>8. CASE StartStream(r)
  BY <1>a, <1>8 DEF StartStream
<1>9. CASE Finish(r)
  BY <1>a, <1>9 DEF Finish
<1>10. CASE Chunk(r)
  <2>1. QueueType' /\ Head(queue["relay"][r]) \in 0..MaxFrame
    BY <1>0, <1>10, QueueTypes, FrameTypes DEF Chunk
  <2>2. delivered' \in [Reqs -> Seq(0..MaxFrame)]
    <3>1. Append(delivered[r], Head(queue["relay"][r])) \in Seq(0..MaxFrame)
      BY <2>1, AppendProperties
    <3> QED BY <1>10, <3>1 DEF Chunk
  <2> QED BY <1>10, <2>1, <2>2 DEF Chunk, QueueType
<1>11. CASE AbortUpload(r) \/ LeftBeforeStart(r)
  BY <1>a, <1>11 DEF AbortUpload, LeftBeforeStart
<1>12. CASE CancelOnDisconnect(r)
  <2>1. QueueType'
    BY <1>0, <1>12, QueueTypes, FrameTypes DEF CancelOnDisconnect
  <2> QED BY <1>a, <1>12, <2>1 DEF CancelOnDisconnect, QueueType
<1>13. CASE Dropped(r)
  BY <1>a, <1>13 DEF Dropped
<1> QED BY <1>1, <1>2, <1>3, <1>4, <1>5, <1>6, <1>7, <1>8, <1>9, <1>10, <1>11, <1>12, <1>13
        DEF RelayStep

LEMMA AgentTypes ==
  ASSUME TypeInv, NEW r \in Reqs, AgentStep(r)
  PROVE  TypeInv'
<1> USE DEF TypeInv, TypeOK, HeartInv, net, ends, heart, visitors, handlers,
            AgentPcs
<1>0. "relay" \in Sides /\ "agent" \in Sides /\ WireType /\ QueueType
  BY DEF Sides, WireType, QueueType
<1>1. CASE HandlerStart(r)
  BY <1>1 DEF HandlerStart
<1>2. CASE BodyChunk(r)
  <2>1. QueueType' /\ Head(queue["agent"][r]) \in 0..MaxFrame
    BY <1>0, <1>2, QueueTypes, FrameTypes DEF BodyChunk
  <2>2. Append(got[r], Head(queue["agent"][r])) \in Seq(0..MaxFrame)
    BY <2>1, AppendProperties
  <2>3. got' \in [Reqs -> Seq(0..MaxFrame)]
    BY <1>2, <2>2 DEF BodyChunk
  <2>4. streams' \in [Sides -> SUBSET Reqs]
    BY <1>0, <1>2, SlotMoves DEF BodyChunk
  <2>5. apc' \in [Reqs -> AgentPcs]
    BY <1>2 DEF BodyChunk
  <2> QED BY <1>2, <2>1, <2>3, <2>4, <2>5 DEF BodyChunk, QueueType
<1>3. CASE Respond(r)
  <2>1. WireType'
    <3>1. asent[r] <= RespLen => asent[r] \in 0..RespLen
      BY TunnelAssumption
    <3>2. Signal("close", r) \in Frame /\ (asent[r] <= RespLen => Data(r, asent[r]) \in Frame)
      BY <3>1, FrameTypes DEF Frame
    <3> QED BY <1>0, <1>3, <3>2, WireTypes DEF Respond
  <2>2. apc' \in [Reqs -> AgentPcs]
    BY <1>3 DEF Respond
  <2>3. asent' \in [Reqs -> 0..(RespLen + 1)]
    <3>1. CASE asent' = asent
      BY <3>1
    <3>2. CASE asent[r] <= RespLen /\ asent' = [asent EXCEPT ![r] = @ + 1]
      BY <3>2, TunnelAssumption
    <3> QED BY <1>3, <3>1, <3>2 DEF Respond
  <2> QED BY <1>3, <2>1, <2>2, <2>3 DEF Respond, WireType
<1>4. CASE RespondFails(r)
  BY <1>4 DEF RespondFails
<1> QED BY <1>1, <1>2, <1>3, <1>4 DEF AgentStep

LEMMA ReceiveTypes ==
  ASSUME TypeInv, NEW s \in Sides, Receive(s)
  PROVE  TypeInv'
<1> USE DEF TypeInv, TypeOK, HeartInv, net, ends, heart, visitors, handlers
<1>0. "relay" \in Sides /\ "agent" \in Sides /\ WireType /\ QueueType /\ NoFrame \in Frame
  BY FrameTypes DEF Sides, WireType, QueueType, Frame
<1>1. CASE ReceiveData(s)
  <2> DEFINE f == Head(wire[s])
  <2>1. f \in StreamFrame /\ f.req \in Reqs /\ f.n \in 0..MaxFrame
    BY <1>1, HeadTypes DEF ReceiveData
  <2>2. WireType'
    BY <1>0, <1>1, WireTypes DEF ReceiveData, Incoming
  <2>3. QueueType'
    <3>1. CASE queue' = queue
      BY <1>0, <3>1 DEF QueueType
    <3>2. CASE queue' = [queue EXCEPT ![s][f.req] = Append(@, f.n)]
      BY <1>0, <2>1, <3>2, QueueTypes
    <3> QED BY <1>1, <3>1, <3>2 DEF ReceiveData
  <2>4. put' \in [Sides -> StreamFrame \cup {NoFrame}]
    BY <1>1, <2>1 DEF ReceiveData
  <2> QED BY <1>1, <2>2, <2>3, <2>4 DEF ReceiveData, WireType, QueueType
<1>2. CASE PutDone(s)
  <2>1. put[s].req \in Reqs /\ put[s].n \in 0..MaxFrame
    BY <1>2 DEF PutDone, StreamFrame
  <2>2. QueueType'
    BY <1>0, <1>2, <2>1, QueueTypes DEF PutDone
  <2>3. put' \in [Sides -> StreamFrame \cup {NoFrame}]
    BY <1>2 DEF PutDone
  <2> QED BY <1>2, <2>2, <2>3 DEF PutDone, QueueType
<1>3. CASE ReceiveEnd(s)
  <2>1. WireType'
    BY <1>0, <1>3, WireTypes DEF ReceiveEnd, Incoming
  <2>2. ended' \in [Sides -> SUBSET Reqs]
    BY <1>3 DEF ReceiveEnd
  <2> QED BY <1>3, <2>1, <2>2 DEF ReceiveEnd, WireType
<1>4. CASE ReceivePong(s)
  <2>1. WireType'
    BY <1>0, <1>4, WireTypes DEF ReceivePong, Incoming
  <2> QED BY <1>4, <2>1 DEF ReceivePong, WireType
<1>5. CASE ReceivePing(s)
  <2>1. WireType'
    <3>1. CASE Take(s)
      BY <1>0, <1>5, <3>1, WireTypes DEF ReceivePing, Incoming
    <3>2. CASE ~Take(s)
      <4>1. Signal("pong", NoReq) \in Frame
        BY FrameTypes DEF Frame
      <4>2. Peer(s) \in Sides /\ Append(wire[Peer(s)], Signal("pong", NoReq)) \in Seq(Frame)
        BY <4>1, AppendProperties DEF Peer, Sides
      <4>3. Tail(wire[s]) \in Seq(Frame)
        BY <1>5, HeadTailProperties DEF ReceivePing, Incoming
      <4>4. s # Peer(s)
        BY DEF Peer, Sides
      <4> QED BY <1>5, <3>2, <4>2, <4>3, <4>4 DEF ReceivePing, WireType
    <3> QED BY <3>1, <3>2
  <2>2. Settled' /\ HeartInv' /\ loop' \in [Sides -> {"run", "prompt", "drain", "gone"}]
    BY <1>5, EndLoopTypes DEF ReceivePing, Settled
  <2> QED BY <1>5, <2>1, <2>2 DEF ReceivePing, WireType, Settled
<1>6. CASE LoopEnds(s)
  <2>1. Settled' /\ HeartInv' /\ loop' \in [Sides -> {"run", "prompt", "drain", "gone"}]
    BY <1>6, EndLoopTypes DEF LoopEnds
  <2> QED BY <1>6, <2>1 DEF LoopEnds, Settled
<1>7. CASE ReceiveOpen
  <2>1. WireType'
    BY <1>0, <1>7, WireTypes DEF ReceiveOpen, Incoming
  <2>2. Head(wire["agent"]).req \in Reqs
    BY OpenHead, <1>7
  <2>3. streams' \in [Sides -> SUBSET Reqs]
    BY <1>0, <1>7, <2>2, SlotMoves DEF ReceiveOpen
  <2>4. apc' \in [Reqs -> AgentPcs]
    BY <1>7, <2>2 DEF ReceiveOpen, AgentPcs
  <2>5. loop' \in [Sides -> {"run", "prompt", "drain", "gone"}]
    BY <1>0, <1>7 DEF ReceiveOpen
  <2> QED BY <1>7, <2>1, <2>3, <2>4, <2>5 DEF ReceiveOpen, WireType
<1>8. CASE ReceiveExpired
  <2>1. WireType'
    BY <1>0, <1>8, WireTypes DEF ReceiveExpired, Incoming
  <2> QED BY <1>0, <1>8, <2>1 DEF ReceiveExpired, WireType
<1>9. CASE ReceiveChoice
  <2>1. WireType'
    BY <1>0, <1>9, WireTypes DEF ReceiveChoice, Incoming
  <2> QED BY <1>9, <2>1 DEF ReceiveChoice, WireType
<1> QED BY <1>1, <1>2, <1>3, <1>4, <1>5, <1>6, <1>7, <1>8, <1>9 DEF Receive

LEMMA HeartbeatTypes ==
  ASSUME TypeInv, NEW s \in Sides, Heartbeat(s)
  PROVE  TypeInv'
<1> USE DEF TypeInv, TypeOK, HeartInv, net, ends, heart, visitors, handlers
<1>1. CASE Ping(s)
  <2>1. Signal("ping", NoReq) \in Frame /\ Peer(s) \in Sides
    BY FrameTypes DEF Frame, Peer, Sides
  <2>2. WireType'
    BY <1>1, <2>1, WireTypes DEF Ping, WireType
  <2> QED BY <1>1, <2>2 DEF Ping, WireType
<1>2. CASE PongSeen(s)
  BY <1>2, TunnelAssumption DEF PongSeen
<1>3. CASE Miss(s)
  <2>1. missed[s] < Limit /\ missed[s] + 1 \in 0..Limit /\ ~shut[s]
    BY <1>3, TunnelAssumption DEF Miss
  <2>2. missed' \in [Sides -> 0..Limit]
    BY <1>3, <2>1 DEF Miss
  <2>3. CASE TearDown(s)
    <3>1. /\ shut' = [shut EXCEPT ![s] = TRUE] /\ ended' = [ended EXCEPT ![s] = @ \cup streams[s]]
          /\ streams' = [streams EXCEPT ![s] = {}] /\ beat' = [beat EXCEPT ![s] = "dead"]
      BY <2>1, <2>3 DEF TearDown
    <3>2. streams' \in [Sides -> SUBSET Reqs]
      BY <3>1
    <3>3. ended' \in [Sides -> SUBSET Reqs]
      BY <3>1
    <3>4. shut' \in [Sides -> BOOLEAN] /\ beat' \in [Sides -> {"sleep", "wait", "dead"}]
      BY <3>1
    <3>5. HeartInv'
      BY <1>3, <3>1 DEF Miss
    <3> QED BY <1>3, <2>2, <3>2, <3>3, <3>4, <3>5 DEF Miss
  <2>4. CASE missed[s] + 1 < Limit /\ beat' = [beat EXCEPT ![s] = "sleep"]
             /\ UNCHANGED <<shut, ended, streams>>
    <3>1. HeartInv'
      BY <1>3, <2>1, <2>4 DEF Miss
    <3> QED BY <1>3, <2>2, <2>4, <3>1 DEF Miss
  <2> QED BY <1>3, <2>3, <2>4 DEF Miss
<1> QED BY <1>1, <1>2, <1>3 DEF Heartbeat

LEMMA EnvironmentTypes ==
  ASSUME TypeInv, UserAnswers \/ Drained \/ SocketLost \/ (\E s \in Sides : Close(s))
  PROVE  TypeInv'
<1> USE DEF TypeInv, TypeOK, HeartInv, net, ends, heart, visitors, handlers
<1>0. "relay" \in Sides /\ "agent" \in Sides /\ WireType /\ NoFrame \in Frame
  BY FrameTypes DEF Sides, WireType, Frame
<1>1. CASE UserAnswers
  <2>1. Signal("choice", NoReq) \in Frame
    BY FrameTypes DEF Frame
  <2>2. WireType'
    BY <1>0, <1>1, <2>1, WireTypes DEF UserAnswers, WireType
  <2> QED BY <1>0, <1>1, <2>2 DEF UserAnswers, WireType
<1>2. CASE Drained
  <2>1. WireType' /\ up' \in BOOLEAN
    BY <1>0, <1>2, WireTypes DEF Drained, Cut
  <2>2. Settled' /\ HeartInv'
    BY <1>0, <1>2, TearDownTypes DEF Drained
  <2> QED BY <1>0, <1>2, <2>1, <2>2 DEF Drained, WireType, Settled
<1>3. CASE SocketLost
  <2>1. WireType' /\ up' \in BOOLEAN
    BY <1>0, <1>3, WireTypes DEF SocketLost, Cut
  <2> QED BY <1>3, <2>1 DEF SocketLost, WireType
<1>4. ASSUME NEW s \in Sides, Close(s) PROVE TypeInv'
  <2>1. WireType' /\ up' \in BOOLEAN
    BY <1>0, <1>4, WireTypes DEF Close, Cut
  <2>2. Settled' /\ HeartInv'
    BY <1>4, TearDownTypes DEF Close
  <2> QED BY <1>4, <2>1, <2>2 DEF Close, WireType, Settled
<1> QED BY <1>1, <1>2, <1>3, <1>4

\* The inductive step.
LEMMA TypeStep == TypeInv /\ [Next]_vars => TypeInv'
<1> SUFFICES ASSUME TypeInv PROVE [Next]_vars => TypeInv'
  OBVIOUS
<1>1. CASE UNCHANGED vars
  BY <1>1 DEF vars, net, ends, heart, visitors, handlers, TypeInv, TypeOK, HeartInv
<1>2. CASE Next
  BY <1>2, VisitorTypes, AgentTypes, ReceiveTypes, HeartbeatTypes, EnvironmentTypes DEF Next
<1> QED BY <1>1, <1>2

\* Every frame on a wire, in a queue or waiting to be put belongs to a known
\* request, and the counters of _send_body, of the response and of the
\* heartbeat stay within their bounds: the heartbeat counts to its limit at
\* most once, because _tear_down cancels it.
THEOREM TypeCorrect == Spec => []TypeOK
<1>1. Init => TypeInv
  <2> SUFFICES ASSUME Init PROVE TypeInv
    OBVIOUS
  <2>1. /\ Signal("expired", NoReq) \in Frame
        /\ <<>> \in Seq(Frame) /\ <<>> \in Seq(0..MaxFrame)
        /\ <<Signal("expired", NoReq)>> \in Seq(Frame)
    BY FrameTypes DEF Frame
  <2>2. wire \in [Sides -> Seq(Frame)]
    BY <2>1 DEF Init
  <2>3. queue \in [Sides -> [Reqs -> Seq(0..MaxFrame)]]
    BY <2>1 DEF Init
  <2>4. HeartInv
    BY TunnelAssumption DEF Init, HeartInv
  <2> QED BY <2>1, <2>2, <2>3, <2>4, TunnelAssumption
          DEF Init, TypeInv, TypeOK, RelayPcs, Cancelling, AgentPcs, Outcomes
<1>2. TypeInv => TypeOK
  BY DEF TypeInv
<1> QED BY <1>1, <1>2, TypeStep, PTL DEF Spec

(***************************************************************************)
(* The relay gives its stream slots back.                                   *)
(***************************************************************************)
SlotTypes ==
    /\ rpc \in [Reqs -> RelayPcs]
    /\ streams \in [Sides -> SUBSET Reqs]

SlotsInv == SlotTypes /\ SlotsReleased

\* A step in which request r moves and no slot is taken: the slots are as
\* before or r's is given back, and r ends only without its slot or on a dead
\* socket.
LEMMA MoveKeepsSlots ==
  ASSUME SlotsInv, NEW r \in Reqs, NEW place \in RelayPcs,
         Move(r, place), up' => up,
         \/ streams' = streams
         \/ RemoveStream("relay", r),
         place \in Outcomes => r \notin streams'["relay"] \/ ~up',
         place # "idle"
  PROVE  SlotsInv'
<1> USE DEF SlotsInv, SlotTypes
<1>1. rpc' \in [Reqs -> RelayPcs]
  BY DEF Move
<1>2. streams' \in [Sides -> SUBSET Reqs] /\ streams'["relay"] \subseteq streams["relay"]
  BY DEF RemoveStream, Sides
<1>3. ASSUME NEW q \in streams'["relay"] PROVE Live(q)' \/ ~up'
  <2>1. CASE q = r
    BY <2>1, <1>3 DEF Move, Live
  <2>2. CASE q # r
    <3>1. rpc'[q] = rpc[q]
      BY <2>2, <1>2, <1>3 DEF Move, Sides
    <3> QED BY <3>1, <1>2, <1>3 DEF SlotsReleased, Live
  <2> QED BY <2>1, <2>2
<1> QED BY <1>1, <1>2, <1>3 DEF SlotsReleased

\* A step that leaves the visitors alone, and at the relay takes no slot.
LEMMA QuietKeepsSlots ==
  ASSUME SlotsInv, rpc' = rpc, up' => up,
         streams' \in [Sides -> SUBSET Reqs],
         streams'["relay"] \subseteq streams["relay"]
  PROVE  SlotsInv'
BY DEF SlotsInv, SlotTypes, SlotsReleased, Live

\* What _tear_down does to the slots.
LEMMA TearDownSlots ==
  ASSUME SlotsInv, NEW s \in Sides, TearDown(s)
  PROVE  /\ streams' \in [Sides -> SUBSET Reqs]
         /\ streams'["relay"] \subseteq streams["relay"]
BY DEF TearDown, SlotsInv, SlotTypes, Sides

\* The agent's own slots do not count at the relay.
LEMMA AgentSlots ==
  ASSUME SlotsInv, NEW S \in SUBSET Reqs,
         streams' = [streams EXCEPT !["agent"] = S]
  PROVE  /\ streams' \in [Sides -> SUBSET Reqs]
         /\ streams'["relay"] = streams["relay"]
BY DEF SlotsInv, SlotTypes, Sides

LEMMA VisitorStep ==
  ASSUME SlotsInv, "leave" \notin Faults, "abort" \notin Faults, NEW r \in Reqs,
         \/ Request(r) \/ RelayStep(r) \/ Chunk(r)
         \/ AbortUpload(r) \/ LeftBeforeStart(r) \/ CancelOnDisconnect(r) \/ Dropped(r)
  PROVE  SlotsInv'
<1> USE DEF RelayPcs, Cancelling, Outcomes, net, ends
<1>1. CASE Request(r)
  <2>1. CASE streams' = streams
    <3>1. r \notin streams'["relay"] \/ ~up'
      BY <1>1, <2>1 DEF Request, SlotsInv, SlotsReleased, Live
    <3>2. up' = up /\ (Move(r, "offline") \/ Move(r, "error") \/ Move(r, "opened"))
      BY <1>1 DEF Request
    <3> QED BY <2>1, <3>1, <3>2, MoveKeepsSlots
  <2>2. CASE OpenStream("relay", r) /\ Move(r, "opened")
    <3>1. rpc' \in [Reqs -> RelayPcs] /\ streams' \in [Sides -> SUBSET Reqs]
      BY <2>2 DEF OpenStream, Move, SlotsInv, SlotTypes, Sides
    <3>2. ASSUME NEW q \in streams'["relay"] PROVE Live(q)' \/ ~up'
      <4>1. CASE q = r
        BY <4>1, <2>2 DEF Move, Live, SlotsInv, SlotTypes
      <4>2. CASE q # r
        <5>1. q \in streams["relay"] /\ q \in Reqs
          BY <4>2, <3>2, <2>2 DEF OpenStream, SlotsInv, SlotTypes, Sides
        <5>2. rpc'[q] = rpc[q] /\ up' = up
          BY <4>2, <5>1, <2>2, <1>1 DEF Move, Request, SlotsInv, SlotTypes
        <5> QED BY <5>1, <5>2 DEF SlotsInv, SlotsReleased, Live
      <4> QED BY <4>1, <4>2
    <3> QED BY <3>1, <3>2 DEF SlotsInv, SlotTypes, SlotsReleased
  <2> QED BY <1>1, <2>1, <2>2 DEF Request
<1>2. CASE SendOpen(r)
  <2>1. CASE Move(r, "body") /\ streams' = streams
    BY <1>2, <2>1, MoveKeepsSlots DEF SendOpen
  <2>2. CASE RemoveStream("relay", r) /\ Move(r, "rejected")
    <3>1. r \notin streams'["relay"]
      BY <2>2 DEF RemoveStream, SlotsInv, SlotTypes, Sides
    <3> QED BY <1>2, <2>2, <3>1, MoveKeepsSlots DEF SendOpen
  <2> QED BY <1>2, <2>1, <2>2 DEF SendOpen
<1>3. CASE SendBody(r)
  <2>1. CASE rpc' = rpc
    BY <1>3, <2>1, QuietKeepsSlots DEF SendBody, SlotsInv, SlotTypes
  <2>2. CASE Move(r, "sent")
    BY <1>3, <2>2, MoveKeepsSlots DEF SendBody
  <2> QED BY <1>3, <2>1, <2>2 DEF SendBody
<1>4. CASE SendFails(r)
  BY <1>4, MoveKeepsSlots DEF SendFails
<1>5. CASE ReadStream(r)
  BY <1>5, MoveKeepsSlots DEF ReadStream
<1>6. CASE FirstChunk(r)
  BY <1>6, MoveKeepsSlots DEF FirstChunk
<1>7. CASE FirstByteTimeout(r) \/ CancelSent(r)
  <2>1. CASE FirstByteTimeout(r)
    BY <2>1, MoveKeepsSlots DEF FirstByteTimeout
  <2>2. CASE CancelSent(r)
    <3>1. r \notin streams'["relay"]
      BY <2>2 DEF CancelSent, RemoveStream, SlotsInv, SlotTypes, Sides
    <3>2. up' = up /\ \E place \in {"timeout", "left"} : Move(r, place)
      BY <2>2 DEF CancelSent
    <3> QED BY <2>2, <3>1, <3>2, MoveKeepsSlots DEF CancelSent
  <2> QED BY <1>7, <2>1, <2>2
<1>8. CASE StartStream(r)
  BY <1>8, MoveKeepsSlots DEF StartStream
<1>9. CASE Finish(r)
  <2>1. r \notin streams'["relay"]
    BY <1>9 DEF Finish, RemoveStream, SlotsInv, SlotTypes, Sides
  <2> QED BY <1>9, <2>1, MoveKeepsSlots DEF Finish
<1>10. CASE Chunk(r)
  BY <1>10, QuietKeepsSlots DEF Chunk, SlotsInv, SlotTypes
<1> QED BY <1>1, <1>2, <1>3, <1>4, <1>5, <1>6, <1>7, <1>8, <1>9, <1>10
        DEF RelayStep, AbortUpload, LeftBeforeStart, CancelOnDisconnect, Dropped

LEMMA AgentStepSlots ==
  ASSUME SlotsInv, NEW r \in Reqs, AgentStep(r)
  PROVE  SlotsInv'
<1> USE DEF net, ends, visitors
<1>1. CASE HandlerStart(r)
  BY <1>1, QuietKeepsSlots DEF HandlerStart, SlotsInv, SlotTypes
<1>2. CASE BodyChunk(r)
  <2>1. streams' = streams \/ streams' = [streams EXCEPT !["agent"] = streams["agent"] \ {r}]
    BY <1>2 DEF BodyChunk, RemoveStream
  <2>2. streams["agent"] \ {r} \in SUBSET Reqs
    BY DEF SlotsInv, SlotTypes, Sides
  <2>3. /\ streams' \in [Sides -> SUBSET Reqs]
        /\ streams'["relay"] = streams["relay"]
    BY <2>1, <2>2, AgentSlots DEF SlotsInv, SlotTypes
  <2> QED BY <1>2, <2>3, QuietKeepsSlots DEF BodyChunk
<1>3. CASE Respond(r)
  BY <1>3, QuietKeepsSlots DEF Respond, SlotsInv, SlotTypes
<1>4. CASE RespondFails(r)
  BY <1>4, QuietKeepsSlots DEF RespondFails, SlotsInv, SlotTypes
<1> QED BY <1>1, <1>2, <1>3, <1>4 DEF AgentStep

LEMMA ConnectionStep ==
  ASSUME SlotsInv, TypeOK, NEW s \in Sides,
         Receive(s) \/ Heartbeat(s) \/ Close(s)
  PROVE  SlotsInv'
<1> USE DEF net, ends, heart, visitors
<1>0. streams \in [Sides -> SUBSET Reqs]
  BY DEF SlotsInv, SlotTypes
<1>1. CASE streams' = streams /\ rpc' = rpc /\ up' = up
  BY <1>0, <1>1, QuietKeepsSlots
<1>2. CASE TearDown(s) /\ rpc' = rpc /\ (up' => up)
  BY <1>2, TearDownSlots, QuietKeepsSlots
<1>3. CASE ReceiveOpen
  <2>1. streams' = streams \/ \E r \in Reqs : OpenStream("agent", r)
    BY <1>3, OpenHead DEF ReceiveOpen
  <2>2. CASE streams' = streams
    BY <1>0, <1>3, <2>2, QuietKeepsSlots DEF ReceiveOpen
  <2>3. CASE \E r \in Reqs : OpenStream("agent", r)
    <3>1. PICK r \in Reqs : OpenStream("agent", r)
      BY <2>3
    <3>2. streams["agent"] \cup {r} \in SUBSET Reqs
      BY <1>0 DEF Sides
    <3>3. /\ streams' \in [Sides -> SUBSET Reqs]
          /\ streams'["relay"] = streams["relay"]
      BY <3>1, <3>2, AgentSlots DEF OpenStream
    <3> QED BY <1>3, <3>3, QuietKeepsSlots DEF ReceiveOpen
  <2> QED BY <2>1, <2>2, <2>3
<1>4. CASE ReceiveData(s) \/ ReceiveEnd(s) \/ ReceivePong(s) \/ PutDone(s)
  BY <1>1, <1>4 DEF ReceiveData, ReceiveEnd, ReceivePong, PutDone
<1>5. CASE ReceivePing(s) \/ LoopEnds(s)
  BY <1>1, <1>2, <1>5 DEF ReceivePing, LoopEnds, EndLoop
<1>6. CASE ReceiveExpired \/ ReceiveChoice
  BY <1>1, <1>6 DEF ReceiveExpired, ReceiveChoice
<1>7. CASE Heartbeat(s)
  BY <1>1, <1>2, <1>7 DEF Heartbeat, Ping, PongSeen, Miss
<1>8. CASE Close(s)
  BY <1>2, <1>8 DEF Close, Cut
<1> QED BY <1>3, <1>4, <1>5, <1>6, <1>7, <1>8 DEF Receive

\* The inductive step.
LEMMA SlotsStep ==
  ASSUME "leave" \notin Faults, "abort" \notin Faults
  PROVE  SlotsInv /\ TypeOK /\ [Next]_vars => SlotsInv'
<1> SUFFICES ASSUME SlotsInv, TypeOK PROVE [Next]_vars => SlotsInv'
  OBVIOUS
<1>1. ASSUME NEW r \in Reqs,
             \/ Request(r) \/ RelayStep(r) \/ Chunk(r)
             \/ AbortUpload(r) \/ LeftBeforeStart(r) \/ CancelOnDisconnect(r) \/ Dropped(r)
      PROVE  SlotsInv'
  BY <1>1, VisitorStep
<1>2. ASSUME NEW r \in Reqs, AgentStep(r) PROVE SlotsInv'
  BY <1>2, AgentStepSlots
<1>3. ASSUME NEW s \in Sides, Receive(s) \/ Heartbeat(s) \/ Close(s) PROVE SlotsInv'
  BY <1>3, ConnectionStep
<1>4. CASE UserAnswers \/ SocketLost
  BY <1>4, QuietKeepsSlots DEF UserAnswers, SocketLost, Cut, ends, visitors, SlotsInv, SlotTypes
<1>5. CASE Drained
  <2>1. "agent" \in Sides
    BY DEF Sides
  <2> QED BY <1>5, <2>1, TearDownSlots, QuietKeepsSlots DEF Drained, Cut, visitors
<1>6. CASE UNCHANGED vars
  BY <1>6, QuietKeepsSlots DEF vars, net, ends, visitors, SlotsInv, SlotTypes
<1> QED BY <1>1, <1>2, <1>3, <1>4, <1>5, <1>6 DEF Next

\* As long as browsers stay, the relay gives back every stream slot: none is
\* held for a request that has ended, unless its socket is dead and the
\* teardown is about to clear it.  Every path of proxy_request that ends
\* without remove_stream would refute this.
THEOREM SlotsGivenBack ==
  ASSUME "leave" \notin Faults, "abort" \notin Faults
  PROVE  Spec => []SlotsReleased
<1>1. Init => SlotsInv
  BY DEF Init, SlotsInv, SlotTypes, SlotsReleased, RelayPcs, Cancelling, Sides
<1>2. SlotsInv /\ TypeOK /\ [Next]_vars => SlotsInv'
  BY SlotsStep
<1>3. SlotsInv => SlotsReleased
  BY DEF SlotsInv
<1> QED BY <1>1, <1>2, <1>3, TypeCorrect, PTL DEF Spec

(***************************************************************************)
(* Frames arrive in order.                                                  *)
(*                                                                         *)
(* The frames of a request are numbered in the order in which they are      *)
(* written.  To the agent: OPEN, the body, the sentinel.  To the relay: the  *)
(* metadata, the body, CLOSE.                                               *)
(***************************************************************************)
Count(s, n) == IF s = "agent" /\ n = 0 THEN BodyLen + 1 ELSE n

\* The number of frame f, sent to s, among the frames of request r.
Number(s, r, f) ==
    IF f.req # r THEN -1
    ELSE IF f.kind = "data" THEN Count(s, f.n)
    ELSE IF s = "agent" /\ f.kind = "open" THEN 0
    ELSE IF s = "relay" /\ f.kind = "close" THEN RespLen + 1
    ELSE -1

\* On wire w to s the frames of r are in the order in which they were written,
\* all of them numbered below b;
Rising(w, s, r) ==
    \A i, j \in 1..Len(w) :
        i < j /\ Number(s, r, w[i]) >= 0 /\ Number(s, r, w[j]) >= 0
            => Number(s, r, w[i]) < Number(s, r, w[j])
Below(w, s, r, b) == \A i \in 1..Len(w) : Number(s, r, w[i]) < b

\* the first of them is number b and none is missing between two of them;
Gapless(w, s, r, b) ==
    \A i \in 1..Len(w) : Number(s, r, w[i]) >= 0 =>
        /\ b <= Number(s, r, w[i])
        /\ \A m \in b..(Number(s, r, w[i]) - 1) :
              \E j \in 1..Len(w) : j < i /\ Number(s, r, w[j]) = m

\* all of those from b and below c are on their way.
OnItsWay(w, s, r, b, c) ==
    \A m \in b..(c - 1) : \E i \in 1..Len(w) : Number(s, r, w[i]) = m

\* A request the agent has not been asked to answer: its body is not complete,
\* or it failed on a dead socket before it was.
Unasked(r) ==
    \/ rpc[r] \in {"idle", "opened", "body"}
    \/ rpc[r] = "error" /\ r \in streams["relay"]

\* How many frames of r were written to s (at most, once its writer has
\* stopped); whether the writer is still at it.
Written(s, r) ==
    IF s = "agent"
    THEN IF rpc[r] \in {"idle", "opened"} THEN 0
         ELSE IF rpc[r] = "body" THEN 1 + sent[r]
         ELSE IF Unasked(r) THEN BodyLen + 1 ELSE BodyLen + 2
    ELSE IF apc[r] = "done" /\ asent[r] = RespLen + 1 THEN RespLen + 2 ELSE asent[r]
Writing(s, r) ==
    IF s = "agent" THEN rpc[r] \in {"idle", "opened", "body"} ELSE apc[r] # "done"

\* How many frames of r the reader at s has consumed, and how many the receive
\* loop has taken off the wire for it.
Consumed(s, r) ==
    IF s = "agent" THEN IF apc[r] = "none" THEN 0 ELSE 1 + Len(got[r])
    ELSE IF rpc[r] \in {"head", "stream"} THEN 1 + Len(delivered[r]) ELSE 0
Taken(s, r) ==
    Consumed(s, r) + Len(queue[s][r]) + (IF put[s].req = r THEN 1 ELSE 0)

\* The reader of r at s has not given up.
Reading(s, r) ==
    \/ s = "agent" \/ Unasked(r)
    \/ rpc[r] \in {"sent", "first", "head", "stream"}

\* The receive loop of s does not ignore the frames of r.
Listening(s, r) ==
    IF s = "agent"
    THEN \/ r \in streams["agent"]
         \/ apc[r] = "none" /\ loop["agent"] \in {"run", "prompt"}
    ELSE r \in streams["relay"] /\ Reading("relay", r)

QueueInv(s, r) ==
    Reading(s, r) =>
        /\ \A i \in 1..Len(queue[s][r]) :
              Count(s, queue[s][r][i]) = Consumed(s, r) + i - 1
        /\ put[s].req = r =>
              Count(s, put[s].n) = Consumed(s, r) + Len(queue[s][r])
        /\ Taken(s, r) <= Written(s, r)

WireInv(s, r) ==
    /\ Rising(wire[s], s, r)
    /\ Below(wire[s], s, r, Written(s, r))
    /\ Listening(s, r) => Gapless(wire[s], s, r, Taken(s, r))
    /\ Listening(s, r) /\ up /\ Writing(s, r) =>
          OnItsWay(wire[s], s, r, Taken(s, r), Written(s, r))

NoOpen(w, r) == \A i \in 1..Len(w) : Number("agent", r, w[i]) # 0

HandlerInv(r) ==
    /\ r \in streams["agent"] => apc[r] \in {"spawned", "body"}
    /\ apc[r] \in {"none", "spawned"} => got[r] = <<>>
    /\ apc[r] = "none" => queue["agent"][r] = <<>> /\ put["agent"].req # r
    /\ apc[r] # "none" => NoOpen(wire["agent"], r)
    /\ apc[r] \in {"none", "spawned", "body"} => asent[r] = 0
    /\ apc[r] = "respond" \/ asent[r] > 0 => ~Unasked(r)
    /\ \A i \in 1..Len(got[r]) : got[r][i] = i
    /\ apc[r] = "respond" => Len(got[r]) = BodyLen

VisitorInv(r) ==
    /\ r \in streams["relay"] => Served(r) \/ rpc[r] \in {"error", "left"} \cup Cancelling
    /\ Served(r) => r \in streams["relay"] \/ shut["relay"]
    /\ rpc[r] \in {"idle", "opened"} => sent[r] = 0
    /\ Reading("relay", r) /\ rpc[r] # "stream" => delivered[r] = <<>>
    /\ Reading("relay", r) => Taken("relay", r) <= RespLen + 1
    /\ r \in ended["relay"] /\ ~shut["relay"] /\ Reading("relay", r) =>
          /\ put["relay"].req # r
          /\ Consumed("relay", r) + Len(queue["relay"][r]) = RespLen + 1

\* PutHasReader, about one request.
PutInv(r) ==
    put["relay"].req = r => \/ Served(r) \/ Len(queue["relay"][r]) < Depth
                            \/ rpc[r] \in Cancelling \cup {"timeout", "left"} \/ shut["relay"]

\* The agent sends the relay only DATA and CLOSE about a stream.
ResponseFrames ==
    \A i \in 1..Len(wire["relay"]) :
        /\ wire["relay"][i].kind \notin {"open", "cancel"}
        /\ wire["relay"][i].kind = "data" => wire["relay"][i].n <= RespLen

ReqInv(r) ==
    /\ HandlerInv(r) /\ VisitorInv(r) /\ PutInv(r)
    /\ \A s \in Sides : QueueInv(s, r) /\ WireInv(s, r)

OrderInv == ResponseFrames /\ \A r \in Reqs : ReqInv(r)

LEMMA NumberTypes ==
  ASSUME NEW s \in Sides, NEW r \in Reqs, NEW f \in Frame
  PROVE  Number(s, r, f) \in Int /\ Number(s, r, f) >= -1
<1>1. f.n \in Nat
  <2>1. MaxFrame \in Nat
    BY TunnelAssumption DEF MaxFrame
  <2>2. CASE f \in StreamFrame
    BY <2>1, <2>2 DEF StreamFrame
  <2>3. CASE f \in ControlFrame
    BY <2>3 DEF ControlFrame
  <2> QED BY <2>2, <2>3 DEF Frame
<1> QED BY <1>1, TunnelAssumption DEF Number, Count

\* The frames on a wire have numbers.
LEMMA WireNumbers ==
  ASSUME NEW w \in Seq(Frame), NEW s \in Sides, NEW r \in Reqs
  PROVE  /\ Len(w) \in Nat
         /\ \A i \in 1..Len(w) :
               /\ w[i] \in Frame
               /\ Number(s, r, w[i]) \in Int /\ Number(s, r, w[i]) >= -1
<1>1. Len(w) \in Nat /\ \A i \in 1..Len(w) : w[i] \in Frame
  OBVIOUS
<1> QED BY <1>1, NumberTypes

\* A frame that does not count is written.
LEMMA WriteOther ==
  ASSUME NEW w \in Seq(Frame), NEW f \in Frame, NEW s \in Sides, NEW r \in Reqs,
         Number(s, r, f) = -1
  PROVE  /\ Rising(w, s, r) => Rising(Append(w, f), s, r)
         /\ \A b \in Nat : Below(w, s, r, b) => Below(Append(w, f), s, r, b)
         /\ \A b \in Nat : Gapless(w, s, r, b) => Gapless(Append(w, f), s, r, b)
         /\ \A b, c \in Nat : OnItsWay(w, s, r, b, c) => OnItsWay(Append(w, f), s, r, b, c)
<1> DEFINE v == Append(w, f)
<1>1. /\ Len(v) = Len(w) + 1 /\ Len(w) \in Nat
      /\ \A i \in 1..Len(w) : v[i] = w[i]
      /\ v[Len(w) + 1] = f
  BY AppendProperties
<1>2. \A i \in 1..Len(v) : i \in 1..Len(w) \/ Number(s, r, v[i]) = -1
  BY <1>1
<1>3. \A i \in 1..Len(w) : i \in 1..Len(v) /\ v[i] = w[i]
  BY <1>1
<1> HIDE DEF v
<1>4. Rising(w, s, r) => Rising(v, s, r)
  BY <1>2, <1>3 DEF Rising
<1>5. \A b \in Nat : Below(w, s, r, b) => Below(v, s, r, b)
  BY <1>2, <1>3 DEF Below
<1>6. \A b \in Nat : Gapless(w, s, r, b) => Gapless(v, s, r, b)
  BY <1>2, <1>3 DEF Gapless
<1>7. \A b, c \in Nat : OnItsWay(w, s, r, b, c) => OnItsWay(v, s, r, b, c)
  BY <1>3 DEF OnItsWay
<1> QED BY <1>4, <1>5, <1>6, <1>7 DEF v

\* The next frame is written.
LEMMA WriteNext ==
  ASSUME NEW w \in Seq(Frame), NEW f \in Frame, NEW s \in Sides, NEW r \in Reqs,
         NEW c \in Nat, Number(s, r, f) = c, Rising(w, s, r), Below(w, s, r, c)
  PROVE  /\ Rising(Append(w, f), s, r)
         /\ Below(Append(w, f), s, r, c + 1)
         /\ \A b \in 0..c : Gapless(w, s, r, b) /\ OnItsWay(w, s, r, b, c) =>
               Gapless(Append(w, f), s, r, b) /\ OnItsWay(Append(w, f), s, r, b, c + 1)
<1> DEFINE v == Append(w, f)
<1>1. /\ Len(v) = Len(w) + 1 /\ Len(w) \in Nat
      /\ \A i \in 1..Len(w) : v[i] = w[i]
      /\ v[Len(w) + 1] = f
  BY AppendProperties
<1>2. \A i \in 1..Len(v) : i \in 1..Len(w) \/ (i = Len(w) + 1 /\ Number(s, r, v[i]) = c)
  BY <1>1
<1>3. \A i \in 1..Len(w) : i \in 1..Len(v) /\ v[i] = w[i] /\ i < Len(w) + 1
  BY <1>1
<1>4. Len(w) + 1 \in 1..Len(v) /\ Number(s, r, v[Len(w) + 1]) = c
  BY <1>1
<1>5. \A i \in 1..Len(w) : Number(s, r, w[i]) \in Int
  BY WireNumbers
<1> HIDE DEF v
<1>6. Rising(v, s, r)
  BY <1>1, <1>2, <1>3, <1>5 DEF Rising, Below
<1>7. Below(v, s, r, c + 1)
  BY <1>2, <1>3, <1>5 DEF Below
<1>8. ASSUME NEW b \in 0..c, Gapless(w, s, r, b), OnItsWay(w, s, r, b, c)
      PROVE  Gapless(v, s, r, b) /\ OnItsWay(v, s, r, b, c + 1)
  <2>1. Gapless(v, s, r, b)
    BY <1>2, <1>3, <1>8 DEF Gapless, OnItsWay
  <2>2. OnItsWay(v, s, r, b, c + 1)
    BY <1>3, <1>4, <1>8 DEF OnItsWay
  <2> QED BY <2>1, <2>2
<1> QED BY <1>6, <1>7, <1>8 DEF v

\* The receive loop takes a frame.
LEMMA TakeFirst ==
  ASSUME NEW w \in Seq(Frame), w # <<>>, NEW s \in Sides, NEW r \in Reqs
  PROVE  /\ Rising(w, s, r) => Rising(Tail(w), s, r)
         /\ \A b \in Int : Below(w, s, r, b) =>
               Below(Tail(w), s, r, b) /\ Number(s, r, Head(w)) < b
         /\ Number(s, r, Head(w)) = -1 =>
               /\ \A b \in Nat : Gapless(w, s, r, b) => Gapless(Tail(w), s, r, b)
               /\ \A b, c \in Nat : OnItsWay(w, s, r, b, c) => OnItsWay(Tail(w), s, r, b, c)
         /\ Number(s, r, Head(w)) >= 0 =>
               /\ \A b \in Nat : Gapless(w, s, r, b) =>
                     /\ Number(s, r, Head(w)) = b
                     /\ Rising(w, s, r) => Gapless(Tail(w), s, r, b + 1)
               /\ \A b, c \in Nat : OnItsWay(w, s, r, b, c) /\ Number(s, r, Head(w)) = b =>
                     OnItsWay(Tail(w), s, r, b + 1, c)
<1> DEFINE v == Tail(w)
           h == Number(s, r, Head(w))
<1>1. /\ Len(v) = Len(w) - 1 /\ Len(w) \in Nat /\ Len(w) >= 1
      /\ \A i \in 1..Len(v) : v[i] = w[i + 1]
      /\ Head(w) = w[1] /\ Head(w) \in Frame
  BY HeadTailProperties
<1>2. \A i \in 1..Len(v) : i + 1 \in 1..Len(w) /\ v[i] = w[i + 1] /\ 1 < i + 1
  BY <1>1
<1>3. \A i \in 1..Len(w) : i = 1 \/ (i - 1 \in 1..Len(v) /\ v[i - 1] = w[i])
  BY <1>1
<1>4. /\ \A i \in 1..Len(w) : Number(s, r, w[i]) \in Int
      /\ 1 \in 1..Len(w) /\ h = Number(s, r, w[1]) /\ h \in Int
  BY <1>1, WireNumbers
<1>a. \A j \in 1..Len(w) : Number(s, r, w[j]) # h => j - 1 \in 1..Len(v) /\ v[j - 1] = w[j]
  <2> SUFFICES ASSUME NEW j \in 1..Len(w), Number(s, r, w[j]) # h PROVE j # 1
    BY <1>3
  <2> QED BY <1>1
<1> HIDE DEF v, h
<1>5. Rising(w, s, r) => Rising(v, s, r)
  BY <1>1, <1>2 DEF Rising
<1>6. \A b \in Int : Below(w, s, r, b) => Below(v, s, r, b) /\ h < b
  BY <1>2, <1>4 DEF Below
<1>7. ASSUME NEW b \in Nat, Gapless(w, s, r, b), h = -1 PROVE Gapless(v, s, r, b)
  <2> SUFFICES ASSUME NEW i \in 1..Len(v), Number(s, r, v[i]) >= 0
               PROVE  /\ b <= Number(s, r, v[i])
                      /\ \A m \in b..(Number(s, r, v[i]) - 1) :
                            \E j \in 1..Len(v) : j < i /\ Number(s, r, v[j]) = m
    BY DEF Gapless
  <2>1. /\ b <= Number(s, r, v[i])
        /\ \A m \in b..(Number(s, r, v[i]) - 1) :
              \E j \in 1..Len(w) : j < i + 1 /\ Number(s, r, w[j]) = m
    BY <1>2, <1>7 DEF Gapless
  <2>2. \A m \in b..(Number(s, r, v[i]) - 1), j \in 1..Len(w) :
            j < i + 1 /\ Number(s, r, w[j]) = m =>
                j - 1 \in 1..Len(v) /\ j - 1 < i /\ Number(s, r, v[j - 1]) = m
    BY <1>1, <1>4, <1>7, <1>a
  <2> QED BY <2>1, <2>2
<1>8. ASSUME NEW b \in Nat, NEW c \in Nat, OnItsWay(w, s, r, b, c), h = -1
      PROVE  OnItsWay(v, s, r, b, c)
  BY <1>4, <1>8, <1>a DEF OnItsWay
<1>9. ASSUME NEW b \in Nat, Gapless(w, s, r, b), h >= 0 PROVE h = b
  <2>1. b <= h /\ \A m \in b..(h - 1) : \E j \in 1..Len(w) : j < 1 /\ Number(s, r, w[j]) = m
    BY <1>4, <1>9 DEF Gapless
  <2>2. ~(b \in b..(h - 1))
    BY <2>1
  <2> QED BY <2>1, <2>2, <1>4
<1>10. ASSUME NEW b \in Nat, Gapless(w, s, r, b), h >= 0, Rising(w, s, r)
       PROVE  Gapless(v, s, r, b + 1)
  <2> SUFFICES ASSUME NEW i \in 1..Len(v), Number(s, r, v[i]) >= 0
               PROVE  /\ b + 1 <= Number(s, r, v[i])
                      /\ \A m \in (b + 1)..(Number(s, r, v[i]) - 1) :
                            \E j \in 1..Len(v) : j < i /\ Number(s, r, v[j]) = m
    BY DEF Gapless
  <2>1. h = b
    BY <1>9, <1>10
  <2>2. b < Number(s, r, v[i])
    BY <1>2, <1>4, <1>10, <2>1 DEF Rising
  <2>3. \A m \in b..(Number(s, r, v[i]) - 1) :
              \E j \in 1..Len(w) : j < i + 1 /\ Number(s, r, w[j]) = m
    BY <1>2, <1>10 DEF Gapless
  <2>4. \A m \in (b + 1)..(Number(s, r, v[i]) - 1), j \in 1..Len(w) :
            j < i + 1 /\ Number(s, r, w[j]) = m =>
                j - 1 \in 1..Len(v) /\ j - 1 < i /\ Number(s, r, v[j - 1]) = m
    BY <1>1, <1>4, <2>1, <1>a
  <2>5. Number(s, r, v[i]) \in Int
    BY <1>2, <1>4
  <2>6. \A m \in (b + 1)..(Number(s, r, v[i]) - 1) : m \in b..(Number(s, r, v[i]) - 1)
    BY <2>5
  <2> QED BY <2>2, <2>3, <2>4, <2>5, <2>6
<1>11. ASSUME NEW b \in Nat, NEW c \in Nat, OnItsWay(w, s, r, b, c), h = b
       PROVE  OnItsWay(v, s, r, b + 1, c)
  <2> SUFFICES ASSUME NEW m \in (b + 1)..(c - 1)
               PROVE  \E i \in 1..Len(v) : Number(s, r, v[i]) = m
    BY DEF OnItsWay
  <2>1. PICK j \in 1..Len(w) : Number(s, r, w[j]) = m
    BY <1>11 DEF OnItsWay
  <2> QED BY <1>4, <1>11, <1>a, <2>1
<1> QED BY <1>4, <1>5, <1>6, <1>7, <1>8, <1>9, <1>10, <1>11 DEF v, h

\* The socket is lost: a prefix remains.
LEMMA LoseRest ==
  ASSUME NEW w \in Seq(Frame), NEW n \in 0..Len(w), NEW s \in Sides, NEW r \in Reqs
  PROVE  /\ Rising(w, s, r) => Rising(SubSeq(w, 1, n), s, r)
         /\ \A b \in Int : Below(w, s, r, b) => Below(SubSeq(w, 1, n), s, r, b)
         /\ \A b \in Nat : Gapless(w, s, r, b) => Gapless(SubSeq(w, 1, n), s, r, b)
<1> DEFINE v == SubSeq(w, 1, n)
<1>1. Len(w) \in Nat /\ n \in Nat /\ n <= Len(w)
  OBVIOUS
<1>2. Len(v) = n /\ \A i \in 1..n : v[i] = w[i]
  BY <1>1, SubSeqProperties
<1>3. \A i \in 1..Len(v) : i \in 1..Len(w) /\ v[i] = w[i]
  BY <1>1, <1>2
<1>4. \A i \in 1..Len(v), j \in 1..Len(w) : j < i => j \in 1..Len(v)
  BY <1>1, <1>2
<1> HIDE DEF v
<1>5. Rising(w, s, r) => Rising(v, s, r)
  BY <1>3 DEF Rising
<1>6. \A b \in Int : Below(w, s, r, b) => Below(v, s, r, b)
  BY <1>3 DEF Below
<1>7. \A b \in Nat : Gapless(w, s, r, b) => Gapless(v, s, r, b)
  BY <1>3, <1>4 DEF Gapless
<1> QED BY <1>5, <1>6, <1>7 DEF v

\* What a step on wire w adds to it is at most frame f.
AtMost(v, w, f) ==
    \A i \in 1..Len(v) : v[i] = f \/ \E j \in 1..Len(w) : v[i] = w[j]

LEMMA WireChanges ==
  ASSUME NEW w \in Seq(Frame), NEW f \in Frame
  PROVE  /\ AtMost(w, w, f) /\ AtMost(Append(w, f), w, f)
         /\ w # <<>> => AtMost(Tail(w), w, f)
         /\ \A n \in 0..Len(w) : AtMost(SubSeq(w, 1, n), w, f)
<1>1. AtMost(w, w, f)
  BY DEF AtMost
<1>2. AtMost(Append(w, f), w, f)
  <2>1. /\ Len(Append(w, f)) = Len(w) + 1 /\ Len(w) \in Nat
        /\ \A i \in 1..Len(w) : Append(w, f)[i] = w[i]
        /\ Append(w, f)[Len(w) + 1] = f
    BY AppendProperties
  <2>2. \A i \in 1..(Len(w) + 1) : i = Len(w) + 1 \/ i \in 1..Len(w)
    BY <2>1
  <2> QED BY <2>1, <2>2 DEF AtMost
<1>3. ASSUME w # <<>> PROVE AtMost(Tail(w), w, f)
  <2>1. /\ Len(Tail(w)) = Len(w) - 1 /\ Len(w) \in Nat
        /\ \A i \in 1..Len(Tail(w)) : Tail(w)[i] = w[i + 1]
    BY <1>3, HeadTailProperties
  <2>2. \A i \in 1..Len(Tail(w)) : i + 1 \in 1..Len(w)
    BY <2>1
  <2> QED BY <2>1, <2>2 DEF AtMost
<1>4. ASSUME NEW n \in 0..Len(w) PROVE AtMost(SubSeq(w, 1, n), w, f)
  <2>1. Len(w) \in Nat /\ n \in Nat /\ n <= Len(w)
    BY <1>4
  <2>2. Len(SubSeq(w, 1, n)) = n /\ \A i \in 1..n : SubSeq(w, 1, n)[i] = w[i]
    BY <2>1, SubSeqProperties
  <2>3. \A i \in 1..n : i \in 1..Len(w)
    BY <2>1
  <2> QED BY <2>2, <2>3 DEF AtMost
<1> QED BY <1>1, <1>2, <1>3, <1>4

\* A step writes to s and takes from s no frame of r that counts.
Unmoved(s, r) ==
    \/ wire'[s] = wire[s]
    \/ \E f \in Frame : Number(s, r, f) = -1 /\ wire'[s] = Append(wire[s], f)
    \/ /\ wire[s] # <<>> /\ Number(s, r, Head(wire[s])) = -1
       /\ wire'[s] = Tail(wire[s])
    \/ ~up' /\ \E n \in 0..Len(wire[s]) : wire'[s] = SubSeq(wire[s], 1, n)

LEMMA UnmovedWire ==
  ASSUME TypeOK, NEW s \in Sides, NEW r \in Reqs, Unmoved(s, r)
  PROVE  /\ Rising(wire[s], s, r) => Rising(wire'[s], s, r)
         /\ \A b \in Nat : Below(wire[s], s, r, b) => Below(wire'[s], s, r, b)
         /\ \A b \in Nat : Gapless(wire[s], s, r, b) => Gapless(wire'[s], s, r, b)
         /\ \A b, c \in Nat : up' /\ OnItsWay(wire[s], s, r, b, c) => OnItsWay(wire'[s], s, r, b, c)
         /\ s = "agent" /\ NoOpen(wire[s], r) => NoOpen(wire'[s], r)
<1>1. wire[s] \in Seq(Frame)
  BY DEF TypeOK
<1>2. CASE wire'[s] = wire[s]
  BY <1>2
<1>3. ASSUME NEW f \in Frame, Number(s, r, f) = -1, wire'[s] = Append(wire[s], f)
      PROVE  /\ Rising(wire[s], s, r) => Rising(wire'[s], s, r)
             /\ \A b \in Nat : Below(wire[s], s, r, b) => Below(wire'[s], s, r, b)
             /\ \A b \in Nat : Gapless(wire[s], s, r, b) => Gapless(wire'[s], s, r, b)
             /\ \A b, c \in Nat : OnItsWay(wire[s], s, r, b, c) => OnItsWay(wire'[s], s, r, b, c)
             /\ s = "agent" /\ NoOpen(wire[s], r) => NoOpen(wire'[s], r)
  <2>1. AtMost(wire'[s], wire[s], f)
    BY <1>1, <1>3, WireChanges
  <2>2. s = "agent" /\ NoOpen(wire[s], r) => NoOpen(wire'[s], r)
    BY <1>3, <2>1 DEF AtMost, NoOpen
  <2> QED BY <1>1, <1>3, <2>2, WriteOther
<1>4. CASE /\ wire[s] # <<>> /\ Number(s, r, Head(wire[s])) = -1
           /\ wire'[s] = Tail(wire[s])
  <2>1. NoFrame \in Frame /\ Number(s, r, NoFrame) = -1
    BY FrameTypes, TunnelAssumption DEF NoFrame, Signal, Frame, Number
  <2>2. AtMost(wire'[s], wire[s], NoFrame)
    BY <1>1, <1>4, <2>1, WireChanges
  <2>3. s = "agent" /\ NoOpen(wire[s], r) => NoOpen(wire'[s], r)
    BY <2>1, <2>2 DEF AtMost, NoOpen
  <2> QED BY <1>1, <1>4, <2>3, TakeFirst
<1>5. ASSUME ~up', NEW n \in 0..Len(wire[s]), wire'[s] = SubSeq(wire[s], 1, n)
      PROVE  /\ Rising(wire[s], s, r) => Rising(wire'[s], s, r)
             /\ \A b \in Nat : Below(wire[s], s, r, b) => Below(wire'[s], s, r, b)
             /\ \A b \in Nat : Gapless(wire[s], s, r, b) => Gapless(wire'[s], s, r, b)
             /\ s = "agent" /\ NoOpen(wire[s], r) => NoOpen(wire'[s], r)
  <2>1. NoFrame \in Frame /\ Number(s, r, NoFrame) = -1
    BY FrameTypes, TunnelAssumption DEF NoFrame, Signal, Frame, Number
  <2>2. AtMost(wire'[s], wire[s], NoFrame)
    BY <1>1, <1>5, <2>1, WireChanges
  <2>3. s = "agent" /\ NoOpen(wire[s], r) => NoOpen(wire'[s], r)
    BY <2>1, <2>2 DEF AtMost, NoOpen
  <2> QED BY <1>1, <1>5, <2>3, LoseRest
<1> QED BY <1>2, <1>3, <1>4, <1>5 DEF Unmoved

\* The counts are natural numbers.
CountsOK ==
    \A s \in Sides, r \in Reqs :
         /\ Written(s, r) \in Nat /\ Consumed(s, r) \in Nat /\ Taken(s, r) \in Nat
         /\ Len(queue[s][r]) \in Nat /\ Len(got[r]) \in Nat /\ Len(delivered[r]) \in Nat
         /\ Len(wire[s]) \in Nat /\ sent[r] \in Nat /\ asent[r] \in Nat

LEMMA CountTypes == TypeOK => CountsOK
<1> SUFFICES ASSUME TypeOK, NEW s \in Sides, NEW r \in Reqs
             PROVE  /\ Written(s, r) \in Nat /\ Consumed(s, r) \in Nat /\ Taken(s, r) \in Nat
                    /\ Len(queue[s][r]) \in Nat /\ Len(got[r]) \in Nat
                    /\ Len(delivered[r]) \in Nat
                    /\ Len(wire[s]) \in Nat /\ sent[r] \in Nat /\ asent[r] \in Nat
  BY DEF CountsOK
<1>1. /\ queue[s][r] \in Seq(0..MaxFrame) /\ got[r] \in Seq(0..MaxFrame)
      /\ delivered[r] \in Seq(0..MaxFrame) /\ wire[s] \in Seq(Frame)
  BY DEF TypeOK
<1>2. /\ Len(queue[s][r]) \in Nat /\ Len(got[r]) \in Nat /\ Len(delivered[r]) \in Nat
      /\ Len(wire[s]) \in Nat
  BY <1>1, LenProperties
<1>3. sent[r] \in Nat /\ asent[r] \in Nat
  BY TunnelAssumption DEF TypeOK
<1>4. Written(s, r) \in Nat
  BY <1>3, TunnelAssumption DEF Written
<1>5. Consumed(s, r) \in Nat
  BY <1>2 DEF Consumed
<1>6. Taken(s, r) \in Nat
  BY <1>2, <1>5 DEF Taken
<1> QED BY <1>2, <1>3, <1>4, <1>5, <1>6

LEMMA CountTypesNext == TypeOK' => CountsOK'
BY CountTypes, PTL

\* The part of the invariant about a wire on which no frame of r moves.
LEMMA QuietWire ==
  ASSUME TypeOK, TypeOK', NEW s \in Sides, NEW r \in Reqs, WireInv(s, r), Unmoved(s, r),
         up' => up, Written(s, r) <= Written(s, r)',
         Listening(s, r)' => \/ Listening(s, r) /\ Taken(s, r)' = Taken(s, r)
                             \/ Written(s, r)' = 0,
         Writing(s, r)' => Writing(s, r) /\ Written(s, r)' = Written(s, r)
  PROVE  WireInv(s, r)'
<1>1. /\ Written(s, r) \in Nat /\ Taken(s, r) \in Nat /\ Written(s, r)' \in Nat
      /\ wire'[s] \in Seq(Frame)
  BY CountTypes, CountTypesNext DEF CountsOK, TypeOK
<1>2. Rising(wire'[s], s, r)
  BY UnmovedWire DEF WireInv
<1>3. Below(wire'[s], s, r, Written(s, r)')
  <2>1. Below(wire'[s], s, r, Written(s, r))
    BY <1>1, UnmovedWire DEF WireInv
  <2>2. \A i \in 1..Len(wire'[s]) : Number(s, r, wire'[s][i]) \in Int
    BY <1>1, WireNumbers
  <2> QED BY <1>1, <2>1, <2>2 DEF Below
<1>4. Listening(s, r)' => Gapless(wire'[s], s, r, Taken(s, r)')
  <2>1. CASE Written(s, r)' = 0
    <3>1. \A i \in 1..Len(wire'[s]) : Number(s, r, wire'[s][i]) \in Int
      BY <1>1, WireNumbers
    <3>2. \A i \in 1..Len(wire'[s]) : ~(Number(s, r, wire'[s][i]) >= 0)
      BY <1>3, <2>1, <3>1 DEF Below
    <3> QED BY <3>2 DEF Gapless
  <2>2. CASE Listening(s, r) /\ Taken(s, r)' = Taken(s, r)
    BY <1>1, <2>2, UnmovedWire DEF WireInv
  <2> QED BY <2>1, <2>2
<1>5. (Listening(s, r) /\ up /\ Writing(s, r))' =>
          OnItsWay(wire'[s], s, r, Taken(s, r)', Written(s, r)')
  <2>1. CASE Written(s, r)' = 0
    <3>1. Taken(s, r)' \in Nat
      BY CountTypesNext DEF CountsOK
    <3> QED BY <2>1, <3>1 DEF OnItsWay
  <2>2. CASE Listening(s, r) /\ Taken(s, r)' = Taken(s, r)
    BY <1>1, <2>2, UnmovedWire DEF WireInv
  <2> QED BY <2>1, <2>2
<1> QED BY <1>2, <1>3, <1>4, <1>5 DEF WireInv, Rising, Below, Gapless, OnItsWay

\* The same about a queue nothing is put into or got from.
LEMMA QuietQueue ==
  ASSUME TypeOK, TypeOK', NEW s \in Sides, NEW r \in Reqs, QueueInv(s, r),
         queue'[s][r] = queue[s][r],
         put'[s].req = r \/ put[s].req = r => put'[s] = put[s],
         Reading(s, r)' => Reading(s, r) /\ Consumed(s, r)' = Consumed(s, r),
         Written(s, r) <= Written(s, r)'
  PROVE  QueueInv(s, r)'
<1>1. /\ Written(s, r) \in Nat /\ Taken(s, r) \in Nat /\ Written(s, r)' \in Nat
  BY CountTypes, CountTypesNext DEF CountsOK
<1> QED BY <1>1 DEF QueueInv, Taken

\* A step of others, as seen by request q: nothing of q changes but that the
\* tunnel may be lost or torn down.
Still(q) ==
    /\ rpc'[q] = rpc[q] /\ sent'[q] = sent[q] /\ delivered'[q] = delivered[q]
    /\ apc'[q] = apc[q] /\ asent'[q] = asent[q] /\ got'[q] = got[q]
    /\ \A s \in Sides : /\ queue'[s][q] = queue[s][q]
                        /\ put'[s].req = q \/ put[s].req = q => put'[s] = put[s]
                        /\ q \in streams'[s] => q \in streams[s]
                        /\ Unmoved(s, q)
    /\ q \in streams["relay"] => q \in streams'["relay"] \/ shut'["relay"]
    /\ q \in ended'["relay"] => q \in ended["relay"] \/ shut'["relay"]
    /\ shut["relay"] => shut'["relay"]
    /\ loop'["agent"] \in {"run", "prompt"} => loop["agent"] \in {"run", "prompt"}
    /\ up' => up

LEMMA StillKept ==
  ASSUME TypeOK, TypeOK', NEW q \in Reqs, ReqInv(q), Still(q)
  PROVE  ReqInv(q)'
<1>0. "relay" \in Sides /\ "agent" \in Sides
  BY DEF Sides
<1>1. /\ Unasked(q)' => Unasked(q)
      /\ Served(q)' = Served(q)
  BY <1>0 DEF Still, Unasked, Live, Served, Cancelling
<1>2. ASSUME NEW s \in Sides
      PROVE  /\ Written(s, q) <= Written(s, q)'
             /\ Writing(s, q)' => Writing(s, q) /\ Written(s, q)' = Written(s, q)
             /\ Consumed(s, q)' = Consumed(s, q) /\ Taken(s, q)' = Taken(s, q)
             /\ Reading(s, q)' => Reading(s, q)
             /\ Listening(s, q)' => Listening(s, q)
  <2>1. /\ Written(s, q) <= Written(s, q)'
        /\ Writing(s, q)' => Writing(s, q) /\ Written(s, q)' = Written(s, q)
    <3>1. sent[q] \in Nat /\ asent[q] \in Nat
      BY CountTypes DEF CountsOK
    <3> QED BY <1>1, <3>1, TunnelAssumption DEF Still, Written, Writing, Unasked
  <2>2. Consumed(s, q)' = Consumed(s, q)
    BY DEF Still, Consumed
  <2>3. Taken(s, q)' = Taken(s, q)
    BY <2>2 DEF Still, Taken
  <2>4. Reading(s, q)' => Reading(s, q)
    BY <1>1 DEF Still, Reading
  <2>5. Listening(s, q)' => Listening(s, q)
    BY <1>0, <1>1 DEF Still, Listening, Reading
  <2> QED BY <2>1, <2>2, <2>3, <2>4, <2>5
<1>3. ASSUME NEW s \in Sides PROVE QueueInv(s, q)'
  <2>1. QueueInv(s, q)
    BY DEF ReqInv
  <2> QED BY <1>2, <2>1, QuietQueue DEF Still
<1>4. ASSUME NEW s \in Sides PROVE WireInv(s, q)'
  <2>1. WireInv(s, q)
    BY DEF ReqInv
  <2> QED BY <1>2, <2>1, QuietWire DEF Still
<1>5. HandlerInv(q)'
  <2>1. apc[q] # "none" => NoOpen(wire'["agent"], q)
    BY <1>0, UnmovedWire DEF Still, ReqInv, HandlerInv
  <2>2. (apc[q] # "none" => NoOpen(wire["agent"], q))'
    BY <2>1 DEF Still, NoOpen
  <2> QED BY <1>0, <1>1, <2>2 DEF Still, ReqInv, HandlerInv
<1>6. VisitorInv(q)'
  BY <1>0, <1>1, <1>2 DEF Still, ReqInv, VisitorInv
<1>7. PutInv(q)'
  BY <1>0, <1>1 DEF Still, ReqInv, PutInv
<1> QED BY <1>3, <1>4, <1>5, <1>6, <1>7 DEF ReqInv

\* The frames the relay gets.
LEMMA ResponsesKept ==
  ASSUME TypeOK, ResponseFrames, NEW f \in Frame,
         f.kind \notin {"open", "cancel"}, f.kind = "data" => f.n <= RespLen,
         AtMost(wire'["relay"], wire["relay"], f)
  PROVE  ResponseFrames'
BY DEF ResponseFrames, AtMost

(***************************************************************************)
(* Steps that are about no request.                                         *)
(***************************************************************************)
\* What such a step may do to the ends of the connection, and to its wires.
EndsFall ==
    /\ UNCHANGED <<rpc, sent, delivered, apc, asent, got, queue, put>>
    /\ \A s \in Sides : streams'[s] \subseteq streams[s]
    /\ streams["relay"] = streams'["relay"] \/ shut'["relay"]
    /\ ended["relay"] = ended'["relay"] \/ shut'["relay"]
    /\ shut["relay"] => shut'["relay"]

WiresQuiet ==
    /\ \A s \in Sides, q \in Reqs : Unmoved(s, q)
    /\ ResponseFrames'
    /\ up' => up

LEMMA TearDownFalls ==
  ASSUME TypeOK, NEW s \in Sides, TearDown(s),
         UNCHANGED <<rpc, sent, delivered, apc, asent, got, queue, put>>
  PROVE  EndsFall
BY DEF TypeOK, TearDown, EndsFall, Sides

LEMMA CutQuiet ==
  ASSUME TypeOK, ResponseFrames, Cut
  PROVE  WiresQuiet
<1>0. "relay" \in Sides /\ NoFrame \in Frame
  BY FrameTypes DEF Sides, Frame
<1>1. ASSUME NEW s \in Sides
      PROVE  \E n \in 0..Len(wire[s]) : wire'[s] = SubSeq(wire[s], 1, n)
  BY DEF Cut, Sides
<1>2. ResponseFrames'
  <2>1. AtMost(wire'["relay"], wire["relay"], NoFrame)
    BY <1>0, <1>1, WireChanges DEF TypeOK
  <2> QED BY <1>0, <2>1, ResponsesKept DEF NoFrame, Signal
<1> QED BY <1>1, <1>2 DEF WiresQuiet, Unmoved, Cut

\* Control frames do not count.
LEMMA ControlNumber ==
  ASSUME NEW f \in Frame, f.kind \in {"ping", "pong", "expired", "choice"},
         NEW s \in Sides, NEW q \in Reqs
  PROVE  Number(s, q, f) = -1
<1>1. f \in ControlFrame
  BY DEF Frame, StreamFrame
<1> QED BY <1>1, TunnelAssumption DEF ControlFrame, Number

LEMMA SendControl ==
  ASSUME TypeOK, ResponseFrames, NEW k \in {"ping", "pong", "expired", "choice"},
         NEW s \in Sides, Send(s, Signal(k, NoReq)), up' = up
  PROVE  WiresQuiet
<1>1. Signal(k, NoReq) \in Frame /\ Signal(k, NoReq).kind = k
  BY FrameTypes DEF Frame, Signal
<1>2. wire'[s] = Append(wire[s], Signal(k, NoReq)) /\ \A t \in Sides \ {s} : wire'[t] = wire[t]
  BY DEF Send, TypeOK
<1>3. \A t \in Sides, q \in Reqs : Unmoved(t, q)
  BY <1>1, <1>2, ControlNumber DEF Unmoved
<1>4. AtMost(wire'["relay"], wire["relay"], Signal(k, NoReq))
  <2>1. wire["relay"] \in Seq(Frame)
    BY DEF TypeOK, Sides
  <2>2. CASE s = "relay"
    BY <1>1, <1>2, <2>1, <2>2, WireChanges
  <2>3. CASE s # "relay"
    <3>1. wire'["relay"] = wire["relay"]
      BY <1>2, <2>3 DEF Sides
    <3> QED BY <1>1, <2>1, <3>1, WireChanges
  <2> QED BY <2>2, <2>3
<1>5. ResponseFrames'
  BY <1>1, <1>4, ResponsesKept
<1> QED BY <1>3, <1>5 DEF WiresQuiet

LEMMA TakeControl ==
  ASSUME TypeOK, ResponseFrames, NEW s \in Sides,
         Incoming(s, {"ping", "pong", "expired", "choice"}), Take(s), up' = up
  PROVE  WiresQuiet
<1>0. NoFrame \in Frame
  BY FrameTypes DEF Frame
<1>1. /\ wire[s] # <<>> /\ Head(wire[s]) \in Frame
      /\ Head(wire[s]).kind \in {"ping", "pong", "expired", "choice"}
  BY HeadTypes
<1>2. wire'[s] = Tail(wire[s]) /\ \A t \in Sides \ {s} : wire'[t] = wire[t]
  BY DEF Take, TypeOK
<1>3. \A t \in Sides, q \in Reqs : Unmoved(t, q)
  BY <1>1, <1>2, ControlNumber DEF Unmoved
<1>4. AtMost(wire'["relay"], wire["relay"], NoFrame)
  BY <1>0, <1>1, <1>2, WireChanges DEF TypeOK, Sides
<1>5. ResponseFrames'
  BY <1>0, <1>4, ResponsesKept DEF NoFrame, Signal
<1> QED BY <1>3, <1>5 DEF WiresQuiet

LEMMA SameWires ==
  ASSUME ResponseFrames, wire' = wire, up' = up
  PROVE  WiresQuiet
BY DEF WiresQuiet, Unmoved, ResponseFrames

LoopFalls == loop'["agent"] \in {"run", "prompt"} => loop["agent"] \in {"run", "prompt"}

LEMMA QuietStep ==
  ASSUME TypeOK, TypeOK', OrderInv, EndsFall, WiresQuiet, LoopFalls
  PROVE  OrderInv'
<1>1. \A q \in Reqs : Still(q)
  BY DEF EndsFall, WiresQuiet, LoopFalls, Still, Sides
<1> QED BY <1>1, StillKept DEF OrderInv, WiresQuiet

LEMMA EndLoopFalls ==
  ASSUME TypeOK, NEW s \in Sides, EndLoop(s),
         UNCHANGED <<rpc, sent, delivered, apc, asent, got, queue, put>>
  PROVE  EndsFall /\ LoopFalls
<1>1. CASE TearDown("relay") /\ loop' = [loop EXCEPT !["relay"] = "gone"]
  BY <1>1, TearDownFalls DEF Sides, LoopFalls, TypeOK
<1>2. CASE loop' = [loop EXCEPT !["agent"] = "drain"] /\ UNCHANGED <<shut, ended, streams, beat>>
  BY <1>2 DEF EndsFall, LoopFalls, TypeOK, Sides
<1> QED BY <1>1, <1>2 DEF EndLoop

LEMMA PingOrder ==
  ASSUME TypeOK, TypeOK', OrderInv, NEW s \in Sides, ReceivePing(s)
  PROVE  OrderInv'
<1>0. UNCHANGED <<rpc, sent, delivered, apc, asent, got, queue, put>> /\ ResponseFrames /\ up' = up
  BY DEF ReceivePing, visitors, handlers, OrderInv
<1>1. CASE /\ Room(Peer(s))
           /\ wire' = [wire EXCEPT ![s] = Tail(@), ![Peer(s)] = Append(@, Signal("pong", NoReq))]
           /\ UNCHANGED <<shut, ended, streams, beat, loop>>
  <2>1. Signal("pong", NoReq) \in Frame /\ Signal("pong", NoReq).kind = "pong"
    BY FrameTypes DEF Frame, Signal
  <2>2. /\ wire[s] # <<>> /\ Head(wire[s]) \in Frame
        /\ Head(wire[s]).kind \in {"ping"}
    BY HeadTypes DEF ReceivePing
  <2>3. /\ Peer(s) \in Sides /\ s # Peer(s) /\ Sides = {s, Peer(s)}
    BY DEF Peer, Sides
  <2>4. /\ wire'[s] = Tail(wire[s])
        /\ wire'[Peer(s)] = Append(wire[Peer(s)], Signal("pong", NoReq))
    BY <1>1, <2>3 DEF TypeOK
  <2>5. \A q \in Reqs : Unmoved(s, q) /\ Unmoved(Peer(s), q)
    BY <2>1, <2>2, <2>3, <2>4, ControlNumber DEF Unmoved
  <2>6. AtMost(wire'[s], wire[s], Signal("pong", NoReq))
    BY <2>1, <2>2, <2>4, WireChanges DEF TypeOK
  <2>7. AtMost(wire'[Peer(s)], wire[Peer(s)], Signal("pong", NoReq))
    BY <2>1, <2>3, <2>4, WireChanges DEF TypeOK
  <2>8. ResponseFrames'
    BY <1>0, <2>1, <2>3, <2>6, <2>7, ResponsesKept DEF Sides
  <2>9. WiresQuiet
    BY <1>0, <2>3, <2>5, <2>8 DEF WiresQuiet
  <2>10. EndsFall /\ LoopFalls
    BY <1>0, <1>1 DEF EndsFall, LoopFalls
  <2> QED BY <2>9, <2>10, QuietStep
<1>2. CASE Take(s) /\ EndLoop(s)
  <2>1. Incoming(s, {"ping", "pong", "expired", "choice"})
    BY DEF ReceivePing, Incoming
  <2> QED BY <1>0, <1>2, <2>1, TakeControl, EndLoopFalls, QuietStep
<1> QED BY <1>1, <1>2 DEF ReceivePing

LEMMA ControlOrder ==
  ASSUME TypeOK, TypeOK', OrderInv, NEW s \in Sides,
         \/ ReceivePong(s) \/ ReceiveChoice \/ ReceiveExpired \/ LoopEnds(s)
         \/ Heartbeat(s) \/ Close(s) \/ UserAnswers \/ Drained \/ SocketLost \/ UNCHANGED vars
  PROVE  OrderInv'
<1> USE DEF net, ends, heart, visitors, handlers
<1>0. ResponseFrames /\ "relay" \in Sides /\ "agent" \in Sides /\ Peer(s) \in Sides
  BY DEF OrderInv, Sides, Peer
<1>1. CASE ReceivePong(s) \/ ReceiveChoice \/ ReceiveExpired
  <2>1. \E t \in Sides : Incoming(t, {"ping", "pong", "expired", "choice"}) /\ Take(t) /\ up' = up
    BY <1>0, <1>1 DEF ReceivePong, ReceiveChoice, ReceiveExpired, Incoming
  <2>2. WiresQuiet
    BY <1>0, <2>1, TakeControl
  <2>3. EndsFall /\ LoopFalls
    BY <1>0, <1>1 DEF ReceivePong, ReceiveChoice, ReceiveExpired, Incoming, EndsFall, LoopFalls
  <2> QED BY <2>2, <2>3, QuietStep
<1>2. CASE LoopEnds(s)
  <2>1. WiresQuiet
    BY <1>0, <1>2, SameWires DEF LoopEnds
  <2>2. EndsFall /\ LoopFalls
    BY <1>2, EndLoopFalls DEF LoopEnds
  <2> QED BY <2>1, <2>2, QuietStep
<1>3. CASE Ping(s) \/ PongSeen(s)
  <2>1. WiresQuiet
    BY <1>0, <1>3, SendControl, SameWires DEF Ping, PongSeen
  <2>2. EndsFall /\ LoopFalls
    BY <1>3 DEF Ping, PongSeen, EndsFall, LoopFalls
  <2> QED BY <2>1, <2>2, QuietStep
<1>4. CASE Miss(s)
  <2>1. WiresQuiet
    BY <1>0, <1>4, SameWires DEF Miss
  <2>2. EndsFall
    <3>1. CASE TearDown(s)
      BY <1>4, <3>1, TearDownFalls DEF Miss
    <3>2. CASE UNCHANGED <<shut, ended, streams>>
      BY <1>4, <3>2 DEF Miss, EndsFall
    <3> QED BY <1>4, <3>1, <3>2 DEF Miss
  <2>3. LoopFalls
    BY <1>4 DEF Miss, LoopFalls
  <2> QED BY <2>1, <2>2, <2>3, QuietStep
<1>5. CASE Close(s)
  <2>1. EndsFall /\ LoopFalls
    BY <1>5, TearDownFalls DEF Close, LoopFalls
  <2> QED BY <1>0, <1>5, <2>1, CutQuiet, QuietStep DEF Close
<1>6. CASE UserAnswers
  <2>1. WiresQuiet
    BY <1>0, <1>6, SendControl, SameWires DEF UserAnswers
  <2>2. EndsFall /\ LoopFalls
    BY <1>6 DEF UserAnswers, EndsFall, LoopFalls
  <2> QED BY <2>1, <2>2, QuietStep
<1>7. CASE Drained
  <2>1. EndsFall
    BY <1>0, <1>7, TearDownFalls DEF Drained
  <2>2. LoopFalls
    BY <1>0, <1>7 DEF Drained, LoopFalls, TypeOK
  <2> QED BY <1>0, <1>7, <2>1, <2>2, CutQuiet, QuietStep DEF Drained
<1>8. CASE SocketLost
  <2>1. EndsFall /\ LoopFalls
    BY <1>8 DEF SocketLost, EndsFall, LoopFalls
  <2> QED BY <1>0, <1>8, <2>1, CutQuiet, QuietStep DEF SocketLost
<1>9. CASE UNCHANGED vars
  BY <1>0, <1>9, SameWires, QuietStep DEF vars, EndsFall, LoopFalls
<1> QED BY <1>1, <1>2, <1>3, <1>4, <1>5, <1>6, <1>7, <1>8, <1>9 DEF Heartbeat

(***************************************************************************)
(* Steps of proxy_request.                                                   *)
(***************************************************************************)
\* A step of request r, at the relay or at the agent, leaves the others alone.
Only(r) ==
    /\ UNCHANGED <<put, shut, ended, loop, up>>
    /\ \A q \in Reqs \ {r} :
         /\ rpc'[q] = rpc[q] /\ sent'[q] = sent[q] /\ delivered'[q] = delivered[q]
         /\ apc'[q] = apc[q] /\ asent'[q] = asent[q] /\ got'[q] = got[q]
         /\ \A s \in Sides : queue'[s][q] = queue[s][q] /\ (q \in streams'[s] <=> q \in streams[s])
    /\ \A s \in Sides :
         wire'[s] = wire[s] \/ \E f \in Frame : f.req = r /\ wire'[s] = Append(wire[s], f)

LEMMA OthersKept ==
  ASSUME TypeOK, TypeOK', OrderInv, NEW r \in Reqs, Only(r), ReqInv(r)', ResponseFrames'
  PROVE  OrderInv'
<1>1. ASSUME NEW q \in Reqs \ {r} PROVE Still(q)
  <2>1. \A s \in Sides : Unmoved(s, q)
    BY <1>1 DEF Only, Unmoved, Number
  <2> QED BY <1>1, <2>1 DEF Only, Still, Sides
<1>2. \A q \in Reqs \ {r} : ReqInv(q)'
  BY <1>1, StillKept DEF OrderInv
<1> QED BY <1>2 DEF OrderInv

\* Sending a frame of r to the agent.
LEMMA SendToAgent ==
  ASSUME TypeOK, NEW r \in Reqs, NEW f \in Frame, f.req = r,
         Send("agent", f) \/ SendAnyway("agent", f)
  PROVE  /\ \A s \in Sides :
              wire'[s] = wire[s] \/ \E g \in Frame : g.req = r /\ wire'[s] = Append(wire[s], g)
         /\ wire'["relay"] = wire["relay"]
         /\ Send("agent", f) => wire'["agent"] = Append(wire["agent"], f)
         /\ SendAnyway("agent", f) =>
              wire'["agent"] = wire["agent"] \/ wire'["agent"] = Append(wire["agent"], f)
BY DEF Send, SendAnyway, TypeOK, Sides

LEMMA VisitorOnly ==
  ASSUME TypeOK, NEW r \in Reqs,
         \/ Request(r) \/ RelayStep(r) \/ Chunk(r)
         \/ AbortUpload(r) \/ LeftBeforeStart(r) \/ CancelOnDisconnect(r) \/ Dropped(r)
  PROVE  Only(r) /\ wire'["relay"] = wire["relay"]
<1> USE DEF net, ends, heart, visitors, handlers
<1>0. /\ queue \in [Sides -> [Reqs -> Seq(0..MaxFrame)]] /\ streams \in [Sides -> SUBSET Reqs]
      /\ DOMAIN rpc = Reqs /\ DOMAIN sent = Reqs /\ DOMAIN delivered = Reqs
      /\ rpc \in [Reqs -> RelayPcs] /\ sent \in [Reqs -> 0..BodyLen]
      /\ delivered \in [Reqs -> Seq(0..MaxFrame)]
      /\ "relay" \in Sides /\ "agent" \in Sides
  BY DEF TypeOK, Sides
<1>1. /\ \A s \in Sides, q \in Reqs \ {r} : OpenStream("relay", r) \/ RemoveStream("relay", r) =>
            (q \in streams'[s] <=> q \in streams[s])
      /\ \A s \in Sides, q \in Reqs \ {r} : Pop("relay", r) => queue'[s][q] = queue[s][q]
      /\ \A q \in Reqs \ {r} : \A place : Move(r, place) => rpc'[q] = rpc[q]
  <2>1. \A s \in Sides, q \in Reqs \ {r} : OpenStream("relay", r) \/ RemoveStream("relay", r) =>
            (q \in streams'[s] <=> q \in streams[s])
    BY <1>0 DEF OpenStream, RemoveStream
  <2>2. \A s \in Sides, q \in Reqs \ {r} : Pop("relay", r) => queue'[s][q] = queue[s][q]
    BY <1>0 DEF Pop
  <2>3. \A q \in Reqs \ {r} : \A place : Move(r, place) => rpc'[q] = rpc[q]
    BY <1>0 DEF Move
  <2> QED BY <2>1, <2>2, <2>3
<1>2. /\ Signal("open", r) \in Frame /\ Signal("cancel", r) \in Frame
      /\ Signal("open", r).req = r /\ Signal("cancel", r).req = r
  BY FrameTypes DEF Frame, Signal
<1>3. CASE Request(r)
  BY <1>1, <1>3 DEF Request, Only
<1>4. CASE SendOpen(r)
  BY <1>1, <1>2, <1>4, SendToAgent DEF SendOpen, Only
<1>5. CASE SendBody(r)
  <2>1. /\ Data(r, 0) \in Frame /\ Data(r, 0).req = r
        /\ sent[r] < BodyLen => Data(r, sent[r] + 1) \in Frame /\ Data(r, sent[r] + 1).req = r
    <3>1. sent[r] < BodyLen => sent[r] + 1 \in 0..BodyLen
      BY <1>0, TunnelAssumption
    <3> QED BY <3>1, FrameTypes DEF Frame, Data
  <2>2. \A q \in Reqs \ {r} : sent'[q] = sent[q]
    BY <1>0, <1>5 DEF SendBody
  <2>3. \A q \in Reqs \ {r} : rpc'[q] = rpc[q]
    BY <1>1, <1>5 DEF SendBody
  <2>4. wire'["relay"] = wire["relay"] /\ \A s \in Sides :
              wire'[s] = wire[s] \/ \E g \in Frame : g.req = r /\ wire'[s] = Append(wire[s], g)
    BY <1>5, <2>1, SendToAgent DEF SendBody
  <2> QED BY <1>5, <2>2, <2>3, <2>4 DEF SendBody, Only
<1>6. CASE SendFails(r) \/ ReadStream(r) \/ FirstChunk(r) \/ StartStream(r) \/ Finish(r)
  BY <1>1, <1>6 DEF SendFails, ReadStream, FirstChunk, StartStream, Finish, Only
<1>7. CASE FirstByteTimeout(r) \/ CancelSent(r)
  BY <1>1, <1>2, <1>7, SendToAgent DEF FirstByteTimeout, CancelSent, Only
<1>8. CASE Chunk(r)
  <2>1. \A q \in Reqs \ {r} : delivered'[q] = delivered[q]
    BY <1>0, <1>8 DEF Chunk
  <2> QED BY <1>1, <1>8, <2>1 DEF Chunk, Only
<1>9. CASE AbortUpload(r) \/ LeftBeforeStart(r) \/ Dropped(r)
  BY <1>1, <1>9 DEF AbortUpload, LeftBeforeStart, Dropped, Only
<1>10. CASE CancelOnDisconnect(r)
  BY <1>1, <1>10 DEF CancelOnDisconnect, Only
<1> QED BY <1>3, <1>4, <1>5, <1>6, <1>7, <1>8, <1>9, <1>10 DEF RelayStep

\* Nobody has answered a request that was not asked yet.
LEMMA UnaskedUnanswered ==
  ASSUME TypeOK, NEW r \in Reqs, ReqInv(r), Unasked(r)
  PROVE  /\ apc[r] # "respond" /\ asent[r] = 0 /\ Written("relay", r) = 0
         /\ put["relay"].req # r /\ Len(queue["relay"][r]) = 0
<1>0. "relay" \in Sides
  BY DEF Sides
<1>1. apc[r] # "respond" /\ asent[r] = 0
  <2>1. asent[r] \in Nat
    BY <1>0, CountTypes DEF CountsOK
  <2> QED BY <2>1 DEF ReqInv, HandlerInv
<1>2. Written("relay", r) = 0
  BY <1>1, TunnelAssumption DEF Written
<1>3. Taken("relay", r) <= 0
  <2>1. QueueInv("relay", r)
    BY <1>0 DEF ReqInv
  <2> QED BY <1>2, <2>1 DEF QueueInv, Reading
<1>4. put["relay"].req # r /\ Len(queue["relay"][r]) = 0
  <2>1. Consumed("relay", r) \in Nat /\ Len(queue["relay"][r]) \in Nat
    BY <1>0, CountTypes DEF CountsOK
  <2> QED BY <1>3, <2>1 DEF Taken
<1> QED BY <1>1, <1>2, <1>4

\* The relay's reader of r gets nothing, or the next frame of its queue.
Gets(r) ==
    \/ queue'["relay"][r] = queue["relay"][r] /\ Consumed("relay", r)' = Consumed("relay", r)
    \/ /\ queue["relay"][r] # <<>> /\ queue'["relay"][r] = Tail(queue["relay"][r])
       /\ Consumed("relay", r)' = Consumed("relay", r) + 1

LEMMA GetsKeepsTaken ==
  ASSUME TypeOK, NEW r \in Reqs, Gets(r), put' = put
  PROVE  Taken("relay", r)' = Taken("relay", r)
<1>1. queue["relay"][r] \in Seq(0..MaxFrame) /\ Consumed("relay", r) \in Nat
  BY CountTypes DEF TypeOK, CountsOK, Sides
<1>2. CASE Consumed("relay", r)' = Consumed("relay", r)
  BY <1>1, <1>2 DEF Gets, Taken
<1>3. CASE Consumed("relay", r)' # Consumed("relay", r)
  <2>1. Len(Tail(queue["relay"][r])) = Len(queue["relay"][r]) - 1 /\ Len(queue["relay"][r]) \in Nat
    BY <1>1, <1>3, HeadTailProperties DEF Gets
  <2>2. queue'["relay"][r] = Tail(queue["relay"][r]) /\ Consumed("relay", r)' = Consumed("relay", r) + 1
    BY <1>3 DEF Gets
  <2>3. Len(queue'["relay"][r]) = Len(queue["relay"][r]) - 1
    BY <2>1, <2>2
  <2> QED BY <1>1, <2>1, <2>2, <2>3 DEF Taken
<1> QED BY <1>2, <1>3

\* Steps of proxy_request that write nothing the agent counts.
LEMMA VisitorMoved ==
  ASSUME TypeOK, TypeOK', NEW r \in Reqs, ReqInv(r), Only(r),
         wire'["relay"] = wire["relay"], Unmoved("agent", r),
         apc'[r] = apc[r], asent'[r] = asent[r], got'[r] = got[r], sent'[r] = sent[r],
         queue'["agent"][r] = queue["agent"][r],
         r \in streams'["agent"] <=> r \in streams["agent"],
         Unasked(r)' => Unasked(r),
         rpc'[r] = "body" => rpc[r] = "body",
         rpc'[r] \in {"idle", "opened"} => rpc[r] \in {"idle", "opened"},
         Reading("relay", r)' => Reading("relay", r) /\ Gets(r),
         r \in streams'["relay"] => r \in streams["relay"] \/ Unasked(r)
  PROVE  HandlerInv(r)' /\ \A s \in Sides : QueueInv(s, r)' /\ WireInv(s, r)'
<1>0. "relay" \in Sides /\ "agent" \in Sides /\ up' = up /\ put' = put /\ loop' = loop
  BY DEF Sides, Only
<1>1. /\ QueueInv("relay", r) /\ WireInv("relay", r)
      /\ QueueInv("agent", r) /\ WireInv("agent", r) /\ HandlerInv(r)
  BY <1>0 DEF ReqInv
<1>2. /\ Written("relay", r)' = Written("relay", r)
      /\ Writing("relay", r)' = Writing("relay", r)
  BY DEF Written, Writing
<1>3. /\ Written("agent", r) <= Written("agent", r)'
      /\ Writing("agent", r)' => Writing("agent", r) /\ Written("agent", r)' = Written("agent", r)
  <2>1. sent[r] \in 0..BodyLen
    BY DEF TypeOK
  <2> QED BY <2>1, TunnelAssumption DEF Written, Writing, Unasked
<1>4. /\ Consumed("agent", r)' = Consumed("agent", r) /\ Taken("agent", r)' = Taken("agent", r)
      /\ Listening("agent", r)' = Listening("agent", r)
  BY <1>0 DEF Consumed, Taken, Listening
<1>5. QueueInv("agent", r)'
  BY <1>0, <1>1, <1>3, <1>4, QuietQueue DEF Reading
<1>6. WireInv("agent", r)'
  BY <1>0, <1>1, <1>3, <1>4, QuietWire
<1>7. QueueInv("relay", r)'
  <2>1. CASE ~Reading("relay", r)'
    BY <2>1 DEF QueueInv
  <2>2. CASE Reading("relay", r)' /\ Consumed("relay", r)' = Consumed("relay", r)
    <3>1. Consumed("relay", r) \in Nat
      BY <1>0, CountTypes DEF CountsOK
    <3>2. queue'["relay"][r] = queue["relay"][r]
      BY <2>2, <3>1 DEF Gets
    <3>3. Written("relay", r) <= Written("relay", r)'
      BY <1>0, <1>2, CountTypes DEF CountsOK
    <3> QED BY <1>0, <1>1, <2>2, <3>2, <3>3, QuietQueue
  <2>3. CASE Reading("relay", r)' /\ Consumed("relay", r)' # Consumed("relay", r)
    <3> DEFINE w == queue["relay"][r]
               v == queue'["relay"][r]
    <3>1. /\ w \in Seq(0..MaxFrame) /\ w # <<>> /\ v = Tail(w)
          /\ Consumed("relay", r)' = Consumed("relay", r) + 1 /\ Consumed("relay", r) \in Nat
      BY <1>0, <2>3, CountTypes DEF Gets, TypeOK, CountsOK
    <3>2. /\ Len(v) = Len(w) - 1 /\ Len(w) \in Nat
          /\ \A i \in 1..Len(v) : v[i] = w[i + 1]
      BY <3>1, HeadTailProperties
    <3>3. /\ \A i \in 1..Len(w) : Count("relay", w[i]) = Consumed("relay", r) + i - 1
          /\ put["relay"].req = r => Count("relay", put["relay"].n) = Consumed("relay", r) + Len(w)
          /\ Taken("relay", r) <= Written("relay", r)
      BY <1>1, <2>3 DEF QueueInv
    <3>4. \A i \in 1..Len(v) : Count("relay", v[i]) = Consumed("relay", r) + 1 + i - 1
      BY <3>1, <3>2, <3>3
    <3>5. Taken("relay", r)' = Taken("relay", r)
      BY <1>0, <2>3, GetsKeepsTaken
    <3>6. put'["relay"].req = r =>
              Count("relay", put'["relay"].n) = Consumed("relay", r) + 1 + Len(v)
      <4>1. Consumed("relay", r) + Len(w) = Consumed("relay", r) + 1 + Len(v)
        BY <3>1, <3>2
      <4> HIDE DEF w, v
      <4> QED BY <1>0, <3>3, <4>1
    <3>7. Taken("relay", r)' <= Written("relay", r)'
      BY <1>2, <3>3, <3>5
    <3> HIDE DEF v, w
    <3>8. /\ \A i \in 1..Len(v) : Count("relay", v[i]) = Consumed("relay", r)' + i - 1
          /\ put'["relay"].req = r => Count("relay", put'["relay"].n) = Consumed("relay", r)' + Len(v)
      BY <3>1, <3>4, <3>6
    <3> QED BY <3>7, <3>8 DEF QueueInv, Count, v
  <2> QED BY <2>1, <2>2, <2>3
<1>8. WireInv("relay", r)'
  <2>1. Listening("relay", r)' => \/ Listening("relay", r) /\ Taken("relay", r)' = Taken("relay", r)
                                  \/ Written("relay", r)' = 0
    BY <1>0, <1>2, GetsKeepsTaken, UnaskedUnanswered DEF Listening
  <2>2. Written("relay", r) <= Written("relay", r)' /\ Unmoved("relay", r)
    BY <1>0, <1>2, CountTypes DEF CountsOK, Unmoved
  <2> QED BY <1>0, <1>1, <1>2, <2>1, <2>2, QuietWire
<1>9. HandlerInv(r)'
  <2>1. apc[r] # "none" => NoOpen(wire'["agent"], r)
    BY <1>0, <1>1, UnmovedWire DEF HandlerInv
  <2>2. (apc[r] # "none" => NoOpen(wire["agent"], r))'
    BY <2>1 DEF NoOpen
  <2> QED BY <1>0, <1>1, <2>2 DEF HandlerInv
<1> QED BY <1>5, <1>6, <1>7, <1>8, <1>9 DEF Sides

\* What a step of proxy_request that sends no part of the body leaves alone.
NoBody(r) ==
    /\ Only(r) /\ wire'["relay"] = wire["relay"] /\ Unmoved("agent", r)
    /\ apc'[r] = apc[r] /\ asent'[r] = asent[r] /\ got'[r] = got[r] /\ sent'[r] = sent[r]
    /\ queue'["agent"][r] = queue["agent"][r]
    /\ r \in streams'["agent"] <=> r \in streams["agent"]

\* The request ends, or nobody reads it any more.
LEMMA VisitorEnds ==
  ASSUME TypeOK, TypeOK', NEW r \in Reqs, ReqInv(r), NoBody(r),
         rpc'[r] \in Outcomes \cup Cancelling,
         r \in streams'["relay"] => r \in streams["relay"] /\ rpc'[r] \in Cancelling \cup {"left"},
         put["relay"].req = r => \/ rpc'[r] \in Cancelling \cup {"timeout", "left"} \/ shut["relay"]
                                 \/ Len(queue'["relay"][r]) < Depth
  PROVE  ReqInv(r)'
<1>1. ~Reading("relay", r)' /\ ~Unasked(r)' /\ ~Served(r)'
  BY DEF Reading, Unasked, Live, Served, Cancelling, Outcomes
<1>2. HandlerInv(r)' /\ \A s \in Sides : QueueInv(s, r)' /\ WireInv(s, r)'
  BY <1>1, VisitorMoved DEF NoBody, Outcomes, Cancelling
<1>3. VisitorInv(r)'
  BY <1>1 DEF VisitorInv, Outcomes, Cancelling
<1>4. PutInv(r)'
  BY DEF PutInv, NoBody, Only
<1> QED BY <1>2, <1>3, <1>4 DEF ReqInv

\* The request goes on, its reader gets nothing or the next frame.
LEMMA VisitorGoesOn ==
  ASSUME TypeOK, TypeOK', NEW r \in Reqs, ReqInv(r), NoBody(r), Gets(r), Served(r)', Served(r),
         rpc[r] # "opened", rpc'[r] \in {"body", "opened"} => rpc'[r] = rpc[r],
         r \in streams'["relay"] <=> r \in streams["relay"],
         rpc'[r] # "stream" => rpc[r] # "stream" /\ delivered'[r] = delivered[r]
  PROVE  ReqInv(r)'
<1>0. put' = put /\ shut' = shut /\ ended' = ended /\ "relay" \in Sides
  BY DEF NoBody, Only, Sides
<1>1. rpc[r] \in RelayPcs /\ rpc'[r] \in RelayPcs
  BY DEF TypeOK
<1>2. /\ Reading("relay", r) /\ Reading("relay", r)'
      /\ rpc'[r] \notin {"idle", "opened"}
      /\ Unasked(r)' => Unasked(r)
  BY <1>1 DEF Reading, Unasked, Live, Served, Cancelling, RelayPcs, Outcomes
<1>3. HandlerInv(r)' /\ \A s \in Sides : QueueInv(s, r)' /\ WireInv(s, r)'
  BY <1>2, VisitorMoved DEF NoBody
<1>4. Taken("relay", r)' = Taken("relay", r)
  BY <1>0, GetsKeepsTaken
<1>5. VisitorInv(r)
  BY DEF ReqInv
<1>6. ASSUME r \in ended["relay"], ~shut["relay"]
      PROVE  put["relay"].req # r /\ Consumed("relay", r)' + Len(queue'["relay"][r]) = RespLen + 1
  <2>1. put["relay"].req # r /\ Taken("relay", r) = RespLen + 1
    <3>1. Consumed("relay", r) \in Nat /\ Len(queue["relay"][r]) \in Nat
      BY <1>0, CountTypes DEF CountsOK
    <3> QED BY <1>2, <1>5, <1>6, <3>1, TunnelAssumption DEF VisitorInv, Taken
  <2>2. Consumed("relay", r)' \in Nat /\ Len(queue'["relay"][r]) \in Nat
    BY <1>0, CountTypesNext DEF CountsOK
  <2> QED BY <1>0, <1>4, <2>1, <2>2 DEF Taken
<1>7. VisitorInv(r)'
  BY <1>0, <1>2, <1>4, <1>5, <1>6 DEF VisitorInv
<1>8. PutInv(r)'
  BY DEF PutInv
<1> QED BY <1>3, <1>7, <1>8 DEF ReqInv

\* A step of proxy_request that sends at most a CANCEL.
LEMMA NoBodyHolds ==
  ASSUME TypeOK, NEW r \in Reqs,
         \/ Request(r) \/ SendFails(r) \/ ReadStream(r) \/ FirstChunk(r) \/ FirstByteTimeout(r) \/ CancelSent(r)
         \/ StartStream(r) \/ Finish(r) \/ Chunk(r) \/ AbortUpload(r) \/ LeftBeforeStart(r)
         \/ CancelOnDisconnect(r) \/ Dropped(r) \/ (SendOpen(r) /\ wire' = wire)
  PROVE  NoBody(r)
<1> USE DEF net, ends, heart, visitors, handlers
<1>0. /\ queue \in [Sides -> [Reqs -> Seq(0..MaxFrame)]] /\ streams \in [Sides -> SUBSET Reqs]
      /\ "relay" \in Sides /\ "agent" \in Sides
  BY DEF TypeOK, Sides
<1>1. Only(r) /\ wire'["relay"] = wire["relay"]
  BY VisitorOnly DEF RelayStep
<1>2. UNCHANGED <<apc, asent, got, sent>>
  BY DEF Request, SendFails, ReadStream, FirstChunk, FirstByteTimeout, CancelSent, StartStream, Finish, Chunk,
         AbortUpload, LeftBeforeStart, CancelOnDisconnect, Dropped, SendOpen
<1>3. queue'["agent"][r] = queue["agent"][r]
  <2>1. queue' = queue \/ Pop("relay", r)
    BY DEF Request, SendFails, ReadStream, FirstChunk, FirstByteTimeout, CancelSent, StartStream, Finish, Chunk,
           AbortUpload, LeftBeforeStart, CancelOnDisconnect, Dropped, SendOpen
  <2> QED BY <1>0, <2>1 DEF Pop
<1>4. r \in streams'["agent"] <=> r \in streams["agent"]
  <2>1. streams' = streams \/ OpenStream("relay", r) \/ RemoveStream("relay", r)
    BY DEF Request, SendFails, ReadStream, FirstChunk, FirstByteTimeout, CancelSent, StartStream, Finish, Chunk,
           AbortUpload, LeftBeforeStart, CancelOnDisconnect, Dropped, SendOpen
  <2> QED BY <1>0, <2>1 DEF OpenStream, RemoveStream
<1>5. Unmoved("agent", r)
  <2>1. wire' = wire \/ SendAnyway("agent", Signal("cancel", r))
    BY DEF Request, SendFails, ReadStream, FirstChunk, FirstByteTimeout, CancelSent, StartStream, Finish, Chunk,
           AbortUpload, LeftBeforeStart, CancelOnDisconnect, Dropped, SendOpen
  <2>2. /\ Signal("cancel", r) \in Frame /\ Signal("cancel", r).req = r
        /\ Number("agent", r, Signal("cancel", r)) = -1
    BY FrameTypes DEF Frame, Signal, Number
  <2> QED BY <2>1, <2>2, SendToAgent DEF Unmoved
<1> QED BY <1>1, <1>2, <1>3, <1>4, <1>5 DEF NoBody

\* Every visitor step that sends no part of the request keeps the invariant.
LEMMA VisitorReq ==
  ASSUME TypeOK, TypeOK', NEW r \in Reqs, ReqInv(r),
         \/ Request(r) \/ SendFails(r) \/ ReadStream(r) \/ FirstChunk(r) \/ FirstByteTimeout(r) \/ CancelSent(r)
         \/ StartStream(r) \/ Finish(r) \/ Chunk(r) \/ AbortUpload(r) \/ LeftBeforeStart(r)
         \/ CancelOnDisconnect(r) \/ Dropped(r) \/ (SendOpen(r) /\ wire' = wire)
  PROVE  ReqInv(r)'
<1> USE DEF net, ends, heart, visitors, handlers
<1>0. /\ queue \in [Sides -> [Reqs -> Seq(0..MaxFrame)]] /\ streams \in [Sides -> SUBSET Reqs]
      /\ rpc \in [Reqs -> RelayPcs] /\ delivered \in [Reqs -> Seq(0..MaxFrame)]
      /\ "relay" \in Sides /\ "agent" \in Sides
  BY DEF TypeOK, Sides
<1>1. NoBody(r)
  BY NoBodyHolds
<1>2. /\ \A place : Move(r, place) => rpc'[r] = place
      /\ RemoveStream("relay", r) => r \notin streams'["relay"]
      /\ OpenStream("relay", r) => r \in streams'["relay"]
      /\ Pop("relay", r) => /\ queue["relay"][r] # <<>>
                            /\ queue'["relay"][r] = Tail(queue["relay"][r])
  BY <1>0 DEF Move, RemoveStream, OpenStream, Pop
<1>3. Unasked(r) => put["relay"].req # r
  BY UnaskedUnanswered
<1>4. VisitorInv(r) /\ Len(<<>>) < Depth
  BY TunnelAssumption DEF ReqInv
<1>5. CASE Request(r)
  <2>1. rpc[r] = "idle" /\ Unasked(r) /\ r \notin streams["relay"]
    BY <1>4, <1>5 DEF Request, Unasked, VisitorInv, Live, Served, Cancelling
  <2>2. CASE streams' = streams
    BY <1>1, <1>2, <1>3, <1>5, <2>1, <2>2, VisitorEnds DEF Request, Outcomes, OpenStream
  <2>3. CASE streams' # streams
    <3>1. /\ r \in streams'["relay"] /\ rpc'[r] = "opened"
          /\ UNCHANGED <<queue, ended, put, shut, sent, delivered>>
      BY <1>2, <1>5, <2>3 DEF Request
    <3>2. /\ Reading("relay", r) /\ Reading("relay", r)' /\ Unasked(r)' /\ Served(r)'
          /\ Consumed("relay", r)' = Consumed("relay", r)
          /\ Taken("relay", r)' = Taken("relay", r)
      BY <2>1, <3>1 DEF Reading, Unasked, Consumed, Taken, Live, Served, Cancelling, Outcomes
    <3>3. HandlerInv(r)' /\ \A s \in Sides : QueueInv(s, r)' /\ WireInv(s, r)'
      BY <1>1, <2>1, <3>1, <3>2, VisitorMoved DEF NoBody, Gets
    <3>4. VisitorInv(r)' /\ PutInv(r)'
      BY <1>3, <1>4, <2>1, <3>1, <3>2 DEF VisitorInv, PutInv
    <3> QED BY <3>3, <3>4 DEF ReqInv
  <2> QED BY <2>2, <2>3
<1>6. CASE SendFails(r)
  <2>1. Unasked(r) /\ rpc[r] \in {"opened", "body"}
    BY <1>6 DEF SendFails, Unasked
  <2>2. CASE RemoveStream("relay", r) /\ Move(r, "lost")
    BY <1>1, <1>2, <1>3, <2>1, <2>2, VisitorEnds DEF Outcomes
  <2>3. CASE streams' = streams /\ Move(r, "error") /\ r \notin streams["relay"]
    BY <1>1, <1>2, <1>3, <2>1, <2>3, VisitorEnds DEF Outcomes
  <2>4. CASE streams' = streams /\ Move(r, "error") /\ r \in streams["relay"]
    <3>1. /\ rpc'[r] = "error" /\ UNCHANGED <<queue, ended, put, shut, sent, delivered>>
      BY <1>2, <1>6, <2>4 DEF SendFails
    <3>2. /\ Reading("relay", r) /\ Reading("relay", r)' /\ Unasked(r)' /\ ~Served(r)'
          /\ Consumed("relay", r)' = Consumed("relay", r)
          /\ Taken("relay", r)' = Taken("relay", r)
      BY <2>1, <2>4, <3>1 DEF Reading, Unasked, Consumed, Taken, Live, Served, Cancelling, Outcomes
    <3>3. HandlerInv(r)' /\ \A s \in Sides : QueueInv(s, r)' /\ WireInv(s, r)'
      BY <1>1, <2>1, <2>4, <3>1, <3>2, VisitorMoved DEF NoBody, Gets
    <3>4. VisitorInv(r)' /\ PutInv(r)'
      BY <1>3, <1>4, <2>1, <2>4, <3>1, <3>2 DEF VisitorInv, PutInv
    <3> QED BY <3>3, <3>4 DEF ReqInv
  <2> QED BY <1>6, <2>2, <2>3, <2>4 DEF SendFails
<1>7. CASE ReadStream(r) \/ StartStream(r)
  <2>1. /\ rpc[r] \in {"sent", "head"} /\ Served(r) /\ UNCHANGED <<queue, streams, delivered>>
    BY <1>7 DEF ReadStream, StartStream, Live, Served, Cancelling, Outcomes
  <2>2. CASE r \in streams["relay"]
    <3>1. \/ rpc[r] = "sent" /\ rpc'[r] = "first"
          \/ rpc[r] = "head" /\ rpc'[r] = "stream"
      BY <1>2, <1>7, <2>2 DEF ReadStream, StartStream
    <3>2. Served(r)' /\ Gets(r)
      BY <2>1, <3>1 DEF Live, Served, Cancelling, Outcomes, Gets, Consumed
    <3> QED BY <1>1, <2>1, <3>1, <3>2, VisitorGoesOn
  <2>3. CASE r \notin streams["relay"]
    <3>1. rpc'[r] = "error" /\ shut["relay"]
      BY <1>2, <1>4, <1>7, <2>1, <2>3 DEF ReadStream, StartStream, VisitorInv
    <3> QED BY <1>1, <2>1, <2>3, <3>1, VisitorEnds DEF Outcomes
  <2> QED BY <2>2, <2>3
<1>8. CASE FirstChunk(r)
  <2>1. /\ rpc[r] = "first" /\ rpc'[r] = "head" /\ UNCHANGED <<streams, delivered>>
        /\ delivered[r] = <<>>
    BY <1>2, <1>4, <1>8 DEF FirstChunk, VisitorInv, Reading
  <2>2. Served(r) /\ Served(r)' /\ Gets(r)
    BY <1>2, <1>8, <2>1 DEF FirstChunk, Live, Served, Cancelling, Outcomes, Gets, Consumed
  <2> QED BY <1>1, <2>1, <2>2, VisitorGoesOn
<1>9. CASE Chunk(r)
  <2>1. /\ rpc[r] = "stream" /\ rpc'[r] = "stream" /\ UNCHANGED streams
        /\ delivered'[r] = Append(delivered[r], Head(queue["relay"][r]))
    BY <1>0, <1>9 DEF Chunk
  <2>2. Len(delivered'[r]) = Len(delivered[r]) + 1 /\ Len(delivered[r]) \in Nat
    <3>1. Head(queue["relay"][r]) \in 0..MaxFrame
      BY <1>0, <1>2, <1>9, HeadTailProperties DEF Chunk
    <3> QED BY <1>0, <2>1, <3>1, AppendProperties
  <2>3. Served(r) /\ Served(r)' /\ Gets(r)
    BY <1>2, <1>9, <2>1, <2>2 DEF Chunk, Live, Served, Cancelling, Outcomes, Gets, Consumed
  <2> QED BY <1>1, <2>1, <2>3, VisitorGoesOn
<1>10. CASE Finish(r)
  <2>1. /\ rpc'[r] \in Outcomes /\ queue'["relay"][r] = <<>> /\ r \notin streams'["relay"]
    BY <1>2, <1>10 DEF Finish, Outcomes
  <2> QED BY <1>1, <1>4, <2>1, VisitorEnds
<1>11. CASE AbortUpload(r) \/ LeftBeforeStart(r)
  <2>1. /\ rpc'[r] = "left" /\ UNCHANGED streams
    BY <1>2, <1>11 DEF AbortUpload, LeftBeforeStart
  <2> QED BY <1>1, <2>1, VisitorEnds DEF Outcomes
<1>12. CASE Dropped(r) \/ CancelSent(r)
  <2>1. /\ rpc'[r] \in {"timeout", "left"} /\ r \notin streams'["relay"]
    BY <1>2, <1>12 DEF Dropped, CancelSent
  <2> QED BY <1>1, <2>1, VisitorEnds DEF Outcomes
<1>14. CASE FirstByteTimeout(r) \/ CancelOnDisconnect(r)
  <2>1. /\ rpc'[r] \in Cancelling /\ streams' = streams
    BY <1>2, <1>14 DEF FirstByteTimeout, CancelOnDisconnect, Cancelling
  <2> QED BY <1>1, <2>1, VisitorEnds
<1>13. CASE SendOpen(r) /\ wire' = wire
  <2>1. RemoveStream("relay", r) /\ Move(r, "rejected") /\ rpc[r] = "opened"
    <3>1. ~Send("agent", Signal("open", r))
      <4>1. wire["agent"] \in Seq(Frame) /\ Signal("open", r) \in Frame
        BY FrameTypes DEF TypeOK, Sides, Frame
      <4>2. Len(Append(wire["agent"], Signal("open", r))) = Len(wire["agent"]) + 1
            /\ Len(wire["agent"]) \in Nat
        BY <4>1, AppendProperties
      <4>3. Append(wire["agent"], Signal("open", r)) # wire["agent"]
        BY <4>2
      <4> QED BY <1>0, <1>13, <4>3 DEF Send, TypeOK
    <3> QED BY <1>13, <3>1 DEF SendOpen
  <2> QED BY <1>1, <1>2, <1>3, <2>1, VisitorEnds DEF Outcomes, Unasked
<1> QED BY <1>5, <1>6, <1>7, <1>8, <1>9, <1>10, <1>11, <1>12, <1>13, <1>14

\* The writer of r sends its next frame.
LEMMA NextFrame ==
  ASSUME TypeOK, TypeOK', NEW s \in Sides, NEW r \in Reqs, WireInv(s, r), QueueInv(s, r), up,
         NEW f \in Frame, wire'[s] = Append(wire[s], f), Number(s, r, f) = Written(s, r),
         Writing(s, r), Written(s, r)' = Written(s, r) + 1,
         Listening(s, r)' => Listening(s, r) /\ Taken(s, r)' = Taken(s, r)
  PROVE  WireInv(s, r)'
<1>1. /\ Written(s, r) \in Nat /\ Taken(s, r) \in Nat /\ wire[s] \in Seq(Frame)
  BY CountTypes DEF CountsOK, TypeOK
<1>2. Rising(wire'[s], s, r) /\ Below(wire'[s], s, r, Written(s, r)')
  BY <1>1, WriteNext DEF WireInv
<1>3. ASSUME Listening(s, r)'
      PROVE  /\ Gapless(wire'[s], s, r, Taken(s, r)')
             /\ OnItsWay(wire'[s], s, r, Taken(s, r)', Written(s, r)')
  <2>1. Reading(s, r)
    BY <1>3 DEF Listening, Reading, Sides
  <2>2. Taken(s, r) \in 0..Written(s, r)
    BY <1>1, <2>1 DEF QueueInv
  <2> QED BY <1>1, <1>3, <2>2, WriteNext DEF WireInv
<1> QED BY <1>2, <1>3 DEF WireInv, Rising, Below, Gapless, OnItsWay

\* Sending OPEN, a part of the body, or the sentinel.
LEMMA BodyReq ==
  ASSUME TypeOK, TypeOK', NEW r \in Reqs, ReqInv(r), (SendOpen(r) /\ wire' # wire) \/ SendBody(r)
  PROVE  ReqInv(r)'
<1> USE DEF net, ends, heart, visitors, handlers
<1>0. /\ "relay" \in Sides /\ "agent" \in Sides /\ rpc \in [Reqs -> RelayPcs]
      /\ sent \in [Reqs -> 0..BodyLen]
  BY DEF TypeOK, Sides
<1>1. /\ QueueInv("relay", r) /\ WireInv("relay", r) /\ QueueInv("agent", r) /\ WireInv("agent", r)
      /\ HandlerInv(r) /\ VisitorInv(r)
  BY <1>0 DEF ReqInv
<1>2. UNCHANGED <<up, apc, asent, got, queue, put, streams, ended, shut, loop, delivered>>
  BY DEF SendOpen, SendBody
<1>3. rpc[r] \in {"opened", "body"} /\ rpc'[r] \in {"body", "sent"}
  BY <1>0 DEF SendOpen, SendBody, Move
<1>4. /\ Unasked(r) /\ Served(r) /\ Served(r)' /\ Reading("relay", r) /\ Reading("relay", r)'
      /\ Consumed("relay", r)' = Consumed("relay", r)
  BY <1>3 DEF Unasked, Live, Served, Cancelling, Reading, Consumed, Outcomes
<1>5. /\ Taken("relay", r)' = Taken("relay", r) /\ Listening("relay", r)' = Listening("relay", r)
      /\ Written("relay", r)' = Written("relay", r) /\ Writing("relay", r)' = Writing("relay", r)
      /\ Taken("agent", r)' = Taken("agent", r) /\ Consumed("agent", r)' = Consumed("agent", r)
      /\ Listening("agent", r)' = Listening("agent", r)
  BY <1>2, <1>4 DEF Taken, Listening, Written, Writing, Consumed
<1>6. PICK f \in Frame :
        /\ f.req = r /\ Send("agent", f) /\ Number("agent", r, f) = Written("agent", r)
        /\ Written("agent", r)' = Written("agent", r) + 1
  <2>1. CASE SendOpen(r) /\ wire' # wire
    <3>1. Signal("open", r) \in Frame /\ Signal("open", r).req = r /\ Number("agent", r, Signal("open", r)) = 0
      BY FrameTypes DEF Frame, Signal, Number
    <3>2. /\ Send("agent", Signal("open", r)) /\ rpc[r] = "opened" /\ rpc'[r] = "body"
          /\ sent'[r] = 0
      BY <1>0, <1>1, <2>1 DEF SendOpen, Move, VisitorInv
    <3> QED BY <3>1, <3>2 DEF Written
  <2>2. CASE SendBody(r) /\ sent[r] < BodyLen
    <3>1. sent[r] + 1 \in 0..BodyLen /\ sent[r] + 1 # 0 /\ sent[r] \in Nat
      BY <1>0, <2>2, TunnelAssumption
    <3>2. /\ Data(r, sent[r] + 1) \in Frame /\ Data(r, sent[r] + 1).req = r
          /\ Number("agent", r, Data(r, sent[r] + 1)) = sent[r] + 1
      BY <3>1, FrameTypes DEF Frame, Data, Number, Count
    <3>3. /\ Send("agent", Data(r, sent[r] + 1)) /\ rpc[r] = "body" /\ rpc'[r] = "body"
          /\ sent'[r] = sent[r] + 1
      BY <1>0, <2>2 DEF SendBody
    <3>4. Written("agent", r) = sent[r] + 1 /\ Written("agent", r)' = sent[r] + 1 + 1
      BY <3>1, <3>3 DEF Written
    <3> QED BY <3>1, <3>2, <3>3, <3>4
  <2>3. CASE SendBody(r) /\ ~(sent[r] < BodyLen)
    <3>1. /\ Data(r, 0) \in Frame /\ Data(r, 0).req = r
          /\ Number("agent", r, Data(r, 0)) = BodyLen + 1
      BY FrameTypes DEF Frame, Data, Number, Count
    <3>2. /\ Send("agent", Data(r, 0)) /\ rpc[r] = "body" /\ rpc'[r] = "sent" /\ sent[r] = BodyLen
      BY <1>0, <2>3 DEF SendBody, Move
    <3>3. Written("agent", r) = BodyLen + 1 /\ Written("agent", r)' = BodyLen + 1 + 1
      BY <3>2, TunnelAssumption DEF Written, Unasked
    <3> QED BY <3>1, <3>2, <3>3
  <2> QED BY <2>1, <2>2, <2>3
<1>7. /\ wire'["relay"] = wire["relay"] /\ wire'["agent"] = Append(wire["agent"], f) /\ up
  BY <1>6, SendToAgent DEF Send
<1>8. /\ Written("agent", r) \in Nat /\ Written("relay", r) \in Nat
      /\ Consumed("agent", r) \in Nat /\ Taken("agent", r) \in Nat
  BY <1>0, CountTypes DEF CountsOK
<1>9. QueueInv("agent", r)' /\ QueueInv("relay", r)'
  BY <1>0, <1>1, <1>2, <1>4, <1>5, <1>6, <1>8, QuietQueue DEF Reading
<1>10. WireInv("relay", r)'
  BY <1>0, <1>1, <1>2, <1>5, <1>7, <1>8, QuietWire DEF Unmoved
<1>11. WireInv("agent", r)'
  <2>1. Writing("agent", r)
    BY <1>3 DEF Writing
  <2> QED BY <1>0, <1>1, <1>5, <1>6, <1>7, <2>1, NextFrame
<1>12. HandlerInv(r)'
  <2>1. ASSUME apc[r] # "none" PROVE NoOpen(wire["agent"], r)'
    <3>1. Written("agent", r) # 0
      <4>1. Taken("agent", r) <= Written("agent", r)
        BY <1>1 DEF QueueInv, Reading
      <4>2. Len(queue["agent"][r]) \in Nat /\ Len(got[r]) \in Nat
        BY <1>0, CountTypes DEF CountsOK
      <4>3. Consumed("agent", r) >= 1
        BY <2>1, <4>2 DEF Consumed
      <4>4. Taken("agent", r) >= 1
        BY <1>8, <4>2, <4>3 DEF Taken
      <4> QED BY <1>8, <4>1, <4>4
    <3>2. AtMost(wire'["agent"], wire["agent"], f)
      BY <1>0, <1>6, <1>7, WireChanges DEF TypeOK
    <3> QED BY <1>1, <1>6, <2>1, <3>1, <3>2 DEF HandlerInv, NoOpen, AtMost
  <2>2. (apc[r] = "respond" \/ asent[r] > 0)' => ~Unasked(r)'
    BY <1>1, <1>2, <1>4 DEF HandlerInv
  <2> QED BY <1>1, <1>2, <2>1, <2>2 DEF HandlerInv
<1>13. VisitorInv(r)'
  BY <1>1, <1>2, <1>3, <1>4, <1>5 DEF VisitorInv
<1>14. PutInv(r)'
  BY <1>4 DEF PutInv
<1> QED BY <1>9, <1>10, <1>11, <1>12, <1>13, <1>14 DEF ReqInv, Sides

LEMMA VisitorOrder ==
  ASSUME TypeOK, TypeOK', OrderInv, NEW r \in Reqs,
         \/ Request(r) \/ RelayStep(r) \/ Chunk(r)
         \/ AbortUpload(r) \/ LeftBeforeStart(r) \/ CancelOnDisconnect(r) \/ Dropped(r)
  PROVE  OrderInv'
<1>1. Only(r) /\ wire'["relay"] = wire["relay"]
  BY VisitorOnly
<1>2. ReqInv(r)
  BY DEF OrderInv
<1>3. ReqInv(r)'
  <2>1. CASE (SendOpen(r) /\ wire' # wire) \/ SendBody(r)
    BY <1>2, <2>1, BodyReq
  <2>2. CASE ~((SendOpen(r) /\ wire' # wire) \/ SendBody(r))
    <3>1. \/ Request(r) \/ SendFails(r) \/ ReadStream(r) \/ FirstChunk(r) \/ FirstByteTimeout(r) \/ CancelSent(r)
          \/ StartStream(r) \/ Finish(r) \/ Chunk(r) \/ AbortUpload(r) \/ LeftBeforeStart(r)
          \/ CancelOnDisconnect(r) \/ Dropped(r) \/ (SendOpen(r) /\ wire' = wire)
      BY <2>2 DEF RelayStep
    <3> QED BY <1>2, <3>1, VisitorReq
  <2> QED BY <2>1, <2>2
<1>4. ResponseFrames'
  BY <1>1 DEF OrderInv, ResponseFrames
<1> QED BY <1>1, <1>3, <1>4, OthersKept

(***************************************************************************)
(* Steps of handle_open_frame.                                               *)
(***************************************************************************)
\* Taking the first element of a queue.
LEMMA FirstAndRest ==
  ASSUME NEW w \in Seq(0..MaxFrame), w # <<>>
  PROVE  /\ Len(Tail(w)) = Len(w) - 1 /\ Len(w) \in Nat /\ Len(w) >= 1
         /\ \A i \in 1..Len(Tail(w)) : Tail(w)[i] = w[i + 1]
         /\ Head(w) = w[1] /\ Head(w) \in 0..MaxFrame
<1>1. /\ Len(Tail(w)) = Len(w) - 1 /\ Head(w) \in 0..MaxFrame
      /\ \A i \in 1..Len(Tail(w)) : Tail(w)[i] = w[i + 1]
  BY HeadTailProperties
<1>2. Len(w) \in Nat /\ Len(w) >= 1 /\ Head(w) = w[1]
  OBVIOUS
<1> QED BY <1>1, <1>2

LEMMA AgentOnly ==
  ASSUME TypeOK, NEW r \in Reqs, AgentStep(r)
  PROVE  Only(r) /\ wire'["agent"] = wire["agent"]
<1> USE DEF net, ends, heart, visitors, handlers
<1>0. /\ queue \in [Sides -> [Reqs -> Seq(0..MaxFrame)]] /\ streams \in [Sides -> SUBSET Reqs]
      /\ apc \in [Reqs -> AgentPcs] /\ got \in [Reqs -> Seq(0..MaxFrame)]
      /\ asent \in [Reqs -> 0..(RespLen + 1)]
      /\ wire \in [Sides -> Seq(Frame)]
      /\ "relay" \in Sides /\ "agent" \in Sides
  BY DEF TypeOK, Sides
<1>1. CASE HandlerStart(r) \/ RespondFails(r)
  <2>1. \A q \in Reqs \ {r} : apc'[q] = apc[q]
    BY <1>0, <1>1 DEF HandlerStart, RespondFails
  <2> QED BY <1>1, <2>1 DEF HandlerStart, RespondFails, Only
<1>2. CASE BodyChunk(r)
  <2>1. \A q \in Reqs \ {r} : apc'[q] = apc[q]
    BY <1>0, <1>2 DEF BodyChunk
  <2>2. \A q \in Reqs \ {r} : got'[q] = got[q]
    BY <1>0, <1>2 DEF BodyChunk
  <2>3. \A q \in Reqs \ {r}, s \in Sides : q \in streams'[s] <=> q \in streams[s]
    <3>1. streams' = streams \/ RemoveStream("agent", r)
      BY <1>2 DEF BodyChunk
    <3> QED BY <1>0, <3>1 DEF RemoveStream
  <2>4. \A q \in Reqs \ {r}, s \in Sides : queue'[s][q] = queue[s][q]
    BY <1>0, <1>2 DEF BodyChunk, Pop
  <2> QED BY <1>2, <2>1, <2>2, <2>3, <2>4 DEF BodyChunk, Only
<1>3. CASE Respond(r)
  <2>1. \A q \in Reqs \ {r} : apc'[q] = apc[q]
    BY <1>0, <1>3 DEF Respond
  <2>2. \A q \in Reqs \ {r} : asent'[q] = asent[q]
    BY <1>0, <1>3 DEF Respond
  <2>3. /\ Signal("close", r) \in Frame /\ Signal("close", r).req = r
        /\ asent[r] <= RespLen => Data(r, asent[r]) \in Frame /\ Data(r, asent[r]).req = r
    <3>1. asent[r] <= RespLen => asent[r] \in 0..RespLen
      BY <1>0, TunnelAssumption
    <3> QED BY <3>1, FrameTypes DEF Frame, Data, Signal
  <2>4. \E f \in Frame : f.req = r /\ Send("relay", f)
    BY <1>3, <2>3 DEF Respond
  <2>5. /\ wire'["agent"] = wire["agent"]
        /\ \E f \in Frame : f.req = r /\ wire'["relay"] = Append(wire["relay"], f)
    BY <1>0, <2>4 DEF Send
  <2> QED BY <1>3, <2>1, <2>2, <2>5 DEF Respond, Only, Sides
<1> QED BY <1>1, <1>2, <1>3 DEF AgentStep

\* A step of the handler of r leaves the visitor's part alone.
HandlerOnly(r) ==
    /\ Only(r) /\ wire'["agent"] = wire["agent"]
    /\ rpc'[r] = rpc[r] /\ sent'[r] = sent[r] /\ delivered'[r] = delivered[r]
    /\ queue'["relay"][r] = queue["relay"][r]
    /\ streams'["relay"] = streams["relay"]

LEMMA HandlerOnlyHolds ==
  ASSUME TypeOK, NEW r \in Reqs, AgentStep(r)
  PROVE  HandlerOnly(r)
<1> USE DEF net, ends, heart, visitors, handlers
<1>0. /\ queue \in [Sides -> [Reqs -> Seq(0..MaxFrame)]] /\ streams \in [Sides -> SUBSET Reqs]
      /\ "relay" \in Sides /\ "agent" \in Sides
  BY DEF TypeOK, Sides
<1>1. UNCHANGED <<rpc, sent, delivered>>
  BY DEF AgentStep, HandlerStart, BodyChunk, Respond, RespondFails
<1>2. queue' = queue \/ Pop("agent", r)
  BY DEF AgentStep, HandlerStart, BodyChunk, Respond, RespondFails
<1>3. streams' = streams \/ RemoveStream("agent", r)
  BY DEF AgentStep, HandlerStart, BodyChunk, Respond, RespondFails
<1>4. queue'["relay"][r] = queue["relay"][r]
  BY <1>0, <1>2 DEF Pop
<1>5. streams'["relay"] = streams["relay"]
  BY <1>0, <1>3 DEF RemoveStream
<1> QED BY <1>1, <1>4, <1>5, AgentOnly DEF HandlerOnly

\* The visitor's part of the invariant is kept.
LEMMA HandlerVisitor ==
  ASSUME TypeOK, TypeOK', NEW r \in Reqs, ReqInv(r), HandlerOnly(r),
         Written("relay", r) <= Written("relay", r)'
  PROVE  /\ VisitorInv(r)' /\ PutInv(r)' /\ QueueInv("relay", r)'
         /\ Unasked(r)' = Unasked(r) /\ Reading("relay", r)' = Reading("relay", r)
         /\ Taken("relay", r)' = Taken("relay", r)
         /\ Listening("relay", r)' = Listening("relay", r)
         /\ Written("agent", r)' = Written("agent", r) /\ Writing("agent", r)' = Writing("agent", r)
<1>0. "relay" \in Sides /\ put' = put /\ shut' = shut /\ ended' = ended /\ loop' = loop
  BY DEF Sides, HandlerOnly, Only
<1>1. /\ Unasked(r)' = Unasked(r) /\ Served(r)' = Served(r)
      /\ Consumed("relay", r)' = Consumed("relay", r)
  BY DEF HandlerOnly, Unasked, Live, Served, Cancelling, Consumed
<1>2. /\ Reading("relay", r)' = Reading("relay", r)
      /\ Taken("relay", r)' = Taken("relay", r)
      /\ Written("agent", r)' = Written("agent", r) /\ Writing("agent", r)' = Writing("agent", r)
  BY <1>0, <1>1 DEF HandlerOnly, Reading, Taken, Written, Writing
<1>3. Listening("relay", r)' = Listening("relay", r)
  BY <1>2 DEF HandlerOnly, Listening
<1>4. VisitorInv(r)'
  BY <1>0, <1>1, <1>2 DEF HandlerOnly, VisitorInv, ReqInv
<1>5. PutInv(r)'
  BY <1>0, <1>1 DEF HandlerOnly, PutInv, ReqInv
<1>6. QueueInv("relay", r)'
  <2>1. QueueInv("relay", r)
    BY <1>0 DEF ReqInv
  <2> QED BY <1>0, <1>1, <1>2, <2>1, QuietQueue DEF HandlerOnly
<1> QED BY <1>1, <1>2, <1>3, <1>4, <1>5, <1>6

LEMMA AgentReq ==
  ASSUME TypeOK, TypeOK', NEW r \in Reqs, ReqInv(r), AgentStep(r)
  PROVE  ReqInv(r)'
<1> USE DEF net, ends, heart, visitors, handlers
<1>0. /\ queue \in [Sides -> [Reqs -> Seq(0..MaxFrame)]] /\ streams \in [Sides -> SUBSET Reqs]
      /\ apc \in [Reqs -> AgentPcs] /\ got \in [Reqs -> Seq(0..MaxFrame)]
      /\ asent \in [Reqs -> 0..(RespLen + 1)]
      /\ wire \in [Sides -> Seq(Frame)]
      /\ "relay" \in Sides /\ "agent" \in Sides
  BY DEF TypeOK, Sides
<1>1. /\ QueueInv("relay", r) /\ WireInv("relay", r) /\ QueueInv("agent", r) /\ WireInv("agent", r)
      /\ HandlerInv(r) /\ VisitorInv(r)
  BY <1>0 DEF ReqInv
<1>2. HandlerOnly(r) /\ UNCHANGED <<put, shut, ended, loop, up>>
  BY HandlerOnlyHolds DEF HandlerOnly, Only
<1>3. /\ Written("relay", r) \in Nat /\ Written("agent", r) \in Nat /\ asent[r] \in Nat
      /\ Consumed("agent", r) \in Nat /\ Taken("agent", r) \in Nat /\ Taken("relay", r) \in Nat
      /\ Len(queue["agent"][r]) \in Nat /\ Len(got[r]) \in Nat
  BY <1>0, CountTypes DEF CountsOK
<1>4. CASE HandlerStart(r) \/ RespondFails(r)
  <2>1. /\ UNCHANGED <<wire, streams, queue, asent, got>>
        /\ \/ /\ apc[r] = "spawned"
              /\ apc'[r] = IF r \in streams["agent"] THEN "body" ELSE "done"
           \/ apc[r] = "respond" /\ apc'[r] = "done"
    BY <1>0, <1>4 DEF HandlerStart, RespondFails
  <2>2. /\ Written("relay", r) <= Written("relay", r)'
        /\ Writing("relay", r)' => Writing("relay", r) /\ Written("relay", r)' = Written("relay", r)
    BY <1>3, <2>1, TunnelAssumption DEF Written, Writing
  <2>3. /\ Consumed("agent", r)' = Consumed("agent", r)
        /\ Taken("agent", r)' = Taken("agent", r)
        /\ Listening("agent", r)' => Listening("agent", r)
    BY <1>2, <2>1 DEF Consumed, Taken, Listening
  <2>4. /\ VisitorInv(r)' /\ PutInv(r)' /\ QueueInv("relay", r)'
        /\ Unasked(r)' = Unasked(r) /\ Reading("relay", r)' = Reading("relay", r)
        /\ Taken("relay", r)' = Taken("relay", r)
        /\ Listening("relay", r)' = Listening("relay", r)
        /\ Written("agent", r)' = Written("agent", r) /\ Writing("agent", r)' = Writing("agent", r)
    BY <1>2, <2>2, HandlerVisitor
  <2>5. Unmoved("relay", r) /\ Unmoved("agent", r)
    BY <2>1 DEF Unmoved
  <2>6. WireInv("relay", r)'
    BY <1>0, <1>1, <1>2, <2>2, <2>4, <2>5, QuietWire
  <2>7. WireInv("agent", r)'
    <3>1. Written("agent", r) <= Written("agent", r)'
      BY <1>3, <2>4
    <3> QED BY <1>0, <1>1, <1>2, <2>3, <2>4, <2>5, <3>1, QuietWire
  <2>8. QueueInv("agent", r)'
    BY <1>0, <1>1, <1>2, <1>3, <2>1, <2>3, <2>4, QuietQueue DEF Reading
  <2>9. HandlerInv(r)'
    <3>1. NoOpen(wire["agent"], r)'
      BY <1>1, <2>1 DEF HandlerInv, NoOpen
    <3> QED BY <1>1, <1>2, <2>1, <2>4, <3>1 DEF HandlerInv
  <2> QED BY <2>4, <2>6, <2>7, <2>8, <2>9 DEF ReqInv, Sides
<1>5. CASE Respond(r)
  <2>1. /\ UNCHANGED <<streams, queue, got>> /\ apc[r] = "respond"
    BY <1>5 DEF Respond
  <2>2. PICK f \in Frame :
          /\ f.req = r /\ Send("relay", f) /\ Number("relay", r, f) = Written("relay", r)
          /\ Written("relay", r)' = Written("relay", r) + 1
          /\ \/ apc'[r] = "respond" /\ asent'[r] = asent[r] + 1
             \/ apc'[r] = "done" /\ asent'[r] = asent[r]
    <3>1. CASE asent[r] <= RespLen
      <4>1. asent[r] \in 0..RespLen
        BY <1>0, <3>1, TunnelAssumption
      <4>2. /\ Data(r, asent[r]) \in Frame /\ Data(r, asent[r]).req = r
            /\ Number("relay", r, Data(r, asent[r])) = asent[r]
        BY <4>1, FrameTypes DEF Frame, Data, Number, Count
      <4>3. /\ Send("relay", Data(r, asent[r])) /\ apc'[r] = "respond"
            /\ asent'[r] = asent[r] + 1
        BY <1>0, <1>3, <1>5, <3>1, TunnelAssumption DEF Respond
      <4>4. Written("relay", r) = asent[r] /\ Written("relay", r)' = asent[r] + 1
        BY <2>1, <4>3 DEF Written
      <4> QED BY <4>2, <4>3, <4>4
    <3>2. CASE ~(asent[r] <= RespLen)
      <4>1. asent[r] = RespLen + 1
        BY <1>0, <3>2, TunnelAssumption
      <4>2. /\ Signal("close", r) \in Frame /\ Signal("close", r).req = r
            /\ Number("relay", r, Signal("close", r)) = RespLen + 1
        BY FrameTypes DEF Frame, Signal, Number
      <4>3. /\ Send("relay", Signal("close", r)) /\ apc'[r] = "done"
            /\ asent'[r] = asent[r]
        BY <1>0, <1>5, <3>2 DEF Respond
      <4>4. Written("relay", r) = RespLen + 1 /\ Written("relay", r)' = RespLen + 2
        BY <2>1, <4>1, <4>3 DEF Written
      <4> QED BY <4>2, <4>3, <4>4, TunnelAssumption
    <3> QED BY <3>1, <3>2
  <2>3. /\ wire'["relay"] = Append(wire["relay"], f) /\ wire'["agent"] = wire["agent"] /\ up
    BY <1>0, <2>2 DEF Send
  <2>4. Written("relay", r) <= Written("relay", r)' /\ Writing("relay", r)
    BY <1>3, <2>1, <2>2 DEF Writing
  <2>5. /\ VisitorInv(r)' /\ PutInv(r)' /\ QueueInv("relay", r)'
        /\ Unasked(r)' = Unasked(r) /\ Reading("relay", r)' = Reading("relay", r)
        /\ Taken("relay", r)' = Taken("relay", r)
        /\ Listening("relay", r)' = Listening("relay", r)
        /\ Written("agent", r)' = Written("agent", r) /\ Writing("agent", r)' = Writing("agent", r)
    BY <1>2, <2>4, HandlerVisitor
  <2>6. WireInv("relay", r)'
    BY <1>0, <1>1, <2>2, <2>3, <2>4, <2>5, NextFrame
  <2>7. /\ Consumed("agent", r)' = Consumed("agent", r)
        /\ Taken("agent", r)' = Taken("agent", r)
        /\ Listening("agent", r)' => Listening("agent", r)
    BY <1>2, <2>1, <2>2 DEF Consumed, Taken, Listening
  <2>8. WireInv("agent", r)'
    BY <1>0, <1>1, <1>2, <1>3, <2>3, <2>5, <2>7, QuietWire DEF Unmoved
  <2>9. QueueInv("agent", r)'
    BY <1>0, <1>1, <1>2, <1>3, <2>1, <2>5, <2>7, QuietQueue DEF Reading
  <2>10. HandlerInv(r)'
    <3>1. NoOpen(wire["agent"], r)'
      BY <1>1, <2>1, <2>3 DEF HandlerInv, NoOpen
    <3> QED BY <1>1, <1>2, <2>1, <2>2, <2>5, <3>1 DEF HandlerInv
  <2> QED BY <2>5, <2>6, <2>8, <2>9, <2>10 DEF ReqInv, Sides
<1>6. CASE BodyChunk(r)
  <2> DEFINE w == queue["agent"][r]
             v == queue'["agent"][r]
             n == Head(w)
  <2>1. /\ wire' = wire /\ asent' = asent /\ apc[r] = "body"
        /\ w # <<>> /\ v = Tail(w) /\ w \in Seq(0..MaxFrame)
    BY <1>0, <1>6 DEF BodyChunk, Pop
  <2>2. /\ Len(v) = Len(w) - 1 /\ Len(w) \in Nat /\ Len(w) >= 1 /\ n = w[1] /\ n \in 0..MaxFrame
        /\ \A i \in 1..Len(v) : v[i] = w[i + 1]
    <3>1. /\ Len(Tail(w)) = Len(w) - 1 /\ Len(w) \in Nat
          /\ \A i \in 1..Len(Tail(w)) : Tail(w)[i] = w[i + 1]
          /\ Head(w) = w[1] /\ Head(w) \in 0..MaxFrame
      <4> HIDE DEF w
      <4> QED BY <2>1, FirstAndRest
    <3>2. Len(w) >= 1
      <4> HIDE DEF w
      <4> QED BY <2>1, FirstAndRest
    <3> QED BY <2>1, <3>1, <3>2
  <2>3. /\ \A i \in 1..Len(w) : Count("agent", w[i]) = Consumed("agent", r) + i - 1
        /\ put["agent"].req = r => Count("agent", put["agent"].n) = Consumed("agent", r) + Len(w)
        /\ Taken("agent", r) <= Written("agent", r)
    BY <1>1 DEF QueueInv, Reading
  <2>4. Consumed("agent", r) = 1 + Len(got[r]) /\ Count("agent", n) = 1 + Len(got[r])
    <3>1. Consumed("agent", r) = 1 + Len(got[r])
      BY <2>1 DEF Consumed
    <3>2. Count("agent", w[1]) = Consumed("agent", r) + 1 - 1
      BY <2>2, <2>3
    <3> QED BY <1>3, <2>2, <3>1, <3>2
  <2> HIDE DEF w, v, n
  <2>5. \/ /\ n = 0 /\ r \notin streams'["agent"] /\ apc'[r] = "respond" /\ got'[r] = got[r]
        \/ /\ n # 0 /\ got'[r] = Append(got[r], n) /\ apc'[r] = "body" /\ streams' = streams
    BY <1>0, <1>6 DEF BodyChunk, RemoveStream, w, n
  <2>6. /\ Written("relay", r)' = Written("relay", r) /\ Writing("relay", r)' = Writing("relay", r)
    BY <2>1, <2>5 DEF Written, Writing
  <2>7. /\ VisitorInv(r)' /\ PutInv(r)' /\ QueueInv("relay", r)'
        /\ Unasked(r)' = Unasked(r) /\ Reading("relay", r)' = Reading("relay", r)
        /\ Taken("relay", r)' = Taken("relay", r)
        /\ Listening("relay", r)' = Listening("relay", r)
        /\ Written("agent", r)' = Written("agent", r) /\ Writing("agent", r)' = Writing("agent", r)
    BY <1>2, <1>3, <2>6, HandlerVisitor
  <2>8. WireInv("relay", r)'
    <3>1. Written("relay", r) <= Written("relay", r)' /\ Unmoved("relay", r)
      BY <1>3, <2>1, <2>6 DEF Unmoved
    <3> QED BY <1>0, <1>1, <1>2, <2>6, <2>7, <3>1, QuietWire
  <2>9. NoOpen(wire["agent"], r)'
    BY <1>1, <2>1 DEF HandlerInv, NoOpen
  <2>10. Unmoved("agent", r)
    BY <2>1 DEF Unmoved
  <2>11. CASE n = 0
    <3>1. /\ Len(got[r]) = BodyLen /\ r \notin streams'["agent"] /\ apc'[r] = "respond"
          /\ got'[r] = got[r]
      BY <1>3, <2>4, <2>5, <2>11, TunnelAssumption DEF Count
    <3>2. /\ Len(w) = 1 /\ put["agent"].req # r /\ Written("agent", r) = BodyLen + 2
      <4>1. Taken("agent", r) = 1 + BodyLen + Len(w) + (IF put["agent"].req = r THEN 1 ELSE 0)
        BY <2>4, <3>1 DEF Taken, w
      <4>2. Written("agent", r) <= BodyLen + 2
        <5>1. sent[r] \in 0..BodyLen
          BY DEF TypeOK
        <5> QED BY <5>1, TunnelAssumption DEF Written
      <4>3. Taken("agent", r) <= Written("agent", r) /\ Written("agent", r) \in Nat
        BY <1>3, <2>3
      <4>4. Len(w) \in Nat /\ Len(w) >= 1 /\ BodyLen \in Nat
        BY <2>2, TunnelAssumption
      <4>5. CASE put["agent"].req = r
        <5>1. Taken("agent", r) = 1 + BodyLen + Len(w) + 1
          BY <4>1, <4>5
        <5> QED BY <4>2, <4>3, <4>4, <5>1
      <4>6. CASE put["agent"].req # r
        <5>1. Taken("agent", r) = 1 + BodyLen + Len(w) + 0
          BY <4>1, <4>6
        <5>2. 1 + BodyLen + Len(w) <= Written("agent", r)
          BY <4>3, <4>4, <5>1
        <5>3. \A b, l, n0 \in Nat : l >= 1 /\ 1 + b + l <= n0 /\ n0 <= b + 2 => l = 1 /\ n0 = b + 2
          OBVIOUS
        <5>4. Len(w) = 1 /\ Written("agent", r) = BodyLen + 2
          BY <4>2, <4>3, <4>4, <5>2, <5>3
        <5> QED BY <4>6, <5>4
      <4> QED BY <4>5, <4>6
    <3>3. ~Unasked(r)
      <4>1. sent[r] \in 0..BodyLen
        BY DEF TypeOK
      <4> QED BY <3>2, <4>1, TunnelAssumption DEF Written, Unasked
    <3>4. Consumed("agent", r)' = 1 + BodyLen /\ Len(v) = 0
      BY <2>2, <3>1, <3>2 DEF Consumed
    <3>5. QueueInv("agent", r)'
      <4>1. Taken("agent", r)' = 1 + BodyLen
        BY <1>2, <3>2, <3>4, TunnelAssumption DEF Taken, v
      <4> QED BY <1>2, <2>7, <3>2, <3>4, <4>1, TunnelAssumption DEF QueueInv, v
    <3>6. WireInv("agent", r)'
      <4>1. ~Listening("agent", r)'
        BY <3>1 DEF Listening
      <4>2. Written("agent", r) <= Written("agent", r)'
        BY <1>3, <2>7
      <4> QED BY <1>0, <1>1, <1>2, <2>7, <2>10, <4>1, <4>2, QuietWire
    <3>7. HandlerInv(r)'
      BY <1>1, <1>2, <2>1, <2>7, <2>9, <3>1, <3>3 DEF HandlerInv
    <3> QED BY <2>7, <2>8, <3>5, <3>6, <3>7 DEF ReqInv, Sides
  <2>12. CASE n # 0
    <3>1. got'[r] = Append(got[r], n) /\ apc'[r] = "body" /\ streams' = streams
      BY <2>5, <2>12
    <3>2. n = Len(got[r]) + 1
      BY <1>3, <2>4, <2>12 DEF Count
    <3>3. /\ Len(got'[r]) = Len(got[r]) + 1
          /\ \A i \in 1..Len(got[r]) : got'[r][i] = got[r][i]
          /\ got'[r][Len(got[r]) + 1] = n
      BY <1>0, <2>2, <3>1, AppendProperties
    <3>4. Consumed("agent", r)' = Consumed("agent", r) + 1
      BY <1>3, <2>4, <3>1, <3>3 DEF Consumed
    <3>5. Taken("agent", r)' = Taken("agent", r)
      <4>1. Consumed("agent", r)' + Len(v) = Consumed("agent", r) + Len(w)
        BY <1>3, <2>2, <3>4
      <4> QED BY <1>2, <4>1 DEF Taken, v, w
    <3>6. WireInv("agent", r)'
      <4>1. Listening("agent", r)' => Listening("agent", r)
        BY <2>1, <3>1 DEF Listening
      <4>2. Written("agent", r) <= Written("agent", r)'
        BY <1>3, <2>7
      <4> QED BY <1>0, <1>1, <1>2, <2>7, <2>10, <3>5, <4>1, <4>2, QuietWire
    <3>7. QueueInv("agent", r)'
      <4>1. \A i \in 1..Len(v) : Count("agent", v[i]) = Consumed("agent", r)' + i - 1
        <5> SUFFICES ASSUME NEW i \in 1..Len(v)
                     PROVE  Count("agent", v[i]) = Consumed("agent", r)' + i - 1
          OBVIOUS
        <5>1. i + 1 \in 1..Len(w) /\ v[i] = w[i + 1] /\ i \in Int
          BY <2>2
        <5>2. Count("agent", w[i + 1]) = Consumed("agent", r) + (i + 1) - 1
          BY <2>3, <5>1
        <5> QED BY <1>3, <3>4, <5>1, <5>2
      <4>2. put'["agent"].req = r => Count("agent", put'["agent"].n) = Consumed("agent", r)' + Len(v)
        <5>1. Consumed("agent", r) + Len(w) = Consumed("agent", r)' + Len(v)
          BY <1>3, <2>2, <3>4
        <5> QED BY <1>2, <2>3, <5>1
      <4>3. Taken("agent", r)' <= Written("agent", r)'
        BY <2>3, <2>7, <3>5
      <4> QED BY <4>1, <4>2, <4>3 DEF QueueInv, v, Count
    <3>8. \A i \in 1..Len(got'[r]) : got'[r][i] = i
      <4>1. \A i \in 1..Len(got'[r]) : i \in 1..Len(got[r]) \/ i = Len(got[r]) + 1
        BY <1>3, <3>3
      <4> QED BY <1>1, <3>2, <3>3, <4>1 DEF HandlerInv
    <3>9. HandlerInv(r)'
      BY <1>1, <1>2, <2>1, <2>7, <2>9, <3>1, <3>8 DEF HandlerInv
    <3> QED BY <2>7, <2>8, <3>6, <3>7, <3>9 DEF ReqInv, Sides
  <2> QED BY <2>11, <2>12
<1> QED BY <1>4, <1>5, <1>6 DEF AgentStep

LEMMA AgentOrder ==
  ASSUME TypeOK, TypeOK', OrderInv, NEW r \in Reqs, AgentStep(r)
  PROVE  OrderInv'
<1>1. Only(r)
  BY AgentOnly
<1>2. ReqInv(r)'
  BY AgentReq DEF OrderInv
<1>3. ResponseFrames'
  <2>0. "relay" \in Sides /\ "agent" \in Sides /\ wire \in [Sides -> Seq(Frame)] /\ ResponseFrames
        /\ asent[r] \in 0..(RespLen + 1)
    BY DEF TypeOK, Sides, OrderInv
  <2>1. CASE wire' = wire
    BY <2>0, <2>1 DEF ResponseFrames
  <2>2. ASSUME NEW f \in Frame, f.kind \notin {"open", "cancel"}, f.kind = "data" => f.n <= RespLen,
               Send("relay", f)
        PROVE  ResponseFrames'
    <3>1. wire'["relay"] = Append(wire["relay"], f)
      BY <2>0, <2>2 DEF Send
    <3>2. AtMost(wire'["relay"], wire["relay"], f)
      BY <2>0, <3>1, WireChanges
    <3> QED BY <2>0, <2>2, <3>2, ResponsesKept
  <2>3. CASE Respond(r)
    <3>1. /\ Signal("close", r) \in Frame /\ Signal("close", r).kind = "close"
          /\ asent[r] <= RespLen =>
               /\ Data(r, asent[r]) \in Frame /\ Data(r, asent[r]).kind = "data"
               /\ Data(r, asent[r]).n = asent[r]
      <4>1. asent[r] <= RespLen => asent[r] \in 0..RespLen
        BY <2>0, TunnelAssumption
      <4> QED BY <4>1, FrameTypes DEF Frame, Data, Signal
    <3> QED BY <2>2, <2>3, <3>1 DEF Respond
  <2> QED BY <2>1, <2>3 DEF AgentStep, HandlerStart, BodyChunk, RespondFails, net
<1> QED BY <1>1, <1>2, <1>3, OthersKept

(***************************************************************************)
(* Steps of a receive loop that are about a request.                         *)
(***************************************************************************)
\* The next frame of r that a receive loop takes off the wire, if it does not
\* ignore r, is the next in the order in which they were written.
LEMMA TakenNext ==
  ASSUME TypeOK, NEW s \in Sides, NEW r \in Reqs, ReqInv(r), wire[s] # <<>>,
         Number(s, r, Head(wire[s])) >= 0
  PROVE  /\ Rising(Tail(wire[s]), s, r) /\ Below(Tail(wire[s]), s, r, Written(s, r))
         /\ Number(s, r, Head(wire[s])) < Written(s, r)
         /\ Listening(s, r) =>
              /\ Number(s, r, Head(wire[s])) = Taken(s, r)
              /\ Gapless(Tail(wire[s]), s, r, Taken(s, r) + 1)
              /\ up /\ Writing(s, r) =>
                    OnItsWay(Tail(wire[s]), s, r, Taken(s, r) + 1, Written(s, r))
<1>1. /\ wire[s] \in Seq(Frame) /\ Taken(s, r) \in Nat /\ Written(s, r) \in Nat
      /\ WireInv(s, r)
  BY CountTypes DEF CountsOK, TypeOK, ReqInv
<1>2. Rising(Tail(wire[s]), s, r)
  BY <1>1, TakeFirst DEF WireInv
<1>3. /\ Below(Tail(wire[s]), s, r, Written(s, r))
      /\ Number(s, r, Head(wire[s])) < Written(s, r)
  BY <1>1, TakeFirst DEF WireInv
<1>4. ASSUME Listening(s, r)
      PROVE  /\ Number(s, r, Head(wire[s])) = Taken(s, r)
             /\ Gapless(Tail(wire[s]), s, r, Taken(s, r) + 1)
             /\ up /\ Writing(s, r) =>
                  OnItsWay(Tail(wire[s]), s, r, Taken(s, r) + 1, Written(s, r))
  <2>1. Rising(wire[s], s, r) /\ Gapless(wire[s], s, r, Taken(s, r))
    BY <1>1, <1>4 DEF WireInv
  <2>2. /\ Number(s, r, Head(wire[s])) = Taken(s, r)
        /\ Gapless(Tail(wire[s]), s, r, Taken(s, r) + 1)
    BY <1>1, <2>1, TakeFirst
  <2>3. ASSUME up, Writing(s, r)
        PROVE  OnItsWay(Tail(wire[s]), s, r, Taken(s, r) + 1, Written(s, r))
    <3>1. OnItsWay(wire[s], s, r, Taken(s, r), Written(s, r))
      BY <1>1, <1>4, <2>3 DEF WireInv
    <3> QED BY <1>1, <2>2, <3>1, TakeFirst
  <2> QED BY <2>2, <2>3
<1> QED BY <1>2, <1>3, <1>4

\* Only what wires, queues and loops hold changes.
Untouched == UNCHANGED <<rpc, sent, delivered, apc, asent, got, streams, loop, shut, up>>

LEMMA UntouchedCounts ==
  ASSUME Untouched, NEW s \in Sides, NEW q \in Reqs
  PROVE  /\ Written(s, q)' = Written(s, q) /\ Writing(s, q)' = Writing(s, q)
         /\ Consumed(s, q)' = Consumed(s, q) /\ Reading(s, q)' = Reading(s, q)
         /\ Listening(s, q)' = Listening(s, q)
         /\ Unasked(q)' = Unasked(q) /\ Served(q)' = Served(q)
<1>1. Unasked(q)' = Unasked(q) /\ Served(q)' = Served(q)
  BY DEF Untouched, Unasked, Live, Served, Cancelling
<1>2. Written(s, q)' = Written(s, q) /\ Writing(s, q)' = Writing(s, q)
  BY <1>1 DEF Untouched, Written, Writing
<1>3. Consumed(s, q)' = Consumed(s, q)
  BY DEF Untouched, Consumed
<1>4. Reading(s, q)' = Reading(s, q)
  BY <1>1 DEF Untouched, Reading
<1>5. Listening(s, q)' = Listening(s, q)
  BY <1>1 DEF Untouched, Listening, Reading
<1> QED BY <1>1, <1>2, <1>3, <1>4, <1>5

\* The other end of the tunnel.
LEMMA OtherSide ==
  ASSUME TypeOK, TypeOK', Untouched, NEW s \in Sides, NEW r \in Reqs, ReqInv(r),
         wire'[s] = wire[s], queue'[s][r] = queue[s][r], put'[s] = put[s]
  PROVE  QueueInv(s, r)' /\ WireInv(s, r)' /\ Taken(s, r)' = Taken(s, r)
<1>1. /\ Written(s, r)' = Written(s, r) /\ Writing(s, r)' = Writing(s, r)
      /\ Consumed(s, r)' = Consumed(s, r) /\ Reading(s, r)' = Reading(s, r)
      /\ Listening(s, r)' = Listening(s, r)
  BY UntouchedCounts
<1>2. Written(s, r) <= Written(s, r)' /\ QueueInv(s, r) /\ WireInv(s, r)
  BY <1>1, CountTypes DEF CountsOK, ReqInv
<1>3. Taken(s, r)' = Taken(s, r)
  BY <1>1 DEF Taken
<1>4. QueueInv(s, r)'
  BY <1>1, <1>2, QuietQueue
<1>5. WireInv(s, r)'
  BY <1>1, <1>2, <1>3, QuietWire DEF Untouched, Unmoved
<1> QED BY <1>3, <1>4, <1>5

\* A frame of r goes into its queue, or waits for room in it.
LEMMA DataTaken ==
  ASSUME TypeOK, TypeOK', ResponseFrames, Untouched, NEW s \in Sides, NEW r \in Reqs, ReqInv(r),
         NEW f \in Frame, f.kind = "data", f.req = r, f.n \in 0..MaxFrame,
         wire[s] # <<>>, f = Head(wire[s]), wire'[s] = Tail(wire[s]), put[s] = NoFrame,
         Listening(s, r), r \in streams[s],
         \/ queue'[s][r] = Append(queue[s][r], f.n) /\ put'[s] = put[s]
         \/ queue'[s][r] = queue[s][r] /\ put'[s] = f
  PROVE  /\ QueueInv(s, r)' /\ WireInv(s, r)'
         /\ Taken(s, r)' = Taken(s, r) + 1 /\ Count(s, f.n) = Taken(s, r)
         /\ Taken(s, r) < Written(s, r)
<1>1. /\ Written(s, r)' = Written(s, r) /\ Writing(s, r)' = Writing(s, r)
      /\ Consumed(s, r)' = Consumed(s, r) /\ Reading(s, r)' = Reading(s, r)
      /\ Listening(s, r)' = Listening(s, r)
  BY UntouchedCounts
<1>2. /\ Written(s, r) \in Nat /\ Taken(s, r) \in Nat /\ Consumed(s, r) \in Nat
      /\ Len(queue[s][r]) \in Nat /\ queue[s][r] \in Seq(0..MaxFrame)
      /\ QueueInv(s, r) /\ NoFrame.req # r
  <2>1. NoFrame.req # r
    BY TunnelAssumption DEF NoFrame, Signal
  <2>2. queue[s][r] \in Seq(0..MaxFrame)
    BY DEF TypeOK
  <2> QED BY <2>1, <2>2, CountTypes DEF CountsOK, ReqInv
<1>3. Number(s, r, f) = Count(s, f.n) /\ Count(s, f.n) >= 0
  <2>1. MaxFrame \in Nat
    BY TunnelAssumption DEF MaxFrame
  <2> QED BY <2>1, TunnelAssumption DEF Number, Count
<1>4. /\ Count(s, f.n) = Taken(s, r) /\ Taken(s, r) < Written(s, r)
      /\ Rising(wire'[s], s, r) /\ Below(wire'[s], s, r, Written(s, r))
      /\ Gapless(wire'[s], s, r, Taken(s, r) + 1)
      /\ up /\ Writing(s, r) =>
            OnItsWay(wire'[s], s, r, Taken(s, r) + 1, Written(s, r))
  BY <1>3, TakenNext
<1>5. Taken(s, r) = Consumed(s, r) + Len(queue[s][r])
  BY <1>2 DEF Taken
<1>6. Reading(s, r)
  BY DEF Listening, Reading, Sides
<1>7. Taken(s, r)' = Taken(s, r) + 1 /\ QueueInv(s, r)'
  <2>1. CASE queue'[s][r] = Append(queue[s][r], f.n) /\ put'[s] = put[s]
    <3>a. Len(queue'[s][r]) = Len(queue[s][r]) + 1 /\ put'[s].req # r
      BY <1>2, <2>1, AppendProperties
    <3>b. Taken(s, r)' = Consumed(s, r)' + Len(queue'[s][r])
      <4>1. Consumed(s, r)' \in Nat /\ Len(queue'[s][r]) \in Nat
        BY <1>1, <1>2, <3>a
      <4> QED BY <3>a, <4>1 DEF Taken
    <3>2. Taken(s, r)' = Taken(s, r) + 1
      <4>1. /\ Consumed(s, r)' = Consumed(s, r)
            /\ Consumed(s, r) \in Nat /\ Len(queue[s][r]) \in Nat
        BY <1>1, <1>2
      <4>2. Taken(s, r)' = Consumed(s, r) + (Len(queue[s][r]) + 1)
        BY <3>a, <3>b, <4>1
      <4> QED BY <1>5, <4>1, <4>2
    <3> DEFINE w == queue[s][r]
               v == queue'[s][r]
    <3>1. /\ Len(v) = Len(w) + 1
          /\ \A i \in 1..Len(w) : v[i] = w[i]
          /\ v[Len(w) + 1] = f.n
      BY <1>2, <2>1, AppendProperties
    <3>3. \A i \in 1..Len(w) : Count(s, w[i]) = Consumed(s, r) + i - 1
      BY <1>2, <1>6 DEF QueueInv
    <3>4. Len(w) \in Nat /\ Taken(s, r) = Consumed(s, r) + Len(w) /\ put'[s].req # r
      BY <1>2, <1>5, <2>1
    <3> HIDE DEF v, w
    <3>5. \A i \in 1..Len(v) : Count(s, v[i]) = Consumed(s, r) + i - 1
      <4>1. \A i \in 1..Len(v) : i \in 1..Len(w) \/ i = Len(w) + 1
        BY <3>1, <3>4
      <4>2. Count(s, v[Len(w) + 1]) = Consumed(s, r) + (Len(w) + 1) - 1
        BY <1>2, <1>4, <3>1, <3>4
      <4> QED BY <3>1, <3>3, <4>1, <4>2
    <3>6. Taken(s, r)' <= Written(s, r)'
      BY <1>1, <1>2, <1>4, <3>2
    <3>7. QueueInv(s, r)'
      BY <1>1, <3>4, <3>5, <3>6 DEF QueueInv, Count, v
    <3> QED BY <3>2, <3>7
  <2>2. CASE queue'[s][r] = queue[s][r] /\ put'[s] = f
    <3>1. Taken(s, r)' = Taken(s, r) + 1
      BY <1>1, <1>2, <1>5, <2>2 DEF Taken
    <3>2. Taken(s, r)' <= Written(s, r)'
      BY <1>1, <1>2, <1>4, <3>1
    <3>3. \A i \in 1..Len(queue[s][r]) : Count(s, queue[s][r][i]) = Consumed(s, r) + i - 1
      BY <1>2, <1>6 DEF QueueInv
    <3>4. Count(s, put'[s].n) = Consumed(s, r) + Len(queue[s][r])
      BY <1>4, <1>5, <2>2
    <3>5. QueueInv(s, r)'
      BY <1>1, <2>2, <3>2, <3>3, <3>4 DEF QueueInv, Count
    <3> QED BY <3>1, <3>5
  <2> QED BY <2>1, <2>2
<1>8. WireInv(s, r)'
  BY <1>1, <1>4, <1>7 DEF WireInv, Rising, Below, Gapless, OnItsWay, Untouched
<1> QED BY <1>4, <1>7, <1>8

\* The visitor's part, when nothing of r changes at the relay.
LEMMA UntouchedVisitor ==
  ASSUME Untouched, NEW r \in Reqs, ReqInv(r),
         queue'["relay"][r] = queue["relay"][r], put'["relay"] = put["relay"],
         r \in ended'["relay"] <=> r \in ended["relay"]
  PROVE  VisitorInv(r)' /\ PutInv(r)'
<1>0. "relay" \in Sides
  BY DEF Sides
<1>1. /\ Consumed("relay", r)' = Consumed("relay", r)
      /\ Reading("relay", r)' = Reading("relay", r) /\ Served(r)' = Served(r)
  BY <1>0, UntouchedCounts
<1>2. Taken("relay", r)' = Taken("relay", r)
  BY <1>1 DEF Taken
<1>3. VisitorInv(r) /\ PutInv(r)
  BY DEF ReqInv
<1> QED BY <1>1, <1>2, <1>3 DEF VisitorInv, PutInv, Untouched

\* The handler's part, when the agent's queue is as it was or the request is
\* known to the agent.
LEMMA UntouchedHandler ==
  ASSUME TypeOK, Untouched, NEW r \in Reqs, ReqInv(r),
         \/ queue'["agent"][r] = queue["agent"][r] /\ put'["agent"] = put["agent"]
         \/ apc[r] # "none",
         \/ wire'["agent"] = wire["agent"]
         \/ wire["agent"] # <<>> /\ wire'["agent"] = Tail(wire["agent"])
  PROVE  HandlerInv(r)'
<1>0. "agent" \in Sides /\ NoFrame \in Frame /\ wire["agent"] \in Seq(Frame)
  BY FrameTypes DEF Sides, Frame, TypeOK
<1>1. HandlerInv(r) /\ Unasked(r)' = Unasked(r)
  BY <1>0, UntouchedCounts DEF ReqInv
<1>2. apc[r] # "none" => NoOpen(wire["agent"], r)'
  <2>1. \A i \in 1..Len(wire'["agent"]) : \E j \in 1..Len(wire["agent"]) :
            wire'["agent"][i] = wire["agent"][j]
    <3>1. CASE wire'["agent"] = wire["agent"]
      BY <3>1
    <3>2. CASE wire["agent"] # <<>> /\ wire'["agent"] = Tail(wire["agent"])
      <4>1. /\ Len(Tail(wire["agent"])) = Len(wire["agent"]) - 1 /\ Len(wire["agent"]) \in Nat
            /\ \A i \in 1..Len(Tail(wire["agent"])) : Tail(wire["agent"])[i] = wire["agent"][i + 1]
        BY <1>0, <3>2, HeadTailProperties
      <4>2. \A i \in 1..Len(Tail(wire["agent"])) : i + 1 \in 1..Len(wire["agent"])
        BY <4>1
      <4> QED BY <3>2, <4>1, <4>2
    <3> QED BY <3>1, <3>2
  <2> QED BY <1>1, <2>1 DEF HandlerInv, NoOpen
<1>3. apc' = apc /\ got' = got /\ asent' = asent /\ streams' = streams
  BY DEF Untouched
<1> QED BY <1>1, <1>2, <1>3 DEF HandlerInv

\* The frames the relay gets, when a receive loop takes one.
LEMMA ResponsesTaken ==
  ASSUME TypeOK, ResponseFrames, NEW s \in Sides, wire[s] # <<>>, wire'[s] = Tail(wire[s]),
         \A t \in Sides \ {s} : wire'[t] = wire[t]
  PROVE  ResponseFrames'
<1>1. /\ "relay" \in Sides /\ NoFrame \in Frame /\ wire["relay"] \in Seq(Frame)
      /\ NoFrame.kind = "pong"
  BY FrameTypes DEF Sides, Frame, TypeOK, NoFrame, Signal
<1>2. CASE s = "relay"
  <2>1. AtMost(Tail(wire["relay"]), wire["relay"], NoFrame)
    BY <1>1, <1>2, WireChanges
  <2>2. AtMost(wire'["relay"], wire["relay"], NoFrame)
    BY <1>2, <2>1
  <2> QED BY <1>1, <2>2, ResponsesKept
<1>3. CASE s # "relay"
  <2>1. AtMost(wire["relay"], wire["relay"], NoFrame)
    BY <1>1, WireChanges
  <2>2. wire'["relay"] = wire["relay"]
    BY <1>1, <1>3
  <2>3. AtMost(wire'["relay"], wire["relay"], NoFrame)
    BY <2>1, <2>2
  <2> QED BY <1>1, <2>3, ResponsesKept
<1> QED BY <1>2, <1>3

LEMMA ReceiveDataOrder ==
  ASSUME TypeOK, TypeOK', OrderInv, NEW s \in Sides, ReceiveData(s)
  PROVE  OrderInv'
<1> USE DEF net, ends, heart, visitors, handlers
<1>0. /\ queue \in [Sides -> [Reqs -> Seq(0..MaxFrame)]] /\ put \in [Sides -> StreamFrame \cup {NoFrame}]
      /\ wire \in [Sides -> Seq(Frame)] /\ NoFrame.req = NoReq /\ NoFrame \in Frame
      /\ "relay" \in Sides /\ "agent" \in Sides /\ ResponseFrames
  BY FrameTypes DEF TypeOK, Sides, NoFrame, Signal, OrderInv, Frame
<1>f. PICK f \in Frame : f = Head(wire[s])
  BY HeadTypes DEF ReceiveData
<1>r. PICK r \in Reqs : f.req = r
  BY <1>f, HeadTypes DEF ReceiveData
<1>1. f.kind = "data" /\ f.n \in 0..MaxFrame /\ wire[s] # <<>>
  BY <1>f, HeadTypes DEF ReceiveData
<1>2. Untouched /\ ended' = ended /\ put[s] = NoFrame
  BY DEF ReceiveData, Untouched, Incoming
<1>3. /\ wire'[s] = Tail(wire[s])
      /\ \A t \in Sides \ {s} : wire'[t] = wire[t]
  BY <1>0 DEF ReceiveData, Take
<1>4. \/ /\ r \in streams[s] /\ put' = put
         /\ queue' = [queue EXCEPT ![s][r] = Append(@, f.n)]
      \/ r \in streams[s] /\ put' = [put EXCEPT ![s] = f] /\ queue' = queue
      \/ r \notin streams[s] /\ put' = put /\ queue' = queue
  BY <1>f, <1>r DEF ReceiveData
<1>5. \A t \in Sides \ {s} : put'[t] = put[t]
  BY <1>0, <1>4
<1>6. \A t \in Sides, q \in Reqs : t # s \/ q # r => queue'[t][q] = queue[t][q]
  BY <1>0, <1>1, <1>4
<1>7. put'[s] \in {NoFrame, f}
  BY <1>0, <1>2, <1>4
<1>8. ReqInv(r)
  BY <1>1 DEF OrderInv
<1>9. ASSUME NEW q \in Reqs \ {r} PROVE ReqInv(q)'
  <2>1. \A t \in Sides : Unmoved(t, q)
    <3>1. Number(s, q, f) = -1
      BY <1>r, <1>9 DEF Number
    <3> QED BY <1>f, <1>1, <1>3, <3>1 DEF Unmoved
  <2>2. \A t \in Sides : put'[t].req = q \/ put[t].req = q => put'[t] = put[t]
    <3>1. put[s].req # q /\ put'[s].req # q
      BY <1>r, <1>0, <1>2, <1>7, <1>9, TunnelAssumption
    <3> QED BY <1>5, <3>1
  <2>3. Still(q)
    BY <1>2, <1>6, <1>9, <2>1, <2>2 DEF Still, Untouched
  <2> QED BY <1>9, <2>3, StillKept DEF OrderInv
<1>10. ReqInv(r)'
  <2>1. ASSUME NEW t \in Sides \ {s} PROVE QueueInv(t, r)' /\ WireInv(t, r)'
    BY <1>1, <1>2, <1>3, <1>5, <1>6, <1>8, <2>1, OtherSide
  <2>2. s = "agent" => VisitorInv(r)' /\ PutInv(r)'
    BY <1>0, <1>1, <1>2, <1>5, <1>6, <1>8, UntouchedVisitor
  <2>3. s = "relay" => HandlerInv(r)'
    BY <1>0, <1>1, <1>2, <1>3, <1>5, <1>6, <1>8, UntouchedHandler
  <2>4. /\ Number(s, r, f) = Count(s, f.n) /\ Count(s, f.n) >= 0
        /\ s = "agent" => Count(s, f.n) >= 1
        /\ s = "relay" => Count(s, f.n) = f.n
    <3>1. MaxFrame \in Nat
      BY TunnelAssumption DEF MaxFrame
    <3> QED BY <1>r, <1>1, <3>1, TunnelAssumption DEF Number, Count
  <2>5. CASE r \in streams[s] /\ Listening(s, r)
    <3>1. \/ queue'[s][r] = Append(queue[s][r], f.n) /\ put'[s] = put[s]
          \/ queue'[s][r] = queue[s][r] /\ put'[s] = f
      BY <1>0, <1>1, <1>4, <2>5
    <3>2. /\ QueueInv(s, r)' /\ WireInv(s, r)'
          /\ Taken(s, r)' = Taken(s, r) + 1 /\ Count(s, f.n) = Taken(s, r)
          /\ Taken(s, r) < Written(s, r)
      BY <1>f, <1>r, <1>0, <1>1, <1>2, <1>3, <1>8, <2>5, <3>1, DataTaken
    <3>3. CASE s = "agent"
      <4>1. apc[r] # "none"
        BY <1>8, <2>5, <3>3 DEF ReqInv, HandlerInv
      <4>2. HandlerInv(r)'
        BY <1>1, <1>2, <1>3, <1>8, <3>3, <4>1, UntouchedHandler
      <4> QED BY <2>1, <2>2, <3>2, <3>3, <4>2 DEF ReqInv, Sides
    <3>4. CASE s = "relay"
      <4>1. /\ Consumed("relay", r)' = Consumed("relay", r)
            /\ Reading("relay", r)' = Reading("relay", r) /\ Served(r)' = Served(r)
        BY <1>0, <1>1, <1>2, UntouchedCounts
      <4>2. VisitorInv(r) /\ Reading("relay", r)
        BY <1>8, <2>5, <3>4 DEF ReqInv, Listening
      <4>3. f.n <= RespLen /\ Taken("relay", r) <= RespLen /\ Taken("relay", r) \in Nat
        <5>1. f.n <= RespLen
          <6>1. Head(wire[s]) = wire[s][1] /\ 1 \in 1..Len(wire[s])
            BY <1>0, <1>1
          <6> QED BY <1>f, <1>0, <1>1, <3>4, <6>1 DEF ResponseFrames
        <5>2. Taken("relay", r) \in Nat
          BY <1>0, <1>1, CountTypes DEF CountsOK
        <5> QED BY <2>4, <3>2, <3>4, <5>1, <5>2
      <4>4. ~(r \in ended["relay"] /\ ~shut["relay"])
        <5>1. Consumed("relay", r) \in Nat /\ Len(queue["relay"][r]) \in Nat
          BY <1>0, <1>1, CountTypes DEF CountsOK
        <5>2. put["relay"].req # r
          BY <1>0, <1>1, <1>2, <3>4, TunnelAssumption
        <5>3. Taken("relay", r) = Consumed("relay", r) + Len(queue["relay"][r])
          BY <5>1, <5>2 DEF Taken
        <5> QED BY <4>2, <4>3, <5>1, <5>3, TunnelAssumption DEF VisitorInv
      <4>5. VisitorInv(r)'
        <5>1. Taken("relay", r)' <= RespLen + 1
          BY <3>2, <3>4, <4>3, TunnelAssumption
        <5> QED BY <1>2, <4>1, <4>2, <4>4, <5>1 DEF VisitorInv, Untouched
      <4>6. PutInv(r)'
        <5>1. ~Unasked(r)
          <6>1. Written("relay", r) # 0
            BY <3>2, <3>4, <4>3
          <6> QED BY <1>1, <1>8, <6>1, UnaskedUnanswered
        <5>2. Served(r)
          BY <4>2, <5>1 DEF Reading, Live, Served, Cancelling, Outcomes
        <5> QED BY <4>1, <5>2 DEF PutInv
      <4> QED BY <2>1, <2>3, <3>2, <3>4, <4>5, <4>6 DEF ReqInv, Sides
    <3> QED BY <3>3, <3>4 DEF Sides
  <2>6. CASE ~(r \in streams[s] /\ Listening(s, r))
    <3>1. ~Listening(s, r)
      <4>1. CASE s = "relay"
        BY <2>6, <4>1 DEF Listening
      <4>2. CASE s = "agent"
        <5>1. r \notin streams["agent"]
          BY <2>6, <4>2 DEF Listening
        <5>2. ASSUME Listening("agent", r) PROVE FALSE
          <6>1. apc[r] = "none"
            BY <5>1, <5>2 DEF Listening
          <6>2. Taken("agent", r) = 0
            BY <1>8, <6>1 DEF ReqInv, HandlerInv, Taken, Consumed
          <6>3. Number("agent", r, f) = Taken("agent", r)
            BY <1>f, <1>0, <1>1, <1>8, <2>4, <4>2, <5>2, TakenNext
          <6> QED BY <2>4, <4>2, <6>2, <6>3
        <5> QED BY <4>2, <5>2
      <4> QED BY <4>1, <4>2 DEF Sides
    <3>2. /\ Written(s, r)' = Written(s, r) /\ Writing(s, r)' = Writing(s, r)
          /\ Consumed(s, r)' = Consumed(s, r) /\ Reading(s, r)' = Reading(s, r)
          /\ Listening(s, r)' = Listening(s, r) /\ Served(r)' = Served(r)
      BY <1>1, <1>2, UntouchedCounts
    <3>3. WireInv(s, r)'
      <4>1. Rising(wire'[s], s, r) /\ Below(wire'[s], s, r, Written(s, r))
        BY <1>f, <1>1, <1>3, <1>8, <2>4, TakenNext
      <4> QED BY <3>1, <3>2, <4>1 DEF WireInv, Rising, Below
    <3>4. CASE r \notin streams[s]
      <4>1. queue' = queue /\ put' = put
        BY <1>4, <3>4
      <4>2. QueueInv(s, r)'
        <5>1. QueueInv(s, r) /\ Written(s, r) <= Written(s, r)'
          BY <1>1, <1>8, <3>2, CountTypes DEF ReqInv, CountsOK
        <5> QED BY <1>1, <3>2, <4>1, <5>1, QuietQueue
      <4>3. HandlerInv(r)'
        BY <1>0, <1>1, <1>2, <1>3, <1>8, <4>1, UntouchedHandler DEF Sides
      <4>4. VisitorInv(r)' /\ PutInv(r)'
        BY <1>1, <1>2, <1>8, <4>1, UntouchedVisitor
      <4> QED BY <2>1, <3>3, <4>2, <4>3, <4>4 DEF ReqInv
    <3>5. CASE r \in streams[s]
      <4>1. s = "relay" /\ ~Reading("relay", r)
        BY <3>1, <3>5 DEF Listening, Sides
      <4>2. QueueInv(s, r)'
        BY <3>2, <4>1 DEF QueueInv
      <4>3. rpc[r] \in Cancelling \cup {"left"} /\ VisitorInv(r)
        <5>1. VisitorInv(r)
          BY <1>8 DEF ReqInv
        <5>2. rpc[r] \in RelayPcs
          BY <1>1 DEF TypeOK
        <5> QED BY <3>5, <4>1, <5>1, <5>2 DEF VisitorInv, Reading, Unasked, Live, Served, Cancelling, RelayPcs
      <4>4. VisitorInv(r)'
        BY <1>2, <3>2, <4>1, <4>3 DEF VisitorInv, Untouched
      <4>5. PutInv(r)'
        BY <1>2, <4>3 DEF PutInv, Untouched
      <4> QED BY <2>1, <2>3, <3>3, <4>1, <4>2, <4>4, <4>5 DEF ReqInv
    <3> QED BY <3>4, <3>5
  <2> QED BY <2>5, <2>6
<1>11. ResponseFrames'
  BY <1>0, <1>1, <1>3, ResponsesTaken
<1> QED BY <1>9, <1>10, <1>11 DEF OrderInv


\* The frame the loop held is put into its queue.
LEMMA PutDoneOrder ==
  ASSUME TypeOK, TypeOK', OrderInv, NEW s \in Sides, PutDone(s)
  PROVE  OrderInv'
<1> USE DEF net, ends, heart, visitors, handlers
<1>0. /\ queue \in [Sides -> [Reqs -> Seq(0..MaxFrame)]] /\ put \in [Sides -> StreamFrame \cup {NoFrame}]
      /\ NoFrame.req = NoReq /\ "relay" \in Sides /\ "agent" \in Sides /\ ResponseFrames
  BY FrameTypes DEF TypeOK, Sides, NoFrame, Signal, OrderInv
<1>f. PICK f \in StreamFrame : f = put[s]
  BY <1>0 DEF PutDone
<1>r. PICK r \in Reqs : f.req = r
  BY DEF StreamFrame
<1>1. f.n \in 0..MaxFrame
  BY DEF StreamFrame
<1>2. Untouched /\ ended' = ended /\ wire' = wire
  BY DEF PutDone, Untouched
<1>3. /\ queue' = [queue EXCEPT ![s][r] = Append(@, f.n)]
      /\ put' = [put EXCEPT ![s] = NoFrame]
  BY <1>f, <1>r DEF PutDone
<1>4. /\ put'[s] = NoFrame /\ put'[s].req # r /\ put[s].req = r
      /\ \A t \in Sides \ {s} : put'[t] = put[t]
  BY <1>0, <1>3, <1>f, <1>r, TunnelAssumption
<1>5. /\ queue'[s][r] = Append(queue[s][r], f.n)
      /\ \A t \in Sides, q \in Reqs : t # s \/ q # r => queue'[t][q] = queue[t][q]
  BY <1>0, <1>1, <1>3
<1>6. ReqInv(r)
  BY DEF OrderInv
<1>7. ASSUME NEW q \in Reqs \ {r} PROVE ReqInv(q)'
  <2>1. \A t \in Sides : Unmoved(t, q)
    BY <1>2 DEF Unmoved
  <2>2. \A t \in Sides : put'[t].req = q \/ put[t].req = q => put'[t] = put[t]
    BY <1>0, <1>4, <1>7, TunnelAssumption
  <2>3. Still(q)
    BY <1>2, <1>5, <1>7, <2>1, <2>2 DEF Still, Untouched
  <2> QED BY <1>7, <2>3, StillKept DEF OrderInv
<1>8. ReqInv(r)'
  <2>1. ASSUME NEW t \in Sides \ {s} PROVE QueueInv(t, r)' /\ WireInv(t, r)'
    BY <1>2, <1>4, <1>5, <1>6, <2>1, OtherSide
  <2>2. s = "agent" => VisitorInv(r)' /\ PutInv(r)'
    BY <1>0, <1>2, <1>4, <1>5, <1>6, UntouchedVisitor
  <2>3. HandlerInv(r)'
    <3>1. s = "agent" => apc[r] # "none"
      BY <1>4, <1>6 DEF ReqInv, HandlerInv
    <3> QED BY <1>0, <1>2, <1>4, <1>5, <1>6, <3>1, UntouchedHandler
  <2>4. /\ Written(s, r)' = Written(s, r) /\ Writing(s, r)' = Writing(s, r)
        /\ Consumed(s, r)' = Consumed(s, r) /\ Reading(s, r)' = Reading(s, r)
        /\ Listening(s, r)' = Listening(s, r) /\ Served(r)' = Served(r)
    BY <1>2, UntouchedCounts
  <2>5. /\ Consumed(s, r) \in Nat /\ Len(queue[s][r]) \in Nat /\ Written(s, r) \in Nat
        /\ Len(queue'[s][r]) = Len(queue[s][r]) + 1
        /\ \A i \in 1..Len(queue[s][r]) : queue'[s][r][i] = queue[s][r][i]
        /\ queue'[s][r][Len(queue[s][r]) + 1] = f.n
    <3>1. queue[s][r] \in Seq(0..MaxFrame)
      BY <1>0
    <3>2. Consumed(s, r) \in Nat /\ Len(queue[s][r]) \in Nat /\ Written(s, r) \in Nat
      BY CountTypes DEF CountsOK
    <3> QED BY <1>1, <1>5, <3>1, <3>2, AppendProperties
  <2>6. Taken(s, r)' = Taken(s, r)
    <3>1. Taken(s, r) = Consumed(s, r) + Len(queue[s][r]) + 1
      BY <1>4 DEF Taken
    <3>2. Taken(s, r)' = Consumed(s, r)' + Len(queue'[s][r]) + 0
      BY <1>4 DEF Taken
    <3>3. Consumed(s, r)' = Consumed(s, r) /\ Len(queue'[s][r]) = Len(queue[s][r]) + 1
      BY <2>4, <2>5
    <3>4. Taken(s, r)' = Consumed(s, r) + (Len(queue[s][r]) + 1) + 0
      BY <3>2, <3>3
    <3>5. Consumed(s, r) \in Nat /\ Len(queue[s][r]) \in Nat
      BY <2>5
    <3> QED BY <3>1, <3>4, <3>5
  <2>7. QueueInv(s, r)'
    <3>1. ASSUME Reading(s, r)
          PROVE  \A i \in 1..Len(queue'[s][r]) : Count(s, queue'[s][r][i]) = Consumed(s, r) + i - 1
      <4>1. /\ \A i \in 1..Len(queue[s][r]) : Count(s, queue[s][r][i]) = Consumed(s, r) + i - 1
            /\ Count(s, f.n) = Consumed(s, r) + Len(queue[s][r])
        BY <1>4, <1>6, <1>f, <3>1 DEF ReqInv, QueueInv
      <4> DEFINE w == queue[s][r]
                 v == queue'[s][r]
      <4>2. \A i \in 1..Len(v) : i \in 1..Len(w) \/ i = Len(w) + 1
        BY <2>5
      <4>3. /\ \A i \in 1..Len(w) : v[i] = w[i]
            /\ v[Len(w) + 1] = f.n /\ Len(w) \in Nat
        BY <2>5
      <4> HIDE DEF v, w
      <4>4. Count(s, v[Len(w) + 1]) = Consumed(s, r) + (Len(w) + 1) - 1
        BY <2>5, <4>1, <4>3 DEF w
      <4>5. \A i \in 1..Len(w) : Count(s, v[i]) = Consumed(s, r) + i - 1
        BY <4>1, <4>3 DEF w
      <4>6. \A i \in 1..Len(v) : Count(s, v[i]) = Consumed(s, r) + i - 1
        BY <4>2, <4>4, <4>5
      <4> QED BY <4>6 DEF v
    <3>2. Reading(s, r) => Taken(s, r) <= Written(s, r)
      BY <1>6 DEF ReqInv, QueueInv
    <3> QED BY <1>4, <2>4, <2>6, <3>1, <3>2 DEF QueueInv, Count
  <2>8. WireInv(s, r)'
    <3>1. WireInv(s, r) /\ Written(s, r) <= Written(s, r)' /\ Unmoved(s, r)
      BY <1>2, <1>6, <2>4, <2>5 DEF ReqInv, Unmoved
    <3> QED BY <1>2, <2>4, <2>6, <3>1, QuietWire DEF Untouched
  <2>9. s = "relay" => VisitorInv(r)' /\ PutInv(r)'
    <3>1. VisitorInv(r)
      BY <1>6 DEF ReqInv
    <3>2. s = "relay" => ~(r \in ended["relay"] /\ ~shut["relay"] /\ Reading("relay", r))
      BY <1>4, <3>1 DEF VisitorInv
    <3>3. s = "relay" => VisitorInv(r)'
      BY <1>2, <2>4, <2>6, <3>1, <3>2 DEF VisitorInv, Untouched
    <3> QED BY <1>4, <3>3 DEF PutInv
  <2> QED BY <2>1, <2>2, <2>3, <2>7, <2>8, <2>9 DEF ReqInv, Sides
<1>9. ResponseFrames'
  BY <1>0, <1>2 DEF ResponseFrames
<1> QED BY <1>7, <1>8, <1>9 DEF OrderInv


\* CANCEL, at the agent: no frame that counts.
LEMMA AgentEndOrder ==
  ASSUME TypeOK, TypeOK', OrderInv, ReceiveEnd("agent")
  PROVE  OrderInv'
<1> USE DEF net, ends, heart, visitors, handlers
<1>0. /\ wire \in [Sides -> Seq(Frame)] /\ ended \in [Sides -> SUBSET Reqs]
      /\ "relay" \in Sides /\ "agent" \in Sides /\ ResponseFrames
  BY DEF TypeOK, Sides, OrderInv
<1>1. wire["agent"] # <<>> /\ Head(wire["agent"]).kind \in {"close", "cancel"}
  BY DEF ReceiveEnd, Incoming
<1>2. Untouched /\ queue' = queue /\ put' = put /\ ended'["relay"] = ended["relay"]
  BY <1>0 DEF ReceiveEnd, Untouched
<1>3. wire'["agent"] = Tail(wire["agent"]) /\ \A t \in Sides \ {"agent"} : wire'[t] = wire[t]
  BY <1>0 DEF ReceiveEnd, Take
<1>4. ASSUME NEW q \in Reqs PROVE ReqInv(q)'
  <2>1. Number("agent", q, Head(wire["agent"])) = -1
    BY <1>1 DEF Number
  <2>2. \A t \in Sides : Unmoved(t, q)
    BY <1>1, <1>3, <2>1 DEF Unmoved
  <2>3. Still(q)
    BY <1>2, <2>2 DEF Still, Untouched
  <2> QED BY <2>3, StillKept DEF OrderInv
<1>5. ResponseFrames'
  BY <1>0, <1>1, <1>3, ResponsesTaken
<1> QED BY <1>4, <1>5 DEF OrderInv

\* CLOSE, at the relay: the last frame of its request.
LEMMA RelayEndOrder ==
  ASSUME TypeOK, TypeOK', OrderInv, ReceiveEnd("relay")
  PROVE  OrderInv'
<1> USE DEF net, ends, heart, visitors, handlers
<1>0. /\ wire \in [Sides -> Seq(Frame)] /\ ended \in [Sides -> SUBSET Reqs]
      /\ "relay" \in Sides /\ "agent" \in Sides /\ ResponseFrames
      /\ put["relay"] = NoFrame /\ NoFrame.req = NoReq
      /\ Incoming("relay", {"close", "cancel"})
  BY DEF TypeOK, Sides, OrderInv, ReceiveEnd, Incoming, NoFrame, Signal
<1>f. PICK f \in Frame : f = Head(wire["relay"])
  BY <1>0, HeadTypes
<1>r. PICK r \in Reqs : f.req = r
  BY <1>0, <1>f, HeadTypes
<1>1. wire["relay"] # <<>> /\ f.kind = "close"
  <2>1. wire["relay"] # <<>> /\ f.kind \in {"close", "cancel"}
    BY <1>0, <1>f DEF Incoming
  <2>2. Head(wire["relay"]) = wire["relay"][1] /\ 1 \in 1..Len(wire["relay"])
    BY <1>0, <2>1
  <2> QED BY <1>0, <1>f, <2>1, <2>2 DEF ResponseFrames
<1>2. /\ Untouched /\ queue' = queue /\ put' = put
      /\ ended'["relay"] = ended["relay"] \cup ({r} \cap streams["relay"])
  BY <1>0, <1>f, <1>r DEF ReceiveEnd, Untouched
<1>3. wire'["relay"] = Tail(wire["relay"]) /\ \A t \in Sides \ {"relay"} : wire'[t] = wire[t]
  BY <1>0 DEF ReceiveEnd, Take
<1>4. ASSUME NEW q \in Reqs \ {r} PROVE ReqInv(q)'
  <2>1. Number("relay", q, Head(wire["relay"])) = -1
    BY <1>f, <1>r, <1>4 DEF Number
  <2>2. \A t \in Sides : Unmoved(t, q)
    BY <1>1, <1>3, <2>1 DEF Unmoved
  <2>3. Still(q)
    BY <1>2, <1>4, <2>2 DEF Still, Untouched
  <2> QED BY <1>4, <2>3, StillKept DEF OrderInv
<1>5. ReqInv(r)'
  <2>1. ReqInv(r)
    BY DEF OrderInv
  <2>2. QueueInv("agent", r)' /\ WireInv("agent", r)'
    <3>1. wire'["agent"] = wire["agent"]
      BY <1>0, <1>3
    <3> QED BY <1>0, <1>2, <2>1, <3>1, OtherSide
  <2>3. HandlerInv(r)'
    <3>1. wire'["agent"] = wire["agent"]
      BY <1>0, <1>3
    <3> QED BY <1>2, <2>1, <3>1, UntouchedHandler
  <2>4. /\ Written("relay", r)' = Written("relay", r) /\ Writing("relay", r)' = Writing("relay", r)
        /\ Consumed("relay", r)' = Consumed("relay", r) /\ Reading("relay", r)' = Reading("relay", r)
        /\ Listening("relay", r)' = Listening("relay", r) /\ Served(r)' = Served(r)
    BY <1>0, <1>2, UntouchedCounts
  <2>5. Taken("relay", r)' = Taken("relay", r)
    BY <1>2, <2>4 DEF Taken
  <2>6. Number("relay", r, f) = RespLen + 1
    BY <1>1, <1>r DEF Number
  <2>7. /\ Taken("relay", r) \in Nat /\ Written("relay", r) \in Nat
        /\ Consumed("relay", r) \in Nat /\ Len(queue["relay"][r]) \in Nat /\ asent[r] \in Nat
        /\ asent[r] <= RespLen + 1
    <3>1. asent[r] \in 0..(RespLen + 1)
      BY DEF TypeOK
    <3> QED BY <1>0, <3>1, CountTypes, TunnelAssumption DEF CountsOK
  <2>8. /\ Rising(wire'["relay"], "relay", r)
        /\ Below(wire'["relay"], "relay", r, Written("relay", r))
        /\ RespLen + 1 < Written("relay", r)
        /\ Listening("relay", r) =>
              /\ RespLen + 1 = Taken("relay", r)
              /\ Gapless(wire'["relay"], "relay", r, Taken("relay", r) + 1)
    BY <1>0, <1>1, <1>3, <1>f, <2>1, <2>6, TunnelAssumption, TakenNext
  <2>9. Written("relay", r) = RespLen + 2 /\ ~Writing("relay", r)
    BY <2>7, <2>8, TunnelAssumption DEF Written, Writing
  <2>10. QueueInv("relay", r)'
    <3>1. QueueInv("relay", r) /\ Written("relay", r) <= Written("relay", r)'
      BY <1>0, <2>1, <2>4, <2>7 DEF ReqInv
    <3> QED BY <1>0, <1>2, <2>4, <3>1, QuietQueue
  <2>11. WireInv("relay", r)'
    <3>1. Listening("relay", r) => Gapless(wire'["relay"], "relay", r, Taken("relay", r))
      <4> SUFFICES ASSUME Listening("relay", r)
                   PROVE  \A i \in 1..Len(wire'["relay"]) :
                              ~(Number("relay", r, wire'["relay"][i]) >= 0)
        BY DEF Gapless
      <4>1. wire'["relay"] \in Seq(Frame)
        BY <1>0 DEF TypeOK
      <4>2. \A i \in 1..Len(wire'["relay"]) : Number("relay", r, wire'["relay"][i]) \in Int
        BY <1>0, <4>1, WireNumbers
      <4>3. \A i \in 1..Len(wire'["relay"]) :
                /\ Number("relay", r, wire'["relay"][i]) < RespLen + 2
                /\ Number("relay", r, wire'["relay"][i]) >= 0
                      => RespLen + 2 <= Number("relay", r, wire'["relay"][i])
        <5>1. RespLen + 2 = Taken("relay", r) + 1
          BY <2>7, <2>8, TunnelAssumption
        <5> QED BY <2>8, <2>9, <5>1 DEF Gapless, Below
      <4>4. \A n \in Int : n < RespLen + 2 /\ (n >= 0 => RespLen + 2 <= n) => ~(n >= 0)
        BY TunnelAssumption
      <4> QED BY <4>2, <4>3, <4>4
    <3> QED BY <2>4, <2>5, <2>8, <2>9, <3>1 DEF WireInv, Rising, Below, Gapless
  <2>12. VisitorInv(r)'
    <3>1. VisitorInv(r) /\ put["relay"].req # r
      BY <1>0, <2>1, TunnelAssumption DEF ReqInv
    <3>2. r \notin ended["relay"] /\ r \in ended'["relay"] /\ Reading("relay", r) =>
              Consumed("relay", r) + Len(queue["relay"][r]) = RespLen + 1
      <4>1. r \notin ended["relay"] /\ r \in ended'["relay"] /\ Reading("relay", r)
                => Listening("relay", r)
        BY <1>2 DEF Listening
      <4>2. Taken("relay", r) = Consumed("relay", r) + Len(queue["relay"][r])
        BY <2>7, <3>1 DEF Taken
      <4> QED BY <2>8, <4>1, <4>2
    <3> QED BY <1>2, <2>4, <2>5, <3>1, <3>2 DEF VisitorInv, Untouched
  <2>13. PutInv(r)'
    BY <1>2, <2>1, <2>4 DEF ReqInv, PutInv, Untouched
  <2> QED BY <2>2, <2>3, <2>10, <2>11, <2>12, <2>13 DEF ReqInv, Sides
<1>6. ResponseFrames'
  BY <1>0, <1>1, <1>3, ResponsesTaken
<1> QED BY <1>4, <1>5, <1>6 DEF OrderInv


\* OPEN: the first frame of its request, which the agent does not know yet.
LEMMA ReceiveOpenOrder ==
  ASSUME TypeOK, TypeOK', OrderInv, ReceiveOpen
  PROVE  OrderInv'
<1> USE DEF net, ends, heart, visitors, handlers
<1>0. /\ wire \in [Sides -> Seq(Frame)] /\ streams \in [Sides -> SUBSET Reqs]
      /\ apc \in [Reqs -> AgentPcs] /\ loop \in [Sides -> {"run", "prompt", "drain", "gone"}]
      /\ "relay" \in Sides /\ "agent" \in Sides /\ ResponseFrames
      /\ Incoming("agent", {"open"})
  BY DEF TypeOK, Sides, OrderInv, ReceiveOpen
<1>f. PICK f \in Frame : f = Head(wire["agent"])
  BY <1>0, HeadTypes
<1>r. PICK r \in Reqs : f.req = r
  BY <1>0, <1>f, HeadTypes
<1>1. wire["agent"] # <<>> /\ f.kind = "open" /\ loop["agent"] = "run"
  BY <1>0, <1>f DEF Incoming
<1>2. /\ UNCHANGED <<up, queue, ended, put, shut, rpc, sent, delivered, asent, got>>
      /\ \/ /\ streams' = [streams EXCEPT !["agent"] = @ \cup {r}]
            /\ apc' = [apc EXCEPT ![r] = "spawned"] /\ loop' = loop
         \/ /\ loop' = [loop EXCEPT !["agent"] = "drain"]
            /\ streams' = streams /\ apc' = apc
  BY <1>f, <1>r DEF ReceiveOpen, OpenStream
<1>3. wire'["agent"] = Tail(wire["agent"]) /\ \A t \in Sides \ {"agent"} : wire'[t] = wire[t]
  BY <1>0 DEF ReceiveOpen, Take
<1>4. ASSUME NEW q \in Reqs \ {r} PROVE ReqInv(q)'
  <2>1. Number("agent", q, Head(wire["agent"])) = -1
    BY <1>f, <1>r, <1>4 DEF Number
  <2>2. \A t \in Sides : Unmoved(t, q)
    BY <1>1, <1>3, <2>1 DEF Unmoved
  <2>3. /\ apc'[q] = apc[q] /\ streams'["relay"] = streams["relay"]
        /\ \A t \in Sides : q \in streams'[t] => q \in streams[t]
        /\ loop'["agent"] \in {"run", "prompt"} => loop["agent"] \in {"run", "prompt"}
    BY <1>0, <1>1, <1>2, <1>4
  <2>4. Still(q)
    BY <1>2, <1>4, <2>2, <2>3 DEF Still
  <2> QED BY <1>4, <2>4, StillKept DEF OrderInv
<1>5. ReqInv(r)'
  <2>1. ReqInv(r) /\ HandlerInv(r) /\ VisitorInv(r) /\ PutInv(r)
    BY DEF OrderInv, ReqInv
  <2>2. Number("agent", r, f) = 0
    BY <1>1, <1>r DEF Number
  <2>3. apc[r] = "none" /\ r \notin streams["agent"] /\ Listening("agent", r)
    <3>1. Head(wire["agent"]) = wire["agent"][1] /\ 1 \in 1..Len(wire["agent"])
      BY <1>0, <1>1
    <3>2. ~NoOpen(wire["agent"], r)
      BY <1>f, <2>2, <3>1 DEF NoOpen
    <3>3. apc[r] = "none"
      BY <2>1, <3>2 DEF HandlerInv
    <3> QED BY <1>1, <2>1, <3>3 DEF HandlerInv, Listening
  <2>4. /\ got[r] = <<>> /\ queue["agent"][r] = <<>> /\ put["agent"].req # r /\ asent[r] = 0
    BY <2>1, <2>3 DEF HandlerInv
  <2>5. Taken("agent", r) = 0
    BY <2>3, <2>4 DEF Taken, Consumed
  <2>6. /\ apc'[r] # "done" /\ streams'["relay"] = streams["relay"]
    BY <1>0, <1>2, <2>3
  <2>7. Unasked(r)' = Unasked(r) /\ Served(r)' = Served(r)
    BY <1>2, <2>6 DEF Unasked, Live, Served, Cancelling
  <2>8. \A s \in Sides : Written(s, r)' = Written(s, r) /\ Writing(s, r)' = Writing(s, r)
    BY <1>2, <2>3, <2>6, <2>7 DEF Written, Writing, Sides
  <2>9. /\ Consumed("relay", r)' = Consumed("relay", r)
        /\ Reading("relay", r)' = Reading("relay", r)
        /\ Listening("relay", r)' = Listening("relay", r)
    BY <1>2, <2>6, <2>7 DEF Consumed, Reading, Listening
  <2>10. Taken("relay", r)' = Taken("relay", r)
    BY <1>2, <2>9 DEF Taken
  <2>11. QueueInv("relay", r)' /\ WireInv("relay", r)'
    <3>1. /\ QueueInv("relay", r) /\ WireInv("relay", r)
          /\ Written("relay", r) <= Written("relay", r)'
          /\ Writing("relay", r)' => Writing("relay", r) /\ Written("relay", r)' = Written("relay", r)
      BY <1>0, <2>1, <2>8, CountTypes DEF ReqInv, CountsOK
    <3>2. Unmoved("relay", r)
      BY <1>0, <1>3 DEF Unmoved
    <3>3. QueueInv("relay", r)'
      BY <1>0, <1>2, <2>9, <3>1, QuietQueue
    <3>4. WireInv("relay", r)'
      BY <1>0, <1>2, <2>9, <2>10, <3>1, <3>2, QuietWire
    <3> QED BY <3>3, <3>4
  <2>12. VisitorInv(r)' /\ PutInv(r)'
    BY <1>2, <2>1, <2>6, <2>7, <2>9, <2>10 DEF VisitorInv, PutInv
  <2>13. /\ Rising(wire'["agent"], "agent", r)
         /\ Below(wire'["agent"], "agent", r, Written("agent", r))
         /\ 0 < Written("agent", r) /\ Written("agent", r) \in Nat
         /\ Gapless(wire'["agent"], "agent", r, 1)
         /\ up /\ Writing("agent", r) =>
               OnItsWay(wire'["agent"], "agent", r, 1, Written("agent", r))
    <3>1. Written("agent", r) \in Nat
      BY <1>0, CountTypes DEF CountsOK
    <3>2. /\ Rising(Tail(wire["agent"]), "agent", r)
          /\ Below(Tail(wire["agent"]), "agent", r, Written("agent", r))
          /\ 0 < Written("agent", r)
          /\ Gapless(Tail(wire["agent"]), "agent", r, 0 + 1)
          /\ up /\ Writing("agent", r) =>
               OnItsWay(Tail(wire["agent"]), "agent", r, 0 + 1, Written("agent", r))
      BY <1>0, <1>1, <1>f, <2>1, <2>2, <2>3, <2>5, TakenNext
    <3> QED BY <1>3, <3>1, <3>2
  <2>14. CASE /\ streams' = [streams EXCEPT !["agent"] = @ \cup {r}]
              /\ apc' = [apc EXCEPT ![r] = "spawned"] /\ loop' = loop
    <3>1. apc'[r] = "spawned"
      BY <1>0, <2>14
    <3>2. /\ Consumed("agent", r)' = 1 /\ Taken("agent", r)' = 1
      <4>1. Consumed("agent", r)' = 1
        BY <1>2, <2>4, <3>1 DEF Consumed
      <4>2. Len(queue'["agent"][r]) = 0 /\ put'["agent"].req # r
        BY <1>2, <2>4
      <4> QED BY <4>1, <4>2 DEF Taken
    <3>3. QueueInv("agent", r)'
      <4>1. Taken("agent", r)' <= Written("agent", r)' /\ Len(queue'["agent"][r]) = 0
        BY <1>0, <1>2, <2>4, <2>8, <2>13, <3>2
      <4> QED BY <1>2, <2>4, <4>1 DEF QueueInv
    <3>4. WireInv("agent", r)'
      BY <1>0, <1>2, <2>8, <2>13, <3>2 DEF WireInv, Rising, Below, Gapless, OnItsWay
    <3>5. NoOpen(wire'["agent"], r)
      <4>1. \A i \in 1..Len(wire'["agent"]) :
                Number("agent", r, wire'["agent"][i]) >= 0
                    => 1 <= Number("agent", r, wire'["agent"][i])
        BY <2>13 DEF Gapless
      <4> QED BY <4>1 DEF NoOpen
    <3>6. HandlerInv(r)'
      BY <1>2, <2>1, <2>4, <3>1, <3>5 DEF HandlerInv, NoOpen
    <3> QED BY <2>11, <2>12, <3>3, <3>4, <3>6 DEF ReqInv, Sides
  <2>15. CASE /\ loop' = [loop EXCEPT !["agent"] = "drain"]
              /\ streams' = streams /\ apc' = apc
    <3>1. ~Listening("agent", r)'
      BY <1>0, <2>3, <2>15 DEF Listening
    <3>2. WireInv("agent", r)'
      BY <1>0, <2>8, <2>13, <3>1 DEF WireInv, Rising, Below
    <3>3. QueueInv("agent", r)'
      <4>1. Consumed("agent", r)' = Consumed("agent", r)
        BY <1>2, <2>15 DEF Consumed
      <4>2. QueueInv("agent", r) /\ Written("agent", r) <= Written("agent", r)' /\ Reading("agent", r)
        BY <1>0, <2>1, <2>8, <2>13 DEF ReqInv, Reading
      <4> QED BY <1>0, <1>2, <4>1, <4>2, QuietQueue
    <3>4. HandlerInv(r)'
      BY <1>2, <2>1, <2>3, <2>7, <2>15 DEF HandlerInv
    <3> QED BY <2>11, <2>12, <3>2, <3>3, <3>4 DEF ReqInv, Sides
  <2> QED BY <1>2, <2>14, <2>15
<1>6. ResponseFrames'
  BY <1>0, <1>1, <1>3, ResponsesTaken
<1> QED BY <1>4, <1>5, <1>6 DEF OrderInv


LEMMA OrderInit == Init => OrderInv
<1> SUFFICES ASSUME Init PROVE OrderInv
  OBVIOUS
<1>1. /\ wire["relay"] = <<>> /\ wire["agent"] \in {<<>>, <<Signal("expired", NoReq)>>}
      /\ \A s \in Sides : put[s] = NoFrame /\ streams[s] = {} /\ ended[s] = {}
      /\ \A s \in Sides, r \in Reqs : queue[s][r] = <<>>
      /\ \A r \in Reqs : /\ rpc[r] = "idle" /\ sent[r] = 0 /\ delivered[r] = <<>>
                         /\ apc[r] = "none" /\ asent[r] = 0 /\ got[r] = <<>>
  BY DEF Init, Sides
<1>2. NoFrame.req = NoReq /\ "relay" \in Sides /\ "agent" \in Sides
  BY DEF NoFrame, Signal, Sides
<1>3. \A s \in Sides, r \in Reqs : \A i \in 1..Len(wire[s]) : Number(s, r, wire[s][i]) = -1
  <2> SUFFICES ASSUME NEW s \in Sides, NEW r \in Reqs, NEW i \in 1..Len(wire[s])
               PROVE  Number(s, r, wire[s][i]) = -1
    OBVIOUS
  <2>1. wire[s][i] = Signal("expired", NoReq)
    <3>1. wire[s] # <<>>
      OBVIOUS
    <3>2. wire[s] = <<Signal("expired", NoReq)>>
      BY <1>1, <3>1 DEF Sides
    <3> QED BY <3>2
  <2> QED BY <2>1, TunnelAssumption DEF Number, Signal
<1>4. ASSUME NEW r \in Reqs PROVE ReqInv(r)
  <2>1. \A s \in Sides : Written(s, r) = 0 /\ Consumed(s, r) = 0 /\ Taken(s, r) = 0
    <3>1. \A s \in Sides : Written(s, r) = 0 /\ Consumed(s, r) = 0
      BY <1>1, TunnelAssumption DEF Written, Consumed
    <3>2. \A s \in Sides : put[s].req # r /\ Len(queue[s][r]) = 0
      BY <1>1, <1>2, TunnelAssumption
    <3> QED BY <3>1, <3>2 DEF Taken
  <2>2. ASSUME NEW s \in Sides PROVE QueueInv(s, r) /\ WireInv(s, r)
    <3>1. QueueInv(s, r)
      BY <1>1, <1>2, <2>1, TunnelAssumption DEF QueueInv
    <3>2. Rising(wire[s], s, r) /\ Gapless(wire[s], s, r, 0)
      BY <1>3 DEF Rising, Gapless
    <3>3. Below(wire[s], s, r, 0) /\ OnItsWay(wire[s], s, r, 0, 0)
      BY <1>3 DEF Below, OnItsWay
    <3> QED BY <2>1, <3>1, <3>2, <3>3 DEF WireInv
  <2>3. HandlerInv(r)
    BY <1>1, <1>2, TunnelAssumption DEF HandlerInv
  <2>4. VisitorInv(r)
    BY <1>1, <1>2, <2>1, TunnelAssumption DEF VisitorInv, Live, Served, Cancelling
  <2>5. PutInv(r)
    BY <1>1, <1>2, TunnelAssumption DEF PutInv
  <2> QED BY <2>2, <2>3, <2>4, <2>5 DEF ReqInv
<1>5. ResponseFrames
  BY <1>1 DEF ResponseFrames
<1> QED BY <1>4, <1>5 DEF OrderInv

LEMMA OrderStep == TypeOK /\ TypeOK' /\ OrderInv /\ [Next]_vars => OrderInv'
<1> SUFFICES ASSUME TypeOK, TypeOK', OrderInv, [Next]_vars PROVE OrderInv'
  OBVIOUS
<1>0. "relay" \in Sides /\ "agent" \in Sides
  BY DEF Sides
<1>1. ASSUME NEW r \in Reqs,
             \/ Request(r) \/ RelayStep(r) \/ Chunk(r)
             \/ AbortUpload(r) \/ LeftBeforeStart(r) \/ CancelOnDisconnect(r) \/ Dropped(r)
      PROVE  OrderInv'
  BY <1>1, VisitorOrder
<1>2. ASSUME NEW r \in Reqs, AgentStep(r) PROVE OrderInv'
  BY <1>2, AgentOrder
<1>3. ASSUME NEW s \in Sides, Receive(s) PROVE OrderInv'
  <2>1. CASE ReceiveData(s)
    BY <2>1, ReceiveDataOrder
  <2>2. CASE ReceiveEnd(s)
    BY <2>2, AgentEndOrder, RelayEndOrder DEF Sides
  <2>3. CASE ReceivePing(s)
    BY <2>3, PingOrder
  <2>4. CASE ReceivePong(s) \/ ReceiveExpired \/ ReceiveChoice \/ LoopEnds(s)
    BY <2>4, ControlOrder
  <2>5. CASE ReceiveOpen
    BY <2>5, ReceiveOpenOrder
  <2>6. CASE PutDone(s)
    BY <2>6, PutDoneOrder
  <2> QED BY <1>3, <2>1, <2>2, <2>3, <2>4, <2>5, <2>6 DEF Receive
<1>4. ASSUME NEW s \in Sides, Heartbeat(s) \/ Close(s) PROVE OrderInv'
  BY <1>4, ControlOrder
<1>5. CASE UserAnswers \/ Drained \/ SocketLost \/ UNCHANGED vars
  BY <1>0, <1>5, ControlOrder
<1> QED BY <1>1, <1>2, <1>3, <1>4, <1>5 DEF Next

LEMMA OrderHolds == Spec => []OrderInv
<1>1. OrderInv /\ TypeOK /\ TypeOK' /\ [Next]_vars => OrderInv'
  BY OrderStep
<1> QED BY <1>1, OrderInit, TypeCorrect, PTL DEF Spec

\* The local application only ever runs on a whole request body: the handler
\* goes on to the application only when it gets the sentinel, and then it has
\* every frame of the body, once and in order, however many frames of other
\* requests, teardowns and lost sockets came between.
THEOREM UploadsIntact == Spec => []UploadIntact
<1>1. TypeOK /\ OrderInv => UploadIntact
  <2> SUFFICES ASSUME TypeOK, OrderInv, NEW r \in Reqs, apc[r] = "respond"
               PROVE  got[r] = [n \in 1..BodyLen |-> n]
    BY DEF UploadIntact
  <2>1. got[r] \in Seq(0..MaxFrame)
    BY DEF TypeOK
  <2>2. Len(got[r]) = BodyLen /\ \A i \in 1..Len(got[r]) : got[r][i] = i
    BY DEF OrderInv, ReqInv, HandlerInv
  <2>3. got[r] = [n \in 1..Len(got[r]) |-> got[r][n]]
    BY <2>1
  <2> QED BY <2>2, <2>3
<1> QED BY <1>1, OrderHolds, TypeCorrect, PTL

\* The relay's receive loop waits only for a reader that is still there,
\* unless that request was given up with a CANCEL, its browser left or the
\* tunnel was torn down: whatever ends a request otherwise (an error, a failed
\* send, the end of its response) comes before a frame of its response could
\* fill the queue, because the agent has not been asked yet, or after the last
\* one was read.
THEOREM PutsHaveReaders == Spec => []PutHasReader
<1>1. TypeOK /\ OrderInv => PutHasReader
  <2> SUFFICES ASSUME TypeOK, OrderInv, put["relay"] # NoFrame
               PROVE  \/ Served(put["relay"].req) \/ Len(queue["relay"][put["relay"].req]) < Depth
                      \/ rpc[put["relay"].req] \in Cancelling \cup {"timeout", "left"} \/ shut["relay"]
    BY DEF PutHasReader
  <2>1. put["relay"] \in StreamFrame
    BY DEF TypeOK, Sides
  <2>2. put["relay"].req \in Reqs
    BY <2>1 DEF StreamFrame
  <2>3. PutInv(put["relay"].req)
    BY <2>2 DEF OrderInv, ReqInv
  <2> QED BY <2>3 DEF PutInv
<1> QED BY <1>1, OrderHolds, TypeCorrect, PTL


(***************************************************************************)
(* The tunnel implements HttpExchange.                                      *)
(***************************************************************************)
\* The phase of a request is that of the place where its proxy_request is.
PhaseOf(p) ==
    CASE p = "idle"     -> "idle"
      [] p \in {"stream", "leaving"} -> "streaming"
      [] p = "complete" -> "complete"
      [] p = "left"     -> "left"
      [] p \in Outcomes \ {"complete", "left"} -> "failed"
      [] OTHER          -> "waiting"

LEMMA PhasesOf ==
  /\ PhaseOf("idle") = "idle" /\ PhaseOf("stream") = "streaming"
  /\ PhaseOf("leaving") = "streaming" /\ PhaseOf("cancel") = "waiting"
  /\ PhaseOf("complete") = "complete" /\ PhaseOf("left") = "left"
  /\ PhaseOf("offline") = "failed" /\ PhaseOf("error") = "failed"
  /\ PhaseOf("rejected") = "failed" /\ PhaseOf("lost") = "failed" /\ PhaseOf("timeout") = "failed"
  /\ PhaseOf("opened") = "waiting" /\ PhaseOf("body") = "waiting" /\ PhaseOf("sent") = "waiting"
  /\ PhaseOf("first") = "waiting" /\ PhaseOf("head") = "waiting"
BY DEF PhaseOf, Outcomes

LEMMA PhaseMoves ==
  ASSUME TypeOK, NEW r \in Reqs, NEW p, Move(r, p)
  PROVE  /\ [q \in Reqs |-> Phase(q)][r] = PhaseOf(rpc[r])
         /\ [q \in Reqs |-> Phase(q)]' = [[q \in Reqs |-> Phase(q)] EXCEPT ![r] = PhaseOf(p)]
<1>1. \A q \in Reqs : Phase(q) = PhaseOf(rpc[q])
  BY DEF Phase, PhaseOf
<1>2. \A q \in Reqs : Phase(q)' = PhaseOf(rpc'[q])
  BY DEF Phase, PhaseOf
<1>3. rpc'[r] = p /\ \A q \in Reqs \ {r} : rpc'[q] = rpc[q]
  BY DEF Move, TypeOK
<1>4. \A q \in Reqs : Phase(q)' = IF q = r THEN PhaseOf(p) ELSE Phase(q)
  BY <1>1, <1>2, <1>3
<1> QED BY <1>1, <1>4

\* A step that moves request r and nothing else a browser notices.
LEMMA MoveImplements ==
  ASSUME TypeOK, NEW r \in Reqs, NEW p, Move(r, p), delivered' = delivered, shut' = shut,
         \/ PhaseOf(rpc[r]) = "idle" /\ PhaseOf(p) \in {"waiting", "failed"}
         \/ PhaseOf(rpc[r]) = "waiting" /\ PhaseOf(p) \in {"waiting", "failed", "streaming", "left"}
         \/ PhaseOf(rpc[r]) = "streaming" /\ PhaseOf(p) \in {"streaming", "left"}
         \/ /\ PhaseOf(rpc[r]) = "streaming" /\ PhaseOf(p) = "complete"
            /\ shut["relay"] \/ Len(delivered[r]) = RespLen
  PROVE  [Exchange!ENext]_(Exchange!exchange)
<1>1. /\ [q \in Reqs |-> Phase(q)][r] = PhaseOf(rpc[r])
      /\ [q \in Reqs |-> Phase(q)]' = [[q \in Reqs |-> Phase(q)] EXCEPT ![r] = PhaseOf(p)]
  BY PhaseMoves
<1>2. CASE PhaseOf(rpc[r]) = PhaseOf(p)
  <2>1. [q \in Reqs |-> Phase(q)]' = [q \in Reqs |-> Phase(q)]
    BY <1>1, <1>2
  <2> QED BY <2>1 DEF Exchange!exchange
<1>3. CASE PhaseOf(rpc[r]) # PhaseOf(p)
  <2>1. Exchange!Change(r)
    BY <1>1, <1>3 DEF Exchange!Change, Exchange!Enter
  <2> QED BY <2>1 DEF Exchange!ENext
<1> QED BY <1>2, <1>3

\* A step that no browser notices, unless it tears the relay's end down.
LEMMA QuietImplements ==
  ASSUME TypeOK, rpc' = rpc, delivered' = delivered,
         \/ shut'["relay"] = shut["relay"]
         \/ ~shut["relay"] /\ shut'["relay"] = TRUE
  PROVE  [Exchange!ENext]_(Exchange!exchange)
<1>1. [q \in Reqs |-> Phase(q)]' = [q \in Reqs |-> Phase(q)]
  BY DEF Phase
<1> QED BY <1>1 DEF Exchange!exchange, Exchange!ENext

LEMMA ShutOnce ==
  ASSUME TypeOK, NEW s \in Sides, TearDown(s)
  PROVE  \/ shut'["relay"] = shut["relay"]
         \/ ~shut["relay"] /\ shut'["relay"] = TRUE
BY DEF TearDown, TypeOK, Sides

\* A frame reaches the browser: the next one of its response.
LEMMA ChunkImplements ==
  ASSUME TypeOK, TypeOK', OrderInv, NEW r \in Reqs, Chunk(r)
  PROVE  [Exchange!ENext]_(Exchange!exchange)
<1>1. /\ rpc[r] = "stream" /\ queue["relay"][r] # <<>> /\ rpc' = rpc /\ shut' = shut
      /\ delivered' = [delivered EXCEPT ![r] = Append(@, Head(queue["relay"][r]))]
  BY DEF Chunk, Pop
<1>2. /\ Len(queue["relay"][r]) \in Nat /\ Len(queue["relay"][r]) >= 1
      /\ Head(queue["relay"][r]) = queue["relay"][r][1] /\ Len(delivered[r]) \in Nat
  <2>1. queue["relay"][r] \in Seq(0..MaxFrame) /\ delivered[r] \in Seq(0..MaxFrame)
    BY DEF TypeOK, Sides
  <2> QED BY <1>1, <2>1
<1>3. Consumed("relay", r) = 1 + Len(delivered[r]) /\ Reading("relay", r)
  BY <1>1 DEF Consumed, Reading
<1>4. queue["relay"][r][1] = 1 + Len(delivered[r])
  <2>1. QueueInv("relay", r)
    BY DEF OrderInv, ReqInv, Sides
  <2>2. Count("relay", queue["relay"][r][1]) = Consumed("relay", r) + 1 - 1
    BY <1>2, <1>3, <2>1 DEF QueueInv
  <2>3. Count("relay", queue["relay"][r][1]) = queue["relay"][r][1]
    BY DEF Count
  <2> QED BY <1>2, <1>3, <2>2, <2>3
<1>5. Len(delivered[r]) < RespLen
  <2>1. Taken("relay", r) <= RespLen + 1
    BY <1>3 DEF OrderInv, ReqInv, VisitorInv
  <2>2. Consumed("relay", r) + Len(queue["relay"][r]) <= Taken("relay", r)
    <3>1. Consumed("relay", r) \in Nat /\ Len(queue["relay"][r]) \in Nat
      BY <1>2, <1>3
    <3> QED BY <3>1 DEF Taken
  <2>3. Taken("relay", r) \in Nat
    BY CountTypes DEF CountsOK, Sides
  <2> QED BY <1>2, <1>3, <2>1, <2>2, <2>3, TunnelAssumption
<1>6. [q \in Reqs |-> Phase(q)]' = [q \in Reqs |-> Phase(q)]
  BY <1>1 DEF Phase
<1>7. [q \in Reqs |-> Phase(q)][r] = "streaming"
  <2>1. Phase(r) = PhaseOf(rpc[r])
    BY DEF Phase, PhaseOf
  <2> QED BY <1>1, <2>1, PhasesOf
<1>8. delivered' = [delivered EXCEPT ![r] = Append(@, Len(@) + 1)]
  <2>1. Head(queue["relay"][r]) = Len(delivered[r]) + 1
    BY <1>2, <1>4
  <2> QED BY <1>1, <2>1
<1>9. Exchange!Deliver(r)
  BY <1>5, <1>7, <1>8 DEF Exchange!Deliver
<1> QED BY <1>1, <1>6, <1>9 DEF Exchange!ENext

\* The response ends: it is complete, unless the tunnel was torn down.
LEMMA FinishImplements ==
  ASSUME TypeOK, OrderInv, NEW r \in Reqs, Finish(r)
  PROVE  [Exchange!ENext]_(Exchange!exchange)
<1>1. /\ rpc[r] = "stream" /\ queue["relay"][r] = <<>> /\ r \in ended["relay"]
      /\ Move(r, "complete") /\ delivered' = delivered /\ shut' = shut
  BY DEF Finish
<1>2. ASSUME ~shut["relay"] PROVE Len(delivered[r]) = RespLen
  <2>1. Consumed("relay", r) = 1 + Len(delivered[r]) /\ Reading("relay", r)
    BY <1>1 DEF Consumed, Reading
  <2>2. Consumed("relay", r) + Len(queue["relay"][r]) = RespLen + 1
    BY <1>1, <1>2, <2>1 DEF OrderInv, ReqInv, VisitorInv
  <2>3. Len(queue["relay"][r]) = 0 /\ Len(delivered[r]) \in Nat
    BY <1>1, CountTypes DEF CountsOK, Sides
  <2> QED BY <2>1, <2>2, <2>3, TunnelAssumption
<1> QED BY <1>1, <1>2, PhasesOf, MoveImplements

\* The other steps of proxy_request.
LEMMA VisitorImplements ==
  ASSUME TypeOK, NEW r \in Reqs,
         \/ Request(r) \/ SendOpen(r) \/ SendBody(r) \/ SendFails(r) \/ ReadStream(r)
         \/ FirstChunk(r) \/ FirstByteTimeout(r) \/ CancelSent(r) \/ StartStream(r)
         \/ AbortUpload(r) \/ LeftBeforeStart(r) \/ CancelOnDisconnect(r) \/ Dropped(r)
  PROVE  [Exchange!ENext]_(Exchange!exchange)
<1> USE DEF net, ends, heart, visitors, handlers
<1>1. delivered' = delivered /\ shut' = shut
  BY DEF Request, SendOpen, SendBody, SendFails, ReadStream, FirstChunk, FirstByteTimeout,
         CancelSent, StartStream, AbortUpload, LeftBeforeStart, CancelOnDisconnect, Dropped
<1>2. CASE rpc' = rpc
  BY <1>1, <1>2, QuietImplements
<1>3. CASE rpc' # rpc
  <2>1. CASE Request(r)
    <3>1. \E p \in {"offline", "error", "opened"} : rpc[r] = "idle" /\ Move(r, p)
      BY <2>1 DEF Request
    <3> QED BY <1>1, <3>1, PhasesOf, MoveImplements
  <2>2. CASE SendOpen(r) \/ SendBody(r) \/ SendFails(r)
    <3>1. \E p \in {"body", "rejected", "sent", "lost", "error"} :
              rpc[r] \in {"opened", "body"} /\ Move(r, p)
      BY <1>3, <2>2 DEF SendOpen, SendBody, SendFails
    <3> QED BY <1>1, <3>1, PhasesOf, MoveImplements
  <2>3. CASE ReadStream(r) \/ FirstChunk(r) \/ FirstByteTimeout(r) \/ StartStream(r)
    <3>1. \E p \in {"first", "error", "head", "cancel", "stream"} :
              rpc[r] \in {"sent", "first", "head"} /\ Move(r, p)
      BY <2>3 DEF ReadStream, FirstChunk, FirstByteTimeout, StartStream
    <3> QED BY <1>1, <3>1, PhasesOf, MoveImplements
  <2>4. CASE AbortUpload(r) \/ LeftBeforeStart(r) \/ Dropped(r)
    <3>1. rpc[r] \in {"body", "head", "stream", "leaving"} /\ Move(r, "left")
      BY <2>4 DEF AbortUpload, LeftBeforeStart, Dropped
    <3> QED BY <1>1, <3>1, PhasesOf, MoveImplements
  <2>5. CASE CancelOnDisconnect(r) \/ CancelSent(r)
    <3>1. \/ rpc[r] = "stream" /\ Move(r, "leaving")
          \/ rpc[r] = "cancel" /\ Move(r, "timeout")
          \/ rpc[r] = "leaving" /\ Move(r, "left")
      BY <2>5 DEF CancelOnDisconnect, CancelSent, Cancelling
    <3> QED BY <1>1, <3>1, PhasesOf, MoveImplements
  <2> QED BY <2>1, <2>2, <2>3, <2>4, <2>5
<1> QED BY <1>2, <1>3

\* The steps of the agent, the receive loops, the heartbeats and the network.
LEMMA TunnelImplements ==
  ASSUME TypeOK, NEW s \in Sides,
         \/ \E r \in Reqs : AgentStep(r)
         \/ Receive(s) \/ Heartbeat(s) \/ Close(s)
         \/ UserAnswers \/ Drained \/ SocketLost \/ UNCHANGED vars
  PROVE  [Exchange!ENext]_(Exchange!exchange)
<1> USE DEF net, ends, heart, visitors, handlers
<1>0. "agent" \in Sides
  BY DEF Sides
<1>1. CASE \/ \E r \in Reqs : AgentStep(r)
           \/ ReceiveData(s) \/ ReceiveEnd(s) \/ ReceivePong(s) \/ ReceiveOpen \/ ReceiveExpired
           \/ ReceiveChoice \/ PutDone(s) \/ Ping(s) \/ PongSeen(s)
           \/ UserAnswers \/ SocketLost \/ UNCHANGED vars
  <2>1. rpc' = rpc /\ delivered' = delivered /\ shut' = shut
    BY <1>1 DEF AgentStep, HandlerStart, BodyChunk, Respond, RespondFails, ReceiveData, ReceiveEnd,
                ReceivePong, ReceiveOpen, ReceiveExpired, ReceiveChoice, PutDone, Ping, PongSeen,
                UserAnswers, SocketLost, vars
  <2> QED BY <2>1, QuietImplements
<1>2. CASE ReceivePing(s) \/ LoopEnds(s) \/ Miss(s) \/ Close(s) \/ Drained
  <2>1. rpc' = rpc /\ delivered' = delivered
    BY <1>2 DEF ReceivePing, LoopEnds, Miss, Close, Drained
  <2>2. shut' = shut \/ TearDown(s) \/ TearDown("agent")
    BY <1>2 DEF ReceivePing, LoopEnds, EndLoop, Miss, Close, Drained
  <2> QED BY <1>0, <2>1, <2>2, ShutOnce, QuietImplements
<1> QED BY <1>1, <1>2 DEF Receive, Heartbeat

\* The tunnel implements HttpExchange: through two receive loops, bounded
\* queues, blocked puts, cancellations and teardowns a browser gets the frames
\* of its response in order, each once, and all of them unless the relay tore
\* its end of the tunnel down.
THEOREM TunnelImplementsExchange == Spec => ExchangeSpec
<1>1. Init => Exchange!EInit
  <2> SUFFICES ASSUME Init PROVE Exchange!EInit
    OBVIOUS
  <2>1. \A r \in Reqs : Phase(r) = "idle"
    <3>1. \A r \in Reqs : Phase(r) = PhaseOf(rpc[r])
      BY DEF Phase, PhaseOf
    <3> QED BY <3>1, PhasesOf DEF Init
  <2> QED BY <2>1 DEF Init, Exchange!EInit, Sides
<1>2. TypeOK /\ TypeOK' /\ OrderInv /\ [Next]_vars => [Exchange!ENext]_(Exchange!exchange)
  <2> SUFFICES ASSUME TypeOK, TypeOK', OrderInv, [Next]_vars
               PROVE  [Exchange!ENext]_(Exchange!exchange)
    OBVIOUS
  <2>0. "agent" \in Sides
    BY DEF Sides
  <2>1. ASSUME NEW r \in Reqs, Request(r) \/ RelayStep(r) \/ Chunk(r) \/ AbortUpload(r)
                               \/ LeftBeforeStart(r) \/ CancelOnDisconnect(r) \/ Dropped(r)
        PROVE  [Exchange!ENext]_(Exchange!exchange)
    BY <2>1, VisitorImplements, ChunkImplements, FinishImplements DEF RelayStep
  <2>2. ASSUME NEW s \in Sides, Receive(s) \/ Heartbeat(s) \/ Close(s)
        PROVE  [Exchange!ENext]_(Exchange!exchange)
    BY <2>2, TunnelImplements
  <2>3. CASE \/ \E r \in Reqs : AgentStep(r)
             \/ UserAnswers \/ Drained \/ SocketLost \/ UNCHANGED vars
    BY <2>0, <2>3, TunnelImplements
  <2> QED BY <2>1, <2>2, <2>3 DEF Next
<1> QED BY <1>1, <1>2, TypeCorrect, OrderHolds, PTL DEF Spec, ExchangeSpec, Exchange!ESpec
=============================================================================
