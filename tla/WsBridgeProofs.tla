---------------------------- MODULE WsBridgeProofs ----------------------------
(***************************************************************************)
(* Theorems about WsBridge, for any scripts of the two ends.                *)
(***************************************************************************)
EXTENDS WsBridge, SequenceTheorems, TLAPS

(***************************************************************************)
(* Type correctness.  A queue may hold messages and payloads: which of them *)
(* is a matter of the invariant below, not of the types.                    *)
(***************************************************************************)
Payload == [marker : {0, 1}, n : Nat, big : BOOLEAN]
Item == Message \cup Payload
Frame == [kind : {"open", "close"}] \cup [kind : {"data"}, payload : Item]
Places == {"idle", "dial", "connect", "run", "bye", "remove", "done"}
EndsType == said \in [Ends -> Seq(Item)] /\ heard \in [Ends -> Seq(Item)] /\ open \subseteq Ends
TasksType ==
    /\ alive \in [Bridges -> SUBSET Ways]
    /\ box \in [Bridges -> [Ways -> Seq(Item)]] /\ hold \in [Bridges -> [Ways -> Seq(Item)]]
    /\ fin \in [Bridges -> [Ways -> BOOLEAN]]
TunnelType == up \in BOOLEAN /\ wire \in [Sides -> Seq(Frame)] /\ reg \subseteq Sides
TypeInv == start \in Starts /\ pc \in [Bridges -> Places] /\ EndsType /\ TasksType /\ TunnelType

LEMMA Coding ==
  /\ \A m \in Message : Decode(Encode(m)) = m
  /\ \A m \in Item : Encode(m) \in Payload /\ Decode(m) \in Message
<1>1. \A m \in Item : m.n \in Nat /\ m.big \in BOOLEAN
  BY DEF Item, Message, Payload
<1>2. \A m \in Item : Encode(m) \in Payload /\ Decode(m) \in Message
  BY <1>1 DEF Encode, Decode, Payload, Message, Kinds
<1>3. ASSUME NEW m \in Message PROVE Decode(Encode(m)) = m
  <2>1. m = [kind |-> m.kind, n |-> m.n, big |-> m.big] /\ m.kind \in {"text", "bytes"}
    BY DEF Message, Kinds
  <2>2. Decode(Encode(m)) = [kind |-> m.kind, n |-> m.n, big |-> m.big]
    BY <2>1 DEF Encode, Decode
  <2> QED BY <2>1, <2>2
<1> QED BY <1>2, <1>3

LEMMA Names ==
  /\ Ends = {"browser", "app"} /\ Ways = {"down", "up"} /\ Sides = {"relay", "agent"}
  /\ Bridges = {"relay", "agent", "local"} /\ Sides \subseteq Bridges
  /\ \A e \in Ends : Entry(e) \in Bridges /\ Way(e) \in Ways
  /\ \A d \in Ways : FarEnd(d) \in Ends
  /\ \A s \in Sides : Other(s) \in Sides
  /\ \A b \in Bridges : Reader(b) \in Ways
BY DEF Ends, Ways, Sides, Bridges, Entry, Way, FarEnd, Other, Reader

LEMMA FrameTypes ==
  /\ \A m \in Item : [kind |-> "data", payload |-> m] \in Frame
  /\ [kind |-> "open"] \in Frame /\ [kind |-> "close"] \in Frame
  /\ \A f \in Frame : f.kind = "data" => f.payload \in Item
<1>1. \A f \in [kind : {"open", "close"}] : f.kind # "data"
  OBVIOUS
<1> QED BY <1>1 DEF Frame

\* What the steps do to queues and wires, as types.
LEMMA SeqTypes ==
  ASSUME NEW T, NEW q \in Seq(T), NEW x \in T
  PROVE  /\ Append(q, x) \in Seq(T) /\ <<x>> \in Seq(T) /\ <<>> \in Seq(T)
         /\ q # <<>> => Head(q) \in T /\ Tail(q) \in Seq(T)
BY AppendProperties, HeadTailProperties, EmptySeq

LEMMA QueueType ==
  ASSUME NEW T, NEW f \in [Bridges -> [Ways -> T]], NEW b \in Bridges, NEW d \in Ways, NEW q \in T
  PROVE  [f EXCEPT ![b][d] = q] \in [Bridges -> [Ways -> T]]
OBVIOUS

LEMMA SendType ==
  ASSUME TunnelType, NEW s \in Sides, NEW f \in Frame, Send(s, f)
  PROVE  wire' \in [Sides -> Seq(Frame)]
<1>1. Append(wire[s], f) \in Seq(Frame)
  BY SeqTypes DEF TunnelType
<1> QED BY <1>1 DEF Send, TunnelType

LEMMA TakeType ==
  ASSUME TunnelType, NEW s \in Sides, NEW k, Take(s, k)
  PROVE  wire' \in [Sides -> Seq(Frame)] /\ Head(wire[s]) \in Frame
<1>1. Tail(wire[s]) \in Seq(Frame) /\ Head(wire[s]) \in Frame
  BY HeadTailProperties DEF TunnelType, Take
<1> QED BY <1>1 DEF Take, TunnelType

LEMMA SayTypes ==
  ASSUME TypeInv, NEW e \in Ends, Say(e) \/ Leave(e)
  PROVE  TypeInv'
<1>1. CASE Say(e)
  <2>1. Len(said[e]) \in Nat /\ Script[e] \in Seq(Message) /\ Len(said[e]) + 1 \in 1..Len(Script[e])
    <3>1. Script[e] \in Seq(Message) /\ said[e] \in Seq(Item) /\ Len(said[e]) < Len(Script[e])
      BY <1>1, BridgeAssumption DEF Say, TypeInv, EndsType
    <3>2. Len(said[e]) \in Nat /\ Len(Script[e]) \in Nat
      BY <3>1
    <3> QED BY <3>1, <3>2
  <2>2. Script[e][Len(said[e]) + 1] \in Item
    BY <2>1, ElementOfSeq DEF Item
  <2>3. Append(said[e], Script[e][Len(said[e]) + 1]) \in Seq(Item)
    BY <2>2, SeqTypes DEF TypeInv, EndsType
  <2>4. said' \in [Ends -> Seq(Item)]
    BY <1>1, <2>3 DEF Say, TypeInv, EndsType
  <2>5. Append(box[Entry(e)][Way(e)], Script[e][Len(said[e]) + 1]) \in Seq(Item)
    BY <2>2, SeqTypes, Names DEF TypeInv, TasksType
  <2>6. box' \in [Bridges -> [Ways -> Seq(Item)]]
    <3>1. box' = [box EXCEPT ![Entry(e)][Way(e)] =
                     Append(box[Entry(e)][Way(e)], Script[e][Len(said[e]) + 1])]
      BY <1>1, Names DEF Say, TypeInv, TasksType
    <3> QED BY <3>1, <2>5, QueueType, Names DEF TypeInv, TasksType
  <2> QED BY <1>1, <2>4, <2>6 DEF Say, EndStep, tunnel, TypeInv, EndsType, TasksType, TunnelType
<1>2. CASE Leave(e)
  <2>1. fin' \in [Bridges -> [Ways -> BOOLEAN]]
    BY <1>2, Names DEF Leave, TypeInv, TasksType
  <2> QED BY <1>2, <2>1 DEF Leave, CloseEnd, EndStep, tunnel, TypeInv, EndsType, TasksType, TunnelType
<1> QED BY <1>1, <1>2

LEMMA TunnelTypes ==
  ASSUME TypeInv, OnWsOpen \/ Lose \/ \E s \in Sides : SideNext(s)
  PROVE  TypeInv'
<1> USE DEF TypeInv
<1>1. CASE OnWsOpen
  <2>1. wire' \in [Sides -> Seq(Frame)]
    BY <1>1, TakeType, Names DEF OnWsOpen
  <2>2. pc' \in [Bridges -> Places] /\ reg' \subseteq Sides
    BY <1>1, Names DEF OnWsOpen, Goto, Places, TunnelType
  <2> QED BY <1>1, <2>1, <2>2 DEF OnWsOpen, TunnelStep, ends, EndsType, TasksType, TunnelType
<1>2. CASE Lose
  <2>1. wire' \in [Sides -> Seq(Frame)]
    BY <1>2 DEF Lose
  <2> QED BY <1>2, <2>1 DEF Lose, ends, tasks, EndsType, TasksType, TunnelType
<1>3. ASSUME NEW s \in Sides, OnData(s) PROVE TypeInv'
  <2>1. wire' \in [Sides -> Seq(Frame)] /\ Head(wire[s]) \in Frame /\ Head(wire[s]).kind = "data"
    BY <1>3, TakeType DEF OnData, Take
  <2>2. Append(box[s][Reader(s)], Head(wire[s]).payload) \in Seq(Item)
    BY <2>1, FrameTypes, SeqTypes, Names DEF TasksType
  <2>3. box' \in [Bridges -> [Ways -> Seq(Item)]]
    BY <1>3, <2>2, QueueType, Names DEF OnData, TasksType
  <2> QED BY <1>3, <2>1, <2>3 DEF OnData, TunnelStep, ends, EndsType, TasksType, TunnelType
<1>4. ASSUME NEW s \in Sides, OnClose(s) \/ TearDown(s) PROVE TypeInv'
  <2>1. wire' \in [Sides -> Seq(Frame)]
    BY <1>4, TakeType DEF OnClose, TearDown, TunnelType
  <2>2. fin' \in [Bridges -> [Ways -> BOOLEAN]]
    <3>1. fin' = fin \/ fin' = [fin EXCEPT ![s][Reader(s)] = TRUE]
      BY <1>4 DEF OnClose, TearDown
    <3>2. s \in Bridges /\ Reader(s) \in Ways /\ fin \in [Bridges -> [Ways -> BOOLEAN]]
      BY Names DEF TasksType
    <3>3. [fin EXCEPT ![s][Reader(s)] = TRUE] \in [Bridges -> [Ways -> BOOLEAN]]
      BY <3>2, QueueType
    <3> QED BY <3>1, <3>2, <3>3
  <2> QED BY <1>4, <2>1, <2>2 DEF OnClose, TearDown, TunnelStep, ends, EndsType, TasksType, TunnelType
<1> QED BY <1>1, <1>2, <1>3, <1>4 DEF SideNext, Arrive

LEMMA StartTypes ==
  ASSUME TypeInv, NEW b \in Bridges, Visit \/ Dial \/ Connect(b)
  PROVE  TypeInv'
<1> USE DEF TypeInv
<1>0. pc \in [Bridges -> Places] /\ alive \in [Bridges -> SUBSET Ways] /\ open \subseteq Ends
  BY DEF TasksType, EndsType
<1>1. pc' \in [Bridges -> Places]
  BY <1>0, Names DEF Visit, Dial, Connect, Goto, StartTasks, Places
<1>2. alive' \in [Bridges -> SUBSET Ways]
  BY <1>0, Names DEF Visit, Dial, Connect, Goto, StartTasks
<1>3. open' \subseteq Ends /\ reg' \subseteq Sides
  BY <1>0, Names DEF Visit, Dial, Connect, CloseEnd, TunnelType
<1>4. wire' \in [Sides -> Seq(Frame)]
  BY SendType, FrameTypes, Names DEF Visit, Dial, Connect, TunnelType
<1> QED BY <1>1, <1>2, <1>3, <1>4 DEF Visit, Dial, Connect, StartStep, EndsType, TasksType, TunnelType

LEMMA EndingTypes ==
  ASSUME TypeInv, NEW b \in Bridges, Cancel(b) \/ RemoveStream(b) \/ (b \in Sides /\ Bye(b))
  PROVE  TypeInv'
<1> USE DEF TypeInv
<1>1. /\ pc' \in [Bridges -> Places] /\ alive' \in [Bridges -> SUBSET Ways] /\ open' \subseteq Ends
      /\ reg' \subseteq Sides
  BY Names DEF Cancel, RemoveStream, Bye, Goto, Places, TasksType, EndsType, TunnelType
<1>2. wire' \in [Sides -> Seq(Frame)]
  BY SendType, FrameTypes, Names DEF Cancel, RemoveStream, Bye, TunnelType
<1>3. hold' \in [Bridges -> [Ways -> Seq(Item)]]
  <2>1. hold \in [Bridges -> [Ways -> Seq(Item)]] /\ [x \in Ways |-> <<>>] \in [Ways -> Seq(Item)]
    BY DEF TasksType
  <2>2. hold' = hold \/ hold' = [hold EXCEPT ![b] = [x \in Ways |-> <<>>]]
    BY DEF Cancel, RemoveStream, Bye
  <2> QED BY <2>1, <2>2
<1> QED BY <1>1, <1>2, <1>3 DEF Cancel, RemoveStream, Bye, EndingStep, EndsType, TasksType, TunnelType

LEMMA TaskTypes ==
  ASSUME TypeInv, NEW b \in Bridges, NEW d \in Ways,
         Receive(b, d) \/ Finish(b, d) \/ Forward(b, d) \/ Raise(b, d)
  PROVE  TypeInv'
<1> USE DEF TypeInv
<1>1. box[b][d] \in Seq(Item) /\ hold[b][d] \in Seq(Item)
  BY DEF TasksType
<1>2. alive' \in [Bridges -> SUBSET Ways] /\ reg' \subseteq Sides
  BY DEF Receive, Finish, Forward, Raise, TasksType, TunnelType
<1>3. box' \in [Bridges -> [Ways -> Seq(Item)]]
  <2>1. box[b][d] # <<>> => Tail(box[b][d]) \in Seq(Item)
    BY <1>1, HeadTailProperties
  <2>2. box' = box \/ (box[b][d] # <<>> /\ box' = [box EXCEPT ![b][d] = Tail(box[b][d])])
    BY DEF Receive, Finish, Forward, Raise, TasksType
  <2>3. box[b][d] # <<>> => [box EXCEPT ![b][d] = Tail(box[b][d])] \in [Bridges -> [Ways -> Seq(Item)]]
    BY <2>1, QueueType DEF TasksType
  <2> QED BY <2>2, <2>3 DEF TasksType
<1>4. hold' \in [Bridges -> [Ways -> Seq(Item)]]
  <2>1. box[b][d] # <<>> => <<Head(box[b][d])>> \in Seq(Item)
    BY <1>1, HeadTailProperties
  <2>2. <<>> \in Seq(Item)
    OBVIOUS
  <2>3. \/ hold' = hold \/ hold' = [hold EXCEPT ![b][d] = <<>>]
        \/ box[b][d] # <<>> /\ hold' = [hold EXCEPT ![b][d] = <<Head(box[b][d])>>]
    BY DEF Receive, Finish, Forward, Raise
  <2>4. /\ [hold EXCEPT ![b][d] = <<>>] \in [Bridges -> [Ways -> Seq(Item)]]
        /\ box[b][d] # <<>> =>
             [hold EXCEPT ![b][d] = <<Head(box[b][d])>>] \in [Bridges -> [Ways -> Seq(Item)]]
    BY <2>1, <2>2, QueueType DEF TasksType
  <2> QED BY <2>3, <2>4 DEF TasksType
<1>5. ASSUME Forward(b, d)
      PROVE  heard' \in [Ends -> Seq(Item)] /\ wire' \in [Sides -> Seq(Frame)]
  <2>1. Held(b, d) \in Item
    BY <1>1, <1>5 DEF Forward, Held
  <2>2. Encode(Held(b, d)) \in Item /\ ToEnd(b, d) \in Item
    BY <2>1, Coding DEF Item, ToEnd
  <2>3. Append(heard[FarEnd(d)], ToEnd(b, d)) \in Seq(Item)
    BY <2>2, SeqTypes, Names DEF EndsType
  <2>4. heard' \in [Ends -> Seq(Item)]
    BY <1>5, <2>3 DEF Forward, EndsType
  <2>5. ToTunnel(b, d) => Other(b) \in Sides
    BY Names DEF ToTunnel
  <2> QED BY <1>5, <2>2, <2>4, <2>5, SendType, FrameTypes DEF Forward, TunnelType
<1>6. heard' \in [Ends -> Seq(Item)] /\ wire' \in [Sides -> Seq(Frame)]
  BY <1>5 DEF Receive, Finish, Raise, EndsType, TunnelType
<1> QED BY <1>2, <1>3, <1>4, <1>6
        DEF Receive, Finish, Forward, Raise, TaskStep, EndsType, TasksType, TunnelType

-----------------------------------------------------------------------------
(***************************************************************************)
(* Where the bridges can be, and what their order says of the wires: WS_OPEN*)
(* comes first, and while it is on its way nothing else of the agent is;    *)
(* WS_CLOSE comes last, from a bridge that is leaving.                      *)
(***************************************************************************)
PlaceInv ==
    /\ pc["relay"] # "connect" /\ pc["agent"] # "dial" /\ pc["local"] \notin {"dial", "bye"}
    /\ IF start.local THEN pc["relay"] = "idle" /\ pc["agent"] = "idle" ELSE pc["local"] = "idle"
TaskInv ==
    \A b \in Bridges : /\ alive[b] # {} => pc[b] = "run"
                       /\ \A d \in Ways : d \notin alive[b] => hold[b][d] = <<>>
OrderInv ==
    /\ pc["relay"] \in {"idle", "dial"} => pc["agent"] = "idle" /\ \A s \in Sides : wire[s] = <<>>
    /\ pc["agent"] = "idle" => wire["relay"] = <<>>
    /\ pc["agent"] = "idle" /\ wire["agent"] # <<>> => wire["agent"][1].kind = "open"
    /\ up /\ pc["agent"] = "idle" /\ pc["relay"] \in {"run", "bye"} => wire["agent"] # <<>>
Leaving(s) == IF s = "relay" THEN pc["relay"] \in {"remove", "done"} ELSE pc["agent"] = "done"
WireInv(s) ==
    \A i \in 1..Len(wire[s]) :
        /\ wire[s][i].kind = "open" => i = 1 /\ s = "agent" /\ pc["agent"] = "idle"
        /\ wire[s][i].kind = "close" => i = Len(wire[s]) /\ Leaving(Other(s))
WiresInv == \A s \in Sides : WireInv(s)
StateInv == TypeInv /\ PlaceInv /\ TaskInv /\ OrderInv /\ WiresInv

LEMMA TypeStep ==
  ASSUME TypeInv, PlaceInv, Next
  PROVE  TypeInv'
<1>1. ASSUME NEW b \in Bridges, Bye(b) PROVE b \in Sides
  BY <1>1, Names DEF Bye, PlaceInv
<1> QED BY <1>1, SayTypes, TunnelTypes, StartTypes, EndingTypes, TaskTypes, Names DEF Next, BridgeNext

\* What a step does to the places of the bridges, to their tasks and to the wires.
Quiet == UNCHANGED <<start, pc>>
Step == Quiet \/ OnWsOpen \/ Visit \/ Dial \/ \E b \in Bridges : Connect(b) \/ Cancel(b) \/ RemoveStream(b) \/ Bye(b)
LEMMA StepKinds == Next => Step
BY DEF Next, BridgeNext, SideNext, Arrive, Say, Leave, EndStep, Lose, OnData, OnClose, TearDown, TunnelStep,
       Receive, Finish, Forward, Raise, TaskStep, Quiet, Step

LEMMA SameStart == Next => start' = start
<1>1. OnWsOpen \/ Visit \/ Dial => start' = start
  BY DEF OnWsOpen, TunnelStep, Visit, Dial, StartStep
<1>2. \A b \in Bridges : Connect(b) \/ Cancel(b) \/ RemoveStream(b) \/ Bye(b) => start' = start
  BY DEF Connect, StartStep, Cancel, RemoveStream, Bye, EndingStep
<1> QED BY <1>1, <1>2, StepKinds DEF Step, Quiet

\* WS_OPEN finds the agent's bridge idle and nothing on the other wire.
LEMMA OpenFirst ==
  ASSUME StateInv, OnWsOpen
  PROVE  /\ pc["agent"] = "idle" /\ pc["relay"] \notin {"idle", "dial"} /\ ~start.local
         /\ wire["agent"] # <<>> /\ wire["relay"] = <<>>
<1>1. wire["agent"] \in Seq(Frame) /\ wire["agent"] # <<>> /\ wire["agent"][1].kind = "open"
  BY Names DEF StateInv, TypeInv, TunnelType, OnWsOpen, Take
<1>2. 1 \in 1..Len(wire["agent"])
  BY <1>1
<1>3. pc["agent"] = "idle"
  BY <1>1, <1>2, Names DEF StateInv, WiresInv, WireInv
<1> QED BY <1>1, <1>3, Names DEF StateInv, OrderInv, PlaceInv

LEMMA PlaceStep ==
  ASSUME StateInv, Next
  PROVE  PlaceInv'
<1>1. start' = start /\ start.local \in BOOLEAN
  BY SameStart, BridgeAssumption DEF StateInv, TypeInv
<1>2. pc \in [Bridges -> Places] /\ PlaceInv
  BY DEF StateInv, TypeInv
<1>3. CASE Quiet
  BY <1>3, <1>2 DEF Quiet, PlaceInv
<1>4. CASE OnWsOpen
  BY <1>1, <1>2, <1>4, OpenFirst, Names DEF OnWsOpen, Goto, PlaceInv
<1>5. CASE Visit
  BY <1>1, <1>2, <1>5, Names DEF Visit, Goto, Entry, PlaceInv
<1>6. CASE Dial
  BY <1>1, <1>2, <1>6, Names DEF Dial, StartTasks, Goto, PlaceInv
<1>7. ASSUME NEW b \in Bridges, Connect(b) PROVE PlaceInv'
  BY <1>1, <1>2, <1>7, Names DEF Connect, StartTasks, Goto, PlaceInv
<1>8. ASSUME NEW b \in Bridges, Cancel(b) \/ RemoveStream(b) \/ Bye(b) PROVE PlaceInv'
  BY <1>1, <1>2, <1>8, Names DEF Cancel, RemoveStream, Bye, Goto, PlaceInv
<1> QED BY <1>3, <1>4, <1>5, <1>6, <1>7, <1>8, StepKinds DEF Step

LEMMA TaskStepInv ==
  ASSUME StateInv, Next
  PROVE  TaskInv'
<1>1. /\ pc \in [Bridges -> Places] /\ alive \in [Bridges -> SUBSET Ways]
      /\ hold \in [Bridges -> [Ways -> Seq(Item)]] /\ TaskInv /\ PlaceInv
  BY DEF StateInv, TypeInv, TasksType
<1>2. CASE UNCHANGED <<pc, alive, hold>>
  BY <1>1, <1>2 DEF TaskInv
<1>3. CASE OnWsOpen
  BY <1>1, <1>3, OpenFirst, Names DEF OnWsOpen, Goto, TunnelStep, TaskInv
<1>4. CASE Visit \/ Dial
  BY <1>1, <1>4, Names DEF Visit, Dial, StartTasks, Goto, StartStep, TaskInv, Entry
<1>5. ASSUME NEW b \in Bridges, Connect(b) PROVE TaskInv'
  BY <1>1, <1>5, Names DEF Connect, StartTasks, Goto, StartStep, TaskInv
<1>6. ASSUME NEW b \in Bridges, Cancel(b) PROVE TaskInv'
  BY <1>1, <1>6, Names DEF Cancel, Goto, TaskInv
<1>7. ASSUME NEW b \in Bridges, RemoveStream(b) \/ Bye(b) PROVE TaskInv'
  BY <1>1, <1>7, Names DEF RemoveStream, Bye, Goto, TaskInv
<1>8. ASSUME NEW b \in Bridges, NEW d \in Ways,
             Receive(b, d) \/ Finish(b, d) \/ Forward(b, d) \/ Raise(b, d)
      PROVE  TaskInv'
  <2>1. /\ pc' = pc /\ d \in alive[b] /\ (alive' = alive \/ alive' = [alive EXCEPT ![b] = @ \ {d}])
        /\ alive' # alive => hold'[b][d] = <<>>
        /\ \A x \in Bridges, y \in Ways : x # b \/ y # d => hold'[x][y] = hold[x][y]
    BY <1>1, <1>8 DEF Receive, Finish, Forward, Raise, TaskStep
  <2>2. pc[b] = "run"
    BY <1>1, <2>1 DEF TaskInv
  <2>3. \A x \in Bridges : alive'[x] # {} => pc'[x] = "run"
    BY <1>1, <2>1, <2>2 DEF TaskInv
  <2>4. ASSUME NEW x \in Bridges, NEW y \in Ways, y \notin alive'[x] PROVE hold'[x][y] = <<>>
    <3>1. CASE y \notin alive[x]
      <4>1. x # b \/ y # d
        BY <2>1, <3>1
      <4>2. hold'[x][y] = hold[x][y]
        BY <2>1, <4>1
      <4> QED BY <1>1, <3>1, <4>2 DEF TaskInv
    <3>2. CASE y \in alive[x]
      BY <1>1, <2>1, <2>4, <3>2
    <3> QED BY <3>1, <3>2
  <2> QED BY <2>3, <2>4 DEF TaskInv
<1> QED BY <1>2, <1>3, <1>4, <1>5, <1>6, <1>7, <1>8
        DEF Next, BridgeNext, SideNext, Arrive, Say, Leave, EndStep, Lose, tasks, OnData, OnClose, TearDown, TunnelStep

Arrives(s) == wire[s] # <<>> /\ Head(wire[s]).kind # "open" /\ wire' = [wire EXCEPT ![s] = Tail(@)] /\ UNCHANGED pc
\* What can happen to the wires in a step: a frame is sent, one arrives, all are lost.
LEMMA WireMoves ==
  ASSUME StateInv, Next
  PROVE  \/ UNCHANGED wire /\ (Dial => ~up \/ pc'["relay"] = "done")
         \/ Lose \/ OnWsOpen
         \/ \E s \in Sides : Arrives(s)
         \/ \E s \in Sides, m \in Item :
              /\ up /\ alive[Other(s)] # {} /\ wire' = [wire EXCEPT ![s] = Append(@, [kind |-> "data", payload |-> m])]
              /\ UNCHANGED pc
         \/ Dial /\ pc'["relay"] = "run" /\ wire' = [wire EXCEPT !["agent"] = Append(@, [kind |-> "open"])]
         \/ \E s \in Sides : /\ up /\ Bye(Other(s))
                             /\ wire' = [wire EXCEPT ![s] = Append(@, [kind |-> "close"])]
<1> DEFINE Goal == \/ UNCHANGED wire /\ (Dial => ~up \/ pc'["relay"] = "done")
                   \/ Lose \/ OnWsOpen
                   \/ \E s \in Sides : Arrives(s)
                   \/ \E s \in Sides, m \in Item :
                        /\ up /\ alive[Other(s)] # {}
                        /\ wire' = [wire EXCEPT ![s] = Append(@, [kind |-> "data", payload |-> m])]
                        /\ UNCHANGED pc
                   \/ Dial /\ pc'["relay"] = "run" /\ wire' = [wire EXCEPT !["agent"] = Append(@, [kind |-> "open"])]
                   \/ \E s \in Sides : /\ up /\ Bye(Other(s))
                                       /\ wire' = [wire EXCEPT ![s] = Append(@, [kind |-> "close"])]
<1> SUFFICES Goal
  OBVIOUS
<1>5. Dial => (UNCHANGED wire /\ (~up \/ pc'["relay"] = "done")) \/ (pc'["relay"] = "run" /\ wire' = [wire EXCEPT !["agent"] = Append(@, [kind |-> "open"])])
  BY Names DEF Dial, Send, StartTasks, Goto, StateInv, TypeInv
<1> HIDE DEF Goal
<1>0. ASSUME UNCHANGED wire PROVE Goal
  BY <1>5, <1>0 DEF Goal
<1>1. \A e \in Ends : Say(e) \/ Leave(e) => UNCHANGED wire
  BY DEF Say, Leave, EndStep, tunnel
<1>2. \A s \in Sides : OnData(s) \/ OnClose(s) => Arrives(s)
  BY DEF OnData, OnClose, Take, Arrives
<1>3. \A s \in Sides : TearDown(s) => UNCHANGED wire
  BY DEF TearDown
<1>4. Visit \/ (\E b \in Bridges : Connect(b) \/ Cancel(b) \/ RemoveStream(b)) => UNCHANGED wire
  BY DEF Visit, Connect, Cancel, RemoveStream
<1>6. ASSUME NEW b \in Bridges, Bye(b)
      PROVE  UNCHANGED wire \/ \E s \in Sides : /\ up /\ Bye(Other(s))
                                                /\ wire' = [wire EXCEPT ![s] = Append(@, [kind |-> "close"])]
  <2>1. b \in Sides /\ Other(b) \in Sides /\ Other(Other(b)) = b
    BY <1>6, Names DEF Bye, StateInv, PlaceInv, Other
  <2> QED BY <1>6, <2>1 DEF Bye, Send
<1>7. ASSUME NEW b \in Bridges, NEW d \in Ways, Receive(b, d) \/ Finish(b, d) \/ Raise(b, d)
      PROVE  UNCHANGED wire
  BY <1>7 DEF Receive, Finish, Raise
<1>8. ASSUME NEW b \in Bridges, NEW d \in Ways, Forward(b, d) PROVE Goal
  <2>1. CASE ~ToTunnel(b, d)
    BY <1>0, <1>8, <2>1 DEF Forward
  <2>2. CASE ToTunnel(b, d)
    <3>1. Other(b) \in Sides /\ Other(Other(b)) = b
      BY <2>2, Names DEF ToTunnel, Other
    <3>2. hold[b][d] \in Seq(Item) /\ hold[b][d] # <<>>
      BY <1>8 DEF Forward, StateInv, TypeInv, TasksType
    <3>3. Encode(Held(b, d)) \in Item
      BY <3>2, Coding DEF Held, Item
    <3>4. pc' = pc /\ alive[b] # {}
      BY <1>8 DEF Forward, TaskStep
    <3>5. UNCHANGED wire \/ (up /\ wire' = [wire EXCEPT ![Other(b)] =
                                              Append(@, [kind |-> "data", payload |-> Encode(Held(b, d))])])
      BY <1>8, <2>2 DEF Forward, Send
    <3>6. CASE UNCHANGED wire
      BY <1>0, <3>6
    <3> QED BY <3>1, <3>3, <3>4, <3>5, <3>6 DEF Goal
  <2> QED BY <2>1, <2>2
<1>9. ASSUME NEW b \in Bridges, BridgeNext(b) PROVE Goal
  BY <1>0, <1>4, <1>6, <1>7, <1>8, <1>9 DEF BridgeNext, Goal
<1>10. (\E s \in Sides : SideNext(s)) => Goal
  BY <1>0, <1>2, <1>3 DEF SideNext, Arrive, Goal
<1> QED BY <1>0, <1>1, <1>2, <1>4, <1>5, <1>9, <1>10 DEF Next, Goal

\* How the places of the two sides move.
LEMMA PlaceMoves ==
  ASSUME StateInv, Next
  PROVE  /\ pc'["relay"] \in {"run", "bye"} => pc["relay"] \in {"run", "bye"} \/ Dial
         /\ pc'["relay"] \in {"idle", "dial"} => pc["relay"] \in {"idle", "dial"}
         /\ pc'["agent"] # pc["agent"] /\ pc["agent"] = "idle" => OnWsOpen
         /\ pc'["agent"] = "idle" => pc["agent"] = "idle"
         /\ \A s \in Sides : Leaving(s) => Leaving(s)'
<1>1. pc \in [Bridges -> Places] /\ PlaceInv /\ start.local \in BOOLEAN
  BY BridgeAssumption DEF StateInv, TypeInv
<1>2. CASE Quiet
  BY <1>2 DEF Quiet, Leaving
<1>3. CASE OnWsOpen
  BY <1>1, <1>3, OpenFirst, Names DEF OnWsOpen, Goto, Leaving
<1>4. CASE Visit \/ Dial
  BY <1>1, <1>4, Names DEF Visit, Dial, StartTasks, Goto, Leaving, Entry
<1>5. ASSUME NEW b \in Bridges, Connect(b) \/ Cancel(b)
      PROVE  /\ pc'["relay"] \in {"run", "bye"} => pc["relay"] \in {"run", "bye"}
             /\ pc'["relay"] \in {"idle", "dial"} => pc["relay"] \in {"idle", "dial"}
             /\ pc'["agent"] # pc["agent"] => pc["agent"] # "idle"
             /\ pc'["agent"] = "idle" => pc["agent"] = "idle"
             /\ \A s \in Sides : Leaving(s) => Leaving(s)'
  BY <1>1, <1>5, Names DEF Connect, Cancel, StartTasks, Goto, Leaving, PlaceInv
<1>6. ASSUME NEW b \in Bridges, RemoveStream(b) \/ Bye(b)
      PROVE  /\ pc'["relay"] \in {"run", "bye"} => pc["relay"] \in {"run", "bye"}
             /\ pc'["relay"] \in {"idle", "dial"} => pc["relay"] \in {"idle", "dial"}
             /\ pc'["agent"] # pc["agent"] => pc["agent"] # "idle"
             /\ pc'["agent"] = "idle" => pc["agent"] = "idle"
             /\ \A s \in Sides : Leaving(s) => Leaving(s)'
  BY <1>1, <1>6, Names DEF RemoveStream, Bye, Goto, Leaving, PlaceInv
<1> QED BY <1>2, <1>3, <1>4, <1>5, <1>6, StepKinds DEF Step

LEMMA ArrivalOrder ==
  ASSUME StateInv, NEW s \in Sides, wire[s] # <<>>, wire' = [wire EXCEPT ![s] = Tail(@)],
         pc["agent"] # "idle" \/ pc'["agent"] # "idle",
         pc'["relay"] \notin {"idle", "dial"}, pc'["agent"] = "idle" => pc["agent"] = "idle",
         \A q \in Sides : Leaving(q) => Leaving(q)'
  PROVE  OrderInv' /\ WiresInv'
<1>1. wire \in [Sides -> Seq(Frame)] /\ wire[s] \in Seq(Frame) /\ OrderInv /\ WiresInv
  BY DEF StateInv, TypeInv, TunnelType
<1>2. /\ wire'[s] = Tail(wire[s]) /\ \A q \in Sides : q # s => wire'[q] = wire[q]
      /\ Len(wire'[s]) = Len(wire[s]) - 1 /\ Len(wire[s]) \in Nat \ {0}
      /\ \A i \in 1..Len(wire'[s]) : wire'[s][i] = wire[s][i + 1]
  BY <1>1, HeadTailProperties
<1>3. OrderInv'
  BY DEF OrderInv
<1>4. ASSUME NEW q \in Sides PROVE WireInv(q)'
  <2>0. Other(q) \in Sides
    BY Names
  <2>1. CASE q # s
    <3>1. q = "agent" /\ pc["agent"] = "idle" => wire["relay"] = <<>>
      BY <1>1 DEF OrderInv
    <3>2. q = "agent" => s = "relay"
      BY <2>1, Names
    <3>3. wire'[q] = wire[q] /\ WireInv(q)
      BY <1>1, <1>2, <2>1 DEF WiresInv
    <3> QED BY <2>0, <3>1, <3>2, <3>3 DEF WireInv
  <2>2. CASE q = s
    <3>1. WireInv(s)
      BY <1>1 DEF WiresInv
    <3> SUFFICES ASSUME NEW i \in 1..Len(wire'[s])
                 PROVE  /\ wire'[s][i].kind # "open"
                        /\ wire'[s][i].kind = "close" => i = Len(wire'[s]) /\ Leaving(Other(s))'
      BY <2>2 DEF WireInv
    <3>2. i + 1 \in 1..Len(wire[s]) /\ i + 1 # 1 /\ wire'[s][i] = wire[s][i + 1]
      BY <1>2
    <3>3. /\ wire[s][i + 1].kind # "open"
          /\ wire[s][i + 1].kind = "close" => i + 1 = Len(wire[s]) /\ Leaving(Other(s))
      BY <3>1, <3>2 DEF WireInv
    <3> QED BY <1>2, <2>0, <2>2, <3>2, <3>3
  <2> QED BY <2>1, <2>2
<1> QED BY <1>3, <1>4 DEF WiresInv

LEMMA SendOrder ==
  ASSUME StateInv, NEW s \in Sides, NEW f, f \in Frame, wire' = [wire EXCEPT ![s] = Append(@, f)],
         f.kind = "open" => wire[s] = <<>> /\ s = "agent" /\ pc'["agent"] = "idle",
         f.kind = "close" => Leaving(Other(s))',
         pc'["relay"] \notin {"idle", "dial"},
         pc["agent"] = "idle" => s = "agent" /\ pc'["agent"] = "idle",
         pc'["agent"] = "idle" => pc["agent"] = "idle",
         wire[s] = <<>> /\ pc'["agent"] = "idle" => f.kind = "open",
         ~Leaving(Other(s)),
         \A q \in Sides : Leaving(q) => Leaving(q)'
  PROVE  OrderInv' /\ WiresInv'
<1>1. wire \in [Sides -> Seq(Frame)] /\ wire[s] \in Seq(Frame) /\ OrderInv /\ WiresInv
  BY DEF StateInv, TypeInv, TunnelType
<1>2. /\ wire'[s] = Append(wire[s], f) /\ \A q \in Sides : q # s => wire'[q] = wire[q]
      /\ Len(wire'[s]) = Len(wire[s]) + 1 /\ Len(wire[s]) \in Nat
      /\ \A i \in 1..Len(wire[s]) : wire'[s][i] = wire[s][i]
      /\ wire'[s][Len(wire[s]) + 1] = f
  BY <1>1, AppendProperties
<1>3. OrderInv'
  <2>1. pc'["agent"] = "idle" => wire'["relay"] = <<>>
    BY <1>1, <1>2, Names DEF OrderInv
  <2>2. pc'["agent"] = "idle" => wire'["agent"][1].kind = "open"
    <3> SUFFICES ASSUME pc'["agent"] = "idle" PROVE wire'["agent"][1].kind = "open"
      OBVIOUS
    <3>1. s = "agent" /\ pc["agent"] = "idle"
      OBVIOUS
    <3>2. CASE wire[s] = <<>>
      BY <1>2, <3>1, <3>2
    <3>3. CASE wire[s] # <<>>
      <4>1. 1 \in 1..Len(wire[s])
        BY <1>1, <3>3
      <4> QED BY <1>1, <1>2, <3>1, <3>3, <4>1 DEF OrderInv
    <3> QED BY <3>2, <3>3
  <2>3. wire'[s] # <<>>
    BY <1>1, <1>2
  <2> QED BY <2>1, <2>2, <2>3 DEF OrderInv
<1>4. ASSUME NEW q \in Sides PROVE WireInv(q)'
  <2>0. Other(q) \in Sides
    BY Names
  <2>1. CASE q # s
    <3>1. wire'[q] = wire[q] /\ WireInv(q)
      BY <1>1, <1>2, <2>1 DEF WiresInv
    <3>2. pc["agent"] = "idle" => pc'["agent"] = "idle"
      OBVIOUS
    <3> QED BY <2>0, <3>1, <3>2 DEF WireInv
  <2>2. CASE q = s
    <3>1. WireInv(s)
      BY <1>1 DEF WiresInv
    <3> SUFFICES ASSUME NEW i \in 1..Len(wire'[s])
                 PROVE  /\ wire'[s][i].kind = "open" => i = 1 /\ s = "agent" /\ pc'["agent"] = "idle"
                        /\ wire'[s][i].kind = "close" => i = Len(wire'[s]) /\ Leaving(Other(s))'
      BY <2>2 DEF WireInv
    <3>2. CASE i \in 1..Len(wire[s])
      <4>1. wire'[s][i] = wire[s][i]
        BY <1>2, <3>2
      <4> QED BY <3>1, <3>2, <4>1, <1>2 DEF WireInv
    <3>3. CASE i = Len(wire[s]) + 1
      <4>1. wire[s] = <<>> => Len(wire[s]) = 0
        BY <1>1
      <4> QED BY <1>2, <3>3, <4>1
    <3> QED BY <1>2, <3>2, <3>3
  <2> QED BY <2>1, <2>2
<1> QED BY <1>3, <1>4 DEF WiresInv

LEMMA UpFalls == Next => (up' => up)
<1>1. \A e \in Ends : Say(e) \/ Leave(e) => up' = up
  BY DEF Say, Leave, EndStep, tunnel
<1>2. OnWsOpen \/ Lose \/ (\E s \in Sides : SideNext(s)) => (up' => up)
  BY DEF OnWsOpen, Lose, SideNext, Arrive, OnData, OnClose, TearDown, TunnelStep
<1>3. Visit \/ Dial \/ (\E b \in Bridges : Connect(b)) => up' = up
  BY DEF Visit, Dial, Connect, StartStep
<1>4. \A b \in Bridges : Cancel(b) \/ RemoveStream(b) \/ Bye(b) => up' = up
  BY DEF Cancel, RemoveStream, Bye, EndingStep
<1>5. \A b \in Bridges, d \in Ways :
        Receive(b, d) \/ Finish(b, d) \/ Forward(b, d) \/ Raise(b, d) => up' = up
  BY DEF Receive, Finish, Forward, Raise, TaskStep
<1> QED BY <1>1, <1>2, <1>3, <1>4, <1>5 DEF Next, BridgeNext

LEMMA WiresStep ==
  ASSUME StateInv, Next
  PROVE  OrderInv' /\ WiresInv'
<1>1. /\ wire \in [Sides -> Seq(Frame)] /\ pc \in [Bridges -> Places]
      /\ OrderInv /\ WiresInv /\ TaskInv /\ PlaceInv
  BY DEF StateInv, TypeInv, TunnelType
<1>2. \A s \in Sides : Leaving(s) => Leaving(s)'
  BY PlaceMoves
<1>3. \A s \in Sides : Other(s) \in Sides /\ Other(Other(s)) = s /\ wire[s] \in Seq(Frame)
  BY <1>1, Names DEF Other
<1>4. CASE UNCHANGED wire /\ (Dial => ~up \/ pc'["relay"] = "done")
  <2>1. ~OnWsOpen
    <3>1. OnWsOpen => wire["agent"] # <<>> /\ Len(Tail(wire["agent"])) # Len(wire["agent"])
                      /\ wire'["agent"] = Tail(wire["agent"])
      BY <1>3, Names, <1>1 DEF OnWsOpen, Take
    <3> QED BY <3>1, <1>4
  <2>2. pc["agent"] = "idle" => pc'["agent"] = "idle"
    BY <2>1, PlaceMoves
  <2>3. OrderInv'
    <3>1. /\ pc'["relay"] \in {"idle", "dial"} => pc["relay"] \in {"idle", "dial"}
          /\ pc'["agent"] = "idle" => pc["agent"] = "idle"
      BY PlaceMoves
    <3>2. up' /\ pc'["relay"] \in {"run", "bye"} => up /\ pc["relay"] \in {"run", "bye"}
      <4>1. pc'["relay"] \in {"run", "bye"} => pc["relay"] \in {"run", "bye"} \/ Dial
        BY PlaceMoves
      <4>2. up' => up
        BY UpFalls
      <4>3. Dial => ~up \/ pc'["relay"] = "done"
        BY <1>4
      <4> QED BY <4>1, <4>2, <4>3
    <3> QED BY <1>1, <1>4, <2>2, <3>1, <3>2 DEF OrderInv
  <2>4. ASSUME NEW s \in Sides PROVE WireInv(s)'
    BY <1>1, <1>2, <1>3, <1>4, <2>2 DEF WiresInv, WireInv
  <2> QED BY <2>3, <2>4 DEF WiresInv
<1>5. CASE Lose
  <2>1. pc' = pc /\ up' = FALSE /\ \A s \in Sides : wire'[s] = <<>> /\ Len(wire'[s]) = 0
    BY <1>5 DEF Lose
  <2>2. OrderInv'
    BY <1>1, <2>1, Names DEF OrderInv
  <2>3. ASSUME NEW s \in Sides PROVE WireInv(s)'
    BY <2>1 DEF WireInv
  <2> QED BY <2>2, <2>3 DEF WiresInv
<1>6. CASE OnWsOpen
  <2>1. /\ wire["agent"] # <<>> /\ wire' = [wire EXCEPT !["agent"] = Tail(@)] /\ pc'["agent"] = "connect"
        /\ pc'["relay"] \notin {"idle", "dial"}
    BY <1>1, <1>6, OpenFirst, PlaceMoves, Names DEF OnWsOpen, Take, Goto
  <2> QED BY <1>2, <2>1, ArrivalOrder, Names
<1>7. ASSUME NEW s \in Sides, Arrives(s) PROVE OrderInv' /\ WiresInv'
  <2>1. pc["agent"] # "idle"
    <3>1. Head(wire[s]) = wire[s][1]
      BY <1>3
    <3> QED BY <1>1, <1>7, <3>1, Names DEF OrderInv, Arrives
  <2>2. pc["relay"] \notin {"idle", "dial"}
    BY <1>1, <1>7 DEF OrderInv, Arrives
  <2> QED BY <1>2, <1>7, <2>1, <2>2, ArrivalOrder DEF Arrives
<1>8. ASSUME NEW s \in Sides, NEW m \in Item, UNCHANGED pc, up, alive[Other(s)] # {},
             wire' = [wire EXCEPT ![s] = Append(@, [kind |-> "data", payload |-> m])]
      PROVE  OrderInv' /\ WiresInv'
  <2>1. pc[Other(s)] = "run"
    BY <1>1, <1>3, <1>8, Names DEF TaskInv
  <2>2. /\ ~Leaving(Other(s)) /\ pc["relay"] \notin {"idle", "dial"} /\ (pc["agent"] = "idle" => s = "agent")
        /\ pc["agent"] = "idle" => wire[s] # <<>>
    BY <1>1, <1>8, <2>1, Names DEF Leaving, Other, OrderInv
  <2> DEFINE f == [kind |-> "data", payload |-> m]
  <2>3. f \in Frame /\ f.kind = "data"
    BY FrameTypes
  <2>4. wire' = [wire EXCEPT ![s] = Append(@, f)]
    BY <1>8
  <2> HIDE DEF f
  <2> QED BY <1>2, <1>8, <2>2, <2>3, <2>4, SendOrder
<1>9. ASSUME Dial, pc'["relay"] = "run", wire' = [wire EXCEPT !["agent"] = Append(@, [kind |-> "open"])]
      PROVE  OrderInv' /\ WiresInv'
  <2>1. pc["relay"] = "dial" /\ pc["agent"] = "idle" /\ pc'["agent"] = "idle" /\ wire["agent"] = <<>>
    BY <1>1, <1>9, Names DEF Dial, StartTasks, Goto, OrderInv
  <2>2. ~Leaving("relay") /\ Other("agent") = "relay" /\ "agent" \in Sides
    BY <2>1, Names DEF Leaving, Other
  <2> DEFINE f == [kind |-> "open"]
  <2>3. f \in Frame /\ f.kind = "open"
    BY FrameTypes
  <2>4. wire' = [wire EXCEPT !["agent"] = Append(@, f)]
    BY <1>9
  <2> HIDE DEF f
  <2> QED BY <1>2, <1>9, <2>1, <2>2, <2>3, <2>4, SendOrder
<1>10. ASSUME NEW s \in Sides, up, Bye(Other(s)), wire' = [wire EXCEPT ![s] = Append(@, [kind |-> "close"])]
       PROVE  OrderInv' /\ WiresInv'
  <2>1. /\ pc[Other(s)] = "bye" /\ Leaving(Other(s))' /\ ~Leaving(Other(s))
        /\ pc'[s] = pc[s]
    BY <1>1, <1>10, Names DEF Bye, Goto, Leaving, Other
  <2>2. /\ pc["relay"] \notin {"idle", "dial"} /\ (pc["agent"] = "idle" => s = "agent" /\ wire[s] # <<>>)
        /\ pc'["relay"] \notin {"idle", "dial"} /\ (pc'["agent"] = "idle" <=> pc["agent"] = "idle")
    <3>1. CASE s = "agent"
      BY <1>1, <1>10, <2>1, <3>1, Names, PlaceMoves DEF Other, OrderInv
    <3>2. CASE s = "relay"
      BY <1>1, <1>10, <2>1, <3>2, Names, PlaceMoves DEF Other, OrderInv
    <3> QED BY <3>1, <3>2, Names
  <2> DEFINE f == [kind |-> "close"]
  <2>3. f \in Frame /\ f.kind = "close"
    BY FrameTypes
  <2>4. wire' = [wire EXCEPT ![s] = Append(@, f)]
    BY <1>10
  <2> HIDE DEF f
  <2> QED BY <1>2, <2>1, <2>2, <2>3, <2>4, SendOrder
<1> QED BY <1>4, <1>5, <1>6, <1>7, <1>8, <1>9, <1>10, WireMoves

LEMMA StateStep ==
  ASSUME StateInv, [Next]_vars
  PROVE  StateInv'
<1>1. CASE Next
  BY <1>1, TypeStep, PlaceStep, TaskStepInv, WiresStep DEF StateInv
<1>2. CASE UNCHANGED vars
  BY <1>2 DEF StateInv, TypeInv, EndsType, TasksType, TunnelType, PlaceInv, TaskInv, OrderInv, WiresInv,
              WireInv, Leaving, vars, ends, tasks, tunnel
<1> QED BY <1>1, <1>2

LEMMA StateInit == Init => StateInv
<1> SUFFICES ASSUME Init PROVE StateInv
  OBVIOUS
<1>1. TypeInv
  BY DEF Init, TypeInv, EndsType, TasksType, TunnelType, Places, Ends
<1>2. PlaceInv /\ TaskInv /\ OrderInv
  BY Names DEF Init, PlaceInv, TaskInv, OrderInv
<1>3. WiresInv
  BY DEF Init, WiresInv, WireInv
<1> QED BY <1>1, <1>2, <1>3 DEF StateInv

-----------------------------------------------------------------------------
(***************************************************************************)
(* The messages of one way d, from the end that says them to the end that   *)
(* hears them: where they wait, and which bridges they pass.                *)
(***************************************************************************)
Source(d) == IF d = "down" THEN "browser" ELSE "app"
In(d) == Entry(Source(d))
Far(d) == IF d = "down" THEN "agent" ELSE "relay"
Out(d) == IF start.local THEN "local" ELSE Far(d)
Said(d) == said[Source(d)]
Heard(d) == heard[FarEnd(d)]
BoxIn(d) == box[In(d)][d]
HoldIn(d) == hold[In(d)][d]
BoxOut(d) == box[Out(d)][d]
HoldOut(d) == hold[Out(d)][d]
Wire(d) == wire[Far(d)]

\* The k-th message of this way; how many have left the first bridge, and how
\* many have reached the last one.
Sc(d, k) == Script[Source(d)][k]
Passed(d) == Len(Said(d)) - Len(BoxIn(d)) - Len(HoldIn(d))
Got(d) == Len(Heard(d)) + Len(HoldOut(d)) + Len(BoxOut(d))
Opens(d) == IF Wire(d) # <<>> /\ Wire(d)[1].kind = "open" THEN 1 ELSE 0

\* A bridge can still pass messages on; the far end takes them; a stream is there
\* for the frames that arrive.  None of these comes back once it is lost.
Pending(b) == pc[b] \in {"idle", "dial", "connect"}
Flowing(b, d) == d \in alive[b] \/ Pending(b)
FarOk(d) == FarEnd(d) \in open \/ (d = "down" /\ Pending(Out(d)))
RegOk(d) == \/ Far(d) \in reg
            \/ d = "down" /\ pc["agent"] = "idle"
            \/ d = "up" /\ pc["relay"] \in {"idle", "dial"}

EndsInv(d) ==
    /\ Len(Said(d)) <= Len(Script[Source(d)])
    /\ \A i \in 1..Len(Said(d)) : Said(d)[i] = Sc(d, i)
    /\ Len(Heard(d)) <= Passed(d)
    /\ \A i \in 1..Len(Heard(d)) : Heard(d)[i] = Sc(d, i)
\* What waits at the first bridge is the end of what was said.
EntryInv(d) ==
    /\ \A i \in 1..Len(BoxIn(d)) : BoxIn(d)[i] = Sc(d, Len(Said(d)) - Len(BoxIn(d)) + i)
    /\ HoldIn(d) # <<>> => HoldIn(d) = <<Sc(d, Len(Said(d)) - Len(BoxIn(d)))>>
LocalInv(d) == start.local /\ FarOk(d) /\ Flowing("local", d) => Len(Heard(d)) = Passed(d)
\* What waits at the last bridge, and then what is on the wire, follows what was
\* heard without a gap.
WireOk(d) ==
    /\ \A i \in 1..Len(Wire(d)) : Wire(d)[i].kind = "data" =>
          /\ Wire(d)[i].payload = Encode(Sc(d, Got(d) + i - Opens(d)))
          /\ Got(d) + i - Opens(d) <= Passed(d)
    /\ up /\ Flowing(In(d), d) => Got(d) + Len(Wire(d)) - Opens(d) = Passed(d)
ExitOk(d) ==
    /\ HoldOut(d) # <<>> => HoldOut(d) = <<Encode(Sc(d, Len(Heard(d)) + 1))>>
    /\ \A i \in 1..Len(BoxOut(d)) : BoxOut(d)[i] = Encode(Sc(d, Len(Heard(d)) + Len(HoldOut(d)) + i))
    /\ Got(d) <= Passed(d)
    /\ RegOk(d) => WireOk(d)
ExitInv(d) == ~start.local /\ FarOk(d) /\ Flowing(Out(d), d) => ExitOk(d)
WayInv(d) == EndsInv(d) /\ EntryInv(d) /\ LocalInv(d) /\ ExitInv(d)

LEMMA WayNames ==
  ASSUME NEW d \in Ways, start.local \in BOOLEAN
  PROVE  /\ Source(d) \in Ends /\ FarEnd(d) \in Ends /\ Far(d) \in Sides
         /\ In(d) \in Bridges /\ Out(d) \in Bridges
         /\ IF start.local THEN In(d) = "local" /\ Out(d) = "local"
                           ELSE Out(d) = Far(d) /\ In(d) = Other(Far(d)) /\ In(d) # Out(d)
         /\ Reader(Far(d)) = d
         /\ \A e \in Ends : Way(e) = d <=> Source(d) = e
         /\ \A s \in Sides : Reader(s) = d <=> s = Far(d)
BY Names DEF Source, FarEnd, Far, In, Out, Entry, Other, Reader, Way

LEMMA WayTypes ==
  ASSUME TypeInv, NEW d \in Ways
  PROVE  /\ Said(d) \in Seq(Item) /\ Heard(d) \in Seq(Item)
         /\ BoxIn(d) \in Seq(Item) /\ HoldIn(d) \in Seq(Item)
         /\ BoxOut(d) \in Seq(Item) /\ HoldOut(d) \in Seq(Item) /\ Wire(d) \in Seq(Frame)
         /\ start.local \in BOOLEAN
         /\ Script[Source(d)] \in Seq(Message)
<1>1. start.local \in BOOLEAN
  BY BridgeAssumption DEF TypeInv
<1> QED BY <1>1, WayNames, BridgeAssumption
        DEF TypeInv, EndsType, TasksType, TunnelType, Said, Heard, BoxIn, HoldIn, BoxOut, HoldOut, Wire

LEMMA WayNumbers ==
  ASSUME TypeInv, NEW d \in Ways
  PROVE  /\ Len(Said(d)) \in Nat /\ Len(Heard(d)) \in Nat /\ Len(BoxIn(d)) \in Nat /\ Len(HoldIn(d)) \in Nat
         /\ Len(BoxOut(d)) \in Nat /\ Len(HoldOut(d)) \in Nat /\ Len(Wire(d)) \in Nat
         /\ Passed(d) \in Int /\ Got(d) \in Nat /\ Opens(d) \in {0, 1} /\ Len(Script[Source(d)]) \in Nat
<1>1. /\ Len(Said(d)) \in Nat /\ Len(Heard(d)) \in Nat /\ Len(BoxIn(d)) \in Nat /\ Len(HoldIn(d)) \in Nat
      /\ Len(BoxOut(d)) \in Nat /\ Len(HoldOut(d)) \in Nat /\ Len(Wire(d)) \in Nat
      /\ Len(Script[Source(d)]) \in Nat
  BY WayTypes, LenProperties
<1> QED BY <1>1 DEF Passed, Got, Opens

\* A running task is one of its way's first or last bridge.
LEMMA Running ==
  ASSUME StateInv, NEW b \in Bridges, NEW d \in Ways, d \in alive[b]
  PROVE  /\ IF start.local THEN b = "local" ELSE b = In(d) \/ b = Out(d)
         /\ ToTunnel(b, d) <=> ~start.local /\ b = In(d)
         /\ start.local \in BOOLEAN
         /\ ~Pending(b)
<1>1. start.local \in BOOLEAN /\ pc[b] = "run"
  BY WayTypes, Names DEF StateInv, TaskInv
<1>2. IF start.local THEN b = "local" ELSE b \in Sides
  BY <1>1, Names DEF StateInv, PlaceInv
<1> QED BY <1>1, <1>2, Names DEF Pending, ToTunnel, In, Out, Far, Entry, Source

Falls(d) ==
    /\ FarOk(d)' => FarOk(d)
    /\ Flowing(In(d), d)' => Flowing(In(d), d)
    /\ Flowing(Out(d), d)' => Flowing(Out(d), d)
    /\ RegOk(d)' => RegOk(d)
    /\ up' => up

\* No step gives back what a way has lost.
Gains ==
    /\ \A b \in Bridges : Pending(b)' => Pending(b)
    /\ \A b \in Bridges, d \in Ways : d \in alive'[b] => d \in alive[b] \/ Pending(b)
    /\ "browser" \in open' => "browser" \in open
    /\ "app" \in open' => "app" \in open \/ Pending(Out("down"))
    /\ "relay" \in reg' => "relay" \in reg \/ pc["relay"] = "dial"
    /\ "agent" \in reg' => "agent" \in reg \/ pc["agent"] = "idle"
LEMMA GainsStep ==
  ASSUME StateInv, Next
  PROVE  Gains
<1>1. /\ pc \in [Bridges -> Places] /\ PlaceInv /\ start.local \in BOOLEAN
      /\ alive \in [Bridges -> SUBSET Ways] /\ open \subseteq Ends /\ reg \subseteq Sides
  BY WayTypes, Names DEF StateInv, TypeInv, EndsType, TasksType, TunnelType
<1>2. ASSUME Quiet, alive' = alive, open' \subseteq open, reg' \subseteq reg PROVE Gains
  BY <1>2 DEF Quiet, Gains, Pending
<1>3. ASSUME NEW e \in Ends, Say(e) \/ Leave(e) PROVE Gains
  BY <1>2, <1>3 DEF Say, Leave, CloseEnd, EndStep, tunnel, Quiet
<1>4. CASE OnWsOpen
  BY <1>1, <1>4, OpenFirst, Names DEF OnWsOpen, TunnelStep, ends, Goto, Gains, Pending
<1>5. CASE Lose
  BY <1>2, <1>5 DEF Lose, ends, tasks, Quiet
<1>6. ASSUME NEW s \in Sides, SideNext(s) PROVE Gains
  BY <1>2, <1>6 DEF SideNext, Arrive, OnData, OnClose, TearDown, TunnelStep, ends, Quiet
<1>7. CASE Visit
  BY <1>1, <1>7, Names DEF Visit, Goto, CloseEnd, StartStep, Gains, Pending, Entry
<1>8. CASE Dial
  BY <1>1, <1>8, Names DEF Dial, Goto, CloseEnd, StartTasks, StartStep, Gains, Pending
<1>9. ASSUME NEW b \in Bridges, Connect(b) PROVE Gains
  <2>1. b = Out("down")
    BY <1>1, <1>9, Names DEF Connect, PlaceInv, Out, Far
  <2>2. Pending(b) /\ reg' = reg /\ open' \subseteq open \cup {"app"}
    BY <1>1, <1>9 DEF Connect, Pending
  <2>3. /\ \A x \in Bridges : Pending(x)' => Pending(x)
        /\ \A x \in Bridges, d \in Ways : d \in alive'[x] => d \in alive[x] \/ Pending(x)
    BY <1>1, <1>9, <2>2 DEF Connect, StartTasks, Goto, Pending
  <2> QED BY <2>1, <2>2, <2>3 DEF Gains
<1>10. ASSUME NEW b \in Bridges, Cancel(b) \/ RemoveStream(b) \/ Bye(b) PROVE Gains
  <2>1. open' \subseteq open /\ reg' \subseteq reg
    BY <1>10, Names DEF Cancel, RemoveStream, Bye
  <2>2. /\ \A x \in Bridges : Pending(x)' => Pending(x)
        /\ \A x \in Bridges, d \in Ways : d \in alive'[x] => d \in alive[x]
    <3>1. CASE Cancel(b)
      <4>1. PICK p \in {"bye", "remove"} : pc' = [pc EXCEPT ![b] = p] /\ alive' = [alive EXCEPT ![b] = {}]
        BY <3>1, Names DEF Cancel, Goto
      <4> QED BY <1>1, <4>1 DEF Pending
    <3>2. CASE RemoveStream(b) \/ Bye(b)
      BY <1>1, <3>2 DEF RemoveStream, Bye, Goto, Pending
    <3> QED BY <1>10, <3>1, <3>2
  <2> QED BY <2>1, <2>2 DEF Gains
<1>11. ASSUME NEW b \in Bridges, NEW d \in Ways,
              Receive(b, d) \/ Finish(b, d) \/ Forward(b, d) \/ Raise(b, d)
       PROVE  Gains
  <2>1. pc' = pc /\ open' = open /\ reg' \subseteq reg /\ \A x \in Bridges : alive'[x] \subseteq alive[x]
    BY <1>1, <1>11 DEF Receive, Finish, Forward, Raise, TaskStep
  <2> QED BY <2>1 DEF Gains, Pending
<1> QED BY <1>3, <1>4, <1>5, <1>6, <1>7, <1>8, <1>9, <1>10, <1>11 DEF Next, BridgeNext

LEMMA FallsStep ==
  ASSUME StateInv, Next, NEW d \in Ways
  PROVE  Falls(d) /\ start' = start
<1>1. start' = start /\ start.local \in BOOLEAN /\ (up' => up) /\ Gains
  BY SameStart, WayTypes, UpFalls, GainsStep DEF StateInv
<1>2. In(d)' = In(d) /\ Out(d)' = Out(d) /\ In(d) \in Bridges /\ Out(d) \in Bridges
  BY <1>1, WayNames DEF In, Out, Source, Entry
<1>3. \A b \in Bridges : (d \in alive'[b] \/ Pending(b)') => Flowing(b, d)
  BY <1>1 DEF Gains, Flowing
<1>4. /\ Flowing(In(d), d)' => Flowing(In(d), d)
      /\ Flowing(Out(d), d)' => Flowing(Out(d), d)
  BY <1>2, <1>3 DEF Flowing, Pending
<1>5. FarOk(d)' => FarOk(d)
  BY <1>1, <1>2, Names DEF FarOk, Gains, FarEnd, Pending
<1>6. RegOk(d)' => RegOk(d)
  <2>1. pc'["relay"] \in {"idle", "dial"} => pc["relay"] \in {"idle", "dial"}
    BY PlaceMoves
  <2>2. pc'["agent"] = "idle" => pc["agent"] = "idle"
    BY PlaceMoves
  <2> QED BY <1>1, <2>1, <2>2, Names DEF RegOk, Far, Gains
<1> QED BY <1>1, <1>4, <1>5, <1>6 DEF Falls

\* The way d is left alone, but that a bridge that stops may drop what it holds.
Left(d) ==
    /\ Said(d)' = Said(d) /\ Heard(d)' = Heard(d)
    /\ BoxIn(d)' = BoxIn(d) /\ BoxOut(d)' = BoxOut(d)
    /\ HoldIn(d)' = HoldIn(d) \/ (HoldIn(d)' = <<>> /\ ~Flowing(In(d), d)')
    /\ HoldOut(d)' = HoldOut(d) \/ (HoldOut(d)' = <<>> /\ ~Flowing(Out(d), d)')

LEMMA EntryKept ==
  ASSUME TypeInv, TypeInv', NEW d \in Ways, WayInv(d), Falls(d), start' = start, Left(d)
  PROVE  /\ EndsInv(d)' /\ EntryInv(d)' /\ LocalInv(d)'
         /\ Passed(d)' >= Passed(d) /\ (Flowing(In(d), d)' => Passed(d)' = Passed(d))
<1>1. /\ Len(Said(d)) \in Nat /\ Len(Heard(d)) \in Nat /\ Len(BoxIn(d)) \in Nat /\ Len(HoldIn(d)) \in Nat
      /\ Len(HoldIn(d)') \in Nat /\ Passed(d) \in Int
  BY WayNumbers DEF Left
<1>2. Passed(d) = Len(Said(d)) - Len(BoxIn(d)) - Len(HoldIn(d))
  BY DEF Passed
<1>3. Passed(d)' = Len(Said(d)') - Len(BoxIn(d)') - Len(HoldIn(d)')
  BY DEF Passed
<1>4. Passed(d)' \in Int /\ Passed(d)' >= Passed(d) /\ (Flowing(In(d), d)' => Passed(d)' = Passed(d))
  BY <1>1, <1>2, <1>3 DEF Left
<1>5. EndsInv(d)'
  BY <1>1, <1>4 DEF Left, WayInv, EndsInv, Sc
<1>6. EntryInv(d)'
  BY <1>1 DEF Left, WayInv, EntryInv, Sc
<1>7. LocalInv(d)'
  <2>1. start.local => In(d) = "local" /\ In(d)' = "local"
    BY DEF In, Entry
  <2>2. start.local /\ Flowing("local", d)' => Flowing("local", d) /\ Passed(d)' = Passed(d)
    BY <1>4, <2>1 DEF Falls, Flowing, Pending
  <2> QED BY <2>2 DEF Left, WayInv, LocalInv, Falls
<1> QED BY <1>4, <1>5, <1>6, <1>7

\* The same after a step.
LEMMA WayNext ==
  ASSUME TypeInv', NEW d \in Ways
  PROVE  /\ Said(d)' \in Seq(Item) /\ Heard(d)' \in Seq(Item)
         /\ BoxIn(d)' \in Seq(Item) /\ HoldIn(d)' \in Seq(Item)
         /\ BoxOut(d)' \in Seq(Item) /\ HoldOut(d)' \in Seq(Item) /\ Wire(d)' \in Seq(Frame)
         /\ Passed(d)' \in Int /\ Got(d)' \in Nat /\ Opens(d)' \in {0, 1}
<1>1. start'.local \in BOOLEAN
  BY BridgeAssumption DEF TypeInv
<1>2. In(d)' \in Bridges /\ Out(d)' \in Bridges /\ Source(d) \in Ends /\ FarEnd(d) \in Ends /\ Far(d) \in Sides
  BY <1>1, Names DEF In, Out, Far, Entry, Source
<1>3. /\ Said(d)' \in Seq(Item) /\ Heard(d)' \in Seq(Item)
      /\ BoxIn(d)' \in Seq(Item) /\ HoldIn(d)' \in Seq(Item)
      /\ BoxOut(d)' \in Seq(Item) /\ HoldOut(d)' \in Seq(Item) /\ Wire(d)' \in Seq(Frame)
  BY <1>2 DEF TypeInv, EndsType, TasksType, TunnelType, Said, Heard, BoxIn, HoldIn, BoxOut, HoldOut, Wire
<1>4. /\ Len(Said(d)') \in Nat /\ Len(BoxIn(d)') \in Nat /\ Len(HoldIn(d)') \in Nat
      /\ Len(Heard(d)') \in Nat /\ Len(BoxOut(d)') \in Nat /\ Len(HoldOut(d)') \in Nat
  BY <1>3, LenProperties
<1> QED BY <1>3, <1>4 DEF Passed, Got, Opens

\* The wire and the last bridge still say what they said.
Stays(d) == Heard(d)' = Heard(d) /\ BoxOut(d)' = BoxOut(d) /\ HoldOut(d)' = HoldOut(d)

LEMMA WireKept ==
  ASSUME TypeInv, TypeInv', NEW d \in Ways, WireOk(d), Wire(d)' = Wire(d), Got(d)' = Got(d),
         Passed(d)' >= Passed(d),
         up' /\ Flowing(In(d), d)' => up /\ Flowing(In(d), d) /\ Passed(d)' = Passed(d)
  PROVE  WireOk(d)'
<1>1. /\ Passed(d) \in Int /\ Passed(d)' \in Int /\ Got(d) \in Nat /\ Len(Wire(d)) \in Nat
      /\ Opens(d) \in {0, 1} /\ Opens(d)' = Opens(d)
  BY WayNumbers, WayNext DEF Opens
<1>2. up' /\ Flowing(In(d), d)' => Got(d)' + Len(Wire(d)') - Opens(d)' = Passed(d)'
  BY <1>1 DEF WireOk
<1>3. ASSUME NEW i \in 1..Len(Wire(d)'), Wire(d)'[i].kind = "data"
      PROVE  /\ Wire(d)'[i].payload = Encode(Sc(d, Got(d)' + i - Opens(d)'))
             /\ Got(d)' + i - Opens(d)' <= Passed(d)'
  BY <1>1, <1>3 DEF WireOk
<1> QED BY <1>2, <1>3 DEF WireOk, Sc

LEMMA ExitKept ==
  ASSUME TypeInv, TypeInv', NEW d \in Ways, WayInv(d), Falls(d), start' = start, Passed(d)' >= Passed(d),
         ~start.local /\ FarOk(d)' /\ Flowing(Out(d), d)' => Stays(d),
         ~start.local /\ Stays(d) /\ ExitOk(d) /\ RegOk(d)' => WireOk(d)'
  PROVE  ExitInv(d)'
<1> SUFFICES ASSUME ~start.local, FarOk(d)', Flowing(Out(d), d)' PROVE ExitOk(d)'
  BY DEF ExitInv
<1>1. ExitOk(d) /\ Stays(d)
  BY DEF Falls, WayInv, ExitInv
<1>2. Got(d)' = Got(d)
  BY <1>1 DEF Got, Stays
<1>3. Passed(d) \in Int /\ Passed(d)' \in Int /\ Got(d) \in Nat
  BY WayNumbers, WayNext
<1>4. RegOk(d)' => WireOk(d)'
  BY <1>1
<1> QED BY <1>1, <1>2, <1>3, <1>4 DEF ExitOk, Sc, Stays

\* A way that is left alone keeps its invariant, when the wire does.
LEMMA LeftKept ==
  ASSUME TypeInv, TypeInv', NEW d \in Ways, WayInv(d), Falls(d), start' = start, Left(d),
         \/ Wire(d)' = Wire(d)
         \/ ~start.local /\ Stays(d) /\ ExitOk(d) /\ RegOk(d)' => WireOk(d)'
  PROVE  WayInv(d)'
<1>1. /\ EndsInv(d)' /\ EntryInv(d)' /\ LocalInv(d)'
      /\ Passed(d)' >= Passed(d) /\ (Flowing(In(d), d)' => Passed(d)' = Passed(d))
  BY EntryKept
<1>2. ASSUME Stays(d), ExitOk(d), RegOk(d)', Wire(d)' = Wire(d) PROVE WireOk(d)'
  <2>1. WireOk(d)
    BY <1>2 DEF ExitOk, Falls
  <2>2. Got(d)' = Got(d)
    BY <1>2 DEF Got, Stays
  <2> QED BY <1>1, <1>2, <2>1, <2>2, WireKept DEF Falls
<1>3. Flowing(Out(d), d)' => Stays(d)
  BY DEF Left, Stays
<1>4. ExitInv(d)'
  BY <1>1, <1>2, <1>3, ExitKept
<1> QED BY <1>1, <1>4 DEF WayInv

\* Frames other than data: WS_OPEN sent and taken, WS_CLOSE sent and taken, all lost.
LEMMA OpenSent ==
  ASSUME TypeInv, TypeInv', NEW d \in Ways, WireOk(d), Got(d)' = Got(d), Passed(d)' = Passed(d),
         up' /\ Flowing(In(d), d)' => up /\ Flowing(In(d), d),
         Wire(d) = <<>>, Wire(d)' = <<[kind |-> "open"]>>
  PROVE  WireOk(d)'
<1>1. Passed(d) \in Int /\ Got(d) \in Nat /\ Opens(d) = 0 /\ Opens(d)' = 1 /\ Len(Wire(d)) = 0 /\ Len(Wire(d)') = 1
  BY WayNumbers DEF Opens
<1>2. \A i \in 1..Len(Wire(d)') : Wire(d)'[i].kind # "data"
  BY <1>1
<1> QED BY <1>1, <1>2 DEF WireOk

LEMMA OpenTaken ==
  ASSUME TypeInv, TypeInv', NEW d \in Ways, WireOk(d), Got(d)' = Got(d), Passed(d)' = Passed(d),
         up' /\ Flowing(In(d), d)' => up /\ Flowing(In(d), d),
         Wire(d) # <<>>, Wire(d)[1].kind = "open", Wire(d)' = Tail(Wire(d)),
         \A i \in 1..Len(Wire(d)) : Wire(d)[i].kind = "open" => i = 1
  PROVE  WireOk(d)'
<1>1. /\ Passed(d) \in Int /\ Got(d) \in Nat /\ Wire(d) \in Seq(Frame) /\ Len(Wire(d)) \in Nat \ {0}
      /\ Len(Wire(d)') = Len(Wire(d)) - 1 /\ Opens(d) = 1
      /\ \A i \in 1..Len(Wire(d)') : i + 1 \in 1..Len(Wire(d)) /\ Wire(d)'[i] = Wire(d)[i + 1]
  <2>1. Wire(d) \in Seq(Frame) /\ Passed(d) \in Int /\ Got(d) \in Nat /\ Opens(d) = 1
    BY WayNumbers, WayTypes DEF Opens
  <2> QED BY <2>1, HeadTailProperties
<1>2. Opens(d)' = 0
  <2>1. Wire(d)' # <<>> => 1 \in 1..Len(Wire(d)')
    BY WayNext
  <2>2. Wire(d)' # <<>> => Wire(d)'[1].kind # "open"
    BY <1>1, <2>1
  <2> QED BY <2>2 DEF Opens
<1>3. ASSUME NEW i \in 1..Len(Wire(d)'), Wire(d)'[i].kind = "data"
      PROVE  /\ Wire(d)'[i].payload = Encode(Sc(d, Got(d)' + i - Opens(d)'))
             /\ Got(d)' + i - Opens(d)' <= Passed(d)'
  <2>1. Got(d)' + i - Opens(d)' = Got(d) + (i + 1) - Opens(d)
    BY <1>1, <1>2
  <2> QED BY <1>1, <1>3, <2>1 DEF WireOk
<1>4. up' /\ Flowing(In(d), d)' => Got(d)' + Len(Wire(d)') - Opens(d)' = Passed(d)'
  BY <1>1, <1>2 DEF WireOk
<1> QED BY <1>3, <1>4 DEF WireOk, Sc

LEMMA CloseSent ==
  ASSUME TypeInv, TypeInv', NEW d \in Ways, WireOk(d), Got(d)' = Got(d), Passed(d)' = Passed(d),
         ~Flowing(In(d), d)', NEW f \in Frame, f.kind = "close", Wire(d)' = Append(Wire(d), f)
  PROVE  WireOk(d)'
<1>1. Passed(d) \in Int /\ Got(d) \in Nat /\ Wire(d) \in Seq(Frame) /\ Len(Wire(d)) \in Nat
  BY WayNumbers, WayTypes
<1>2. /\ Len(Wire(d)') = Len(Wire(d)) + 1 /\ Wire(d)'[Len(Wire(d)) + 1] = f
      /\ \A i \in 1..Len(Wire(d)) : Wire(d)'[i] = Wire(d)[i]
  BY <1>1, AppendProperties
<1>3. Opens(d)' = Opens(d)
  <2>1. CASE Wire(d) = <<>>
    BY <1>1, <1>2, <2>1 DEF Opens
  <2>2. CASE Wire(d) # <<>>
    <3>1. 1 \in 1..Len(Wire(d)) /\ Wire(d)' # <<>>
      BY <1>1, <1>2, <2>2
    <3> QED BY <1>2, <2>2, <3>1 DEF Opens
  <2> QED BY <2>1, <2>2
<1>4. ASSUME NEW i \in 1..Len(Wire(d)'), Wire(d)'[i].kind = "data"
      PROVE  i \in 1..Len(Wire(d)) /\ Wire(d)'[i] = Wire(d)[i]
  BY <1>1, <1>2, <1>4
<1> QED BY <1>3, <1>4 DEF WireOk, Sc

LEMMA NothingLeft ==
  ASSUME NEW d \in Ways, Wire(d)' = <<>>, ~(up' /\ Flowing(In(d), d)')
  PROVE  WireOk(d)'
BY DEF WireOk

\* The steps that move a message.
LEMMA RestKept ==
  ASSUME TypeInv, TypeInv', NEW d \in Ways, WayInv(d), Falls(d), start' = start, Passed(d)' = Passed(d),
         Heard(d)' = Heard(d), ~start.local => Stays(d), Wire(d)' = Wire(d), EndsInv(d)', EntryInv(d)'
  PROVE  WayInv(d)'
<1>1. LocalInv(d)'
  <2>1. start.local => In(d) = "local" /\ In(d)' = "local"
    BY DEF In, Entry
  <2>2. start.local /\ Flowing("local", d)' => Flowing("local", d)
    BY <2>1 DEF Falls, Flowing, Pending
  <2> QED BY <2>2 DEF WayInv, LocalInv, Falls
<1>2. ASSUME Stays(d), ExitOk(d), RegOk(d)' PROVE WireOk(d)'
  <2>1. WireOk(d) /\ Got(d)' = Got(d)
    BY <1>2 DEF ExitOk, Falls, Got, Stays
  <2>2. Passed(d)' >= Passed(d)
    BY WayNumbers
  <2> QED BY <2>1, <2>2, WireKept DEF Falls
<1>3. Passed(d)' >= Passed(d)
  BY WayNumbers
<1>4. ExitInv(d)'
  BY <1>2, <1>3, ExitKept
<1> QED BY <1>1, <1>4 DEF WayInv

LEMMA SayMoves ==
  ASSUME TypeInv, TypeInv', NEW d \in Ways, WayInv(d), Falls(d), start' = start,
         Len(Said(d)) < Len(Script[Source(d)]),
         Said(d)' = Append(Said(d), Sc(d, Len(Said(d)) + 1)),
         BoxIn(d)' = Append(BoxIn(d), Sc(d, Len(Said(d)) + 1)),
         HoldIn(d)' = HoldIn(d), Heard(d)' = Heard(d), ~start.local => Stays(d), Wire(d)' = Wire(d)
  PROVE  WayInv(d)'
<1> DEFINE x == Sc(d, Len(Said(d)) + 1)
<1>1. /\ Len(Said(d)) \in Nat /\ Len(BoxIn(d)) \in Nat /\ Len(HoldIn(d)) \in Nat /\ Len(Heard(d)) \in Nat
      /\ Len(Script[Source(d)]) \in Nat /\ Said(d) \in Seq(Item) /\ BoxIn(d) \in Seq(Item)
  BY WayNumbers, WayTypes
<1>2. x \in Item
  <2>1. Script[Source(d)] \in Seq(Message) /\ Len(Said(d)) + 1 \in 1..Len(Script[Source(d)])
    BY <1>1, WayTypes
  <2> QED BY <2>1, ElementOfSeq DEF Sc, Item
<1>3. /\ Len(Said(d)') = Len(Said(d)) + 1 /\ Said(d)'[Len(Said(d)) + 1] = x
      /\ \A i \in 1..Len(Said(d)) : Said(d)'[i] = Said(d)[i]
  BY <1>1, <1>2, AppendProperties
<1>4. /\ Len(BoxIn(d)') = Len(BoxIn(d)) + 1 /\ BoxIn(d)'[Len(BoxIn(d)) + 1] = x
      /\ \A i \in 1..Len(BoxIn(d)) : BoxIn(d)'[i] = BoxIn(d)[i]
  BY <1>1, <1>2, AppendProperties
<1>5. Passed(d)' = Passed(d)
  BY <1>1, <1>3, <1>4 DEF Passed
<1>6. EndsInv(d)'
  <2>1. ASSUME NEW i \in 1..Len(Said(d)') PROVE Said(d)'[i] = Sc(d, i)
    <3>1. i \in 1..Len(Said(d)) \/ i = Len(Said(d)) + 1
      BY <1>1, <1>3
    <3> QED BY <1>3, <3>1 DEF WayInv, EndsInv
  <2>2. Len(Said(d)') <= Len(Script[Source(d)])
    BY <1>1, <1>3
  <2> QED BY <1>5, <2>1, <2>2 DEF WayInv, EndsInv, Sc
<1>7. EntryInv(d)'
  <2>1. Len(Said(d)') - Len(BoxIn(d)') = Len(Said(d)) - Len(BoxIn(d))
    BY <1>1, <1>3, <1>4
  <2>2. ASSUME NEW i \in 1..Len(BoxIn(d)')
        PROVE  BoxIn(d)'[i] = Sc(d, Len(Said(d)') - Len(BoxIn(d)') + i)
    <3>1. CASE i \in 1..Len(BoxIn(d))
      BY <1>4, <2>1, <3>1 DEF WayInv, EntryInv
    <3>2. CASE i = Len(BoxIn(d)) + 1
      <4>1. Len(Said(d)') - Len(BoxIn(d)') + i = Len(Said(d)) + 1
        BY <1>1, <2>1, <3>2
      <4> QED BY <1>4, <3>2, <4>1
    <3> QED BY <1>1, <1>4, <3>1, <3>2
  <2>3. HoldIn(d)' # <<>> => HoldIn(d)' = <<Sc(d, Len(Said(d)') - Len(BoxIn(d)'))>>
    BY <2>1 DEF WayInv, EntryInv
  <2> QED BY <2>2, <2>3 DEF EntryInv, Sc
<1> QED BY <1>5, <1>6, <1>7, RestKept

LEMMA ReceiveIn ==
  ASSUME TypeInv, TypeInv', NEW d \in Ways, WayInv(d), Falls(d), start' = start,
         HoldIn(d) = <<>>, BoxIn(d) # <<>>, HoldIn(d)' = <<Head(BoxIn(d))>>, BoxIn(d)' = Tail(BoxIn(d)),
         Said(d)' = Said(d), Heard(d)' = Heard(d), ~start.local => Stays(d), Wire(d)' = Wire(d)
  PROVE  WayInv(d)'
<1>1. /\ Len(Said(d)) \in Nat /\ BoxIn(d) \in Seq(Item) /\ Len(HoldIn(d)) = 0 /\ Len(HoldIn(d)') = 1
  BY WayNumbers, WayTypes
<1>2. /\ Len(BoxIn(d)) \in Nat \ {0} /\ Len(BoxIn(d)') = Len(BoxIn(d)) - 1 /\ Head(BoxIn(d)) = BoxIn(d)[1]
      /\ \A i \in 1..Len(BoxIn(d)') : i + 1 \in 1..Len(BoxIn(d)) /\ BoxIn(d)'[i] = BoxIn(d)[i + 1]
  BY <1>1, HeadTailProperties
<1>3. Passed(d)' = Passed(d)
  BY <1>1, <1>2 DEF Passed
<1>4. EndsInv(d)'
  BY <1>3 DEF WayInv, EndsInv, Sc
<1>5. EntryInv(d)'
  <2>1. \A i \in 1..Len(BoxIn(d)) : BoxIn(d)[i] = Sc(d, Len(Said(d)) - Len(BoxIn(d)) + i)
    BY DEF WayInv, EntryInv
  <2>2. ASSUME NEW i \in 1..Len(BoxIn(d)')
        PROVE  BoxIn(d)'[i] = Sc(d, Len(Said(d)') - Len(BoxIn(d)') + i)
    <3>1. Len(Said(d)') - Len(BoxIn(d)') + i = Len(Said(d)) - Len(BoxIn(d)) + (i + 1)
      BY <1>1, <1>2
    <3> QED BY <1>2, <2>1, <3>1
  <2>3. HoldIn(d)' = <<Sc(d, Len(Said(d)') - Len(BoxIn(d)'))>>
    <3>1. Len(Said(d)') - Len(BoxIn(d)') = Len(Said(d)) - Len(BoxIn(d)) + 1 /\ 1 \in 1..Len(BoxIn(d))
      BY <1>1, <1>2
    <3> QED BY <1>2, <2>1, <3>1
  <2> QED BY <2>2, <2>3 DEF EntryInv, Sc
<1> QED BY <1>3, <1>4, <1>5, RestKept

LEMMA ReceiveOut ==
  ASSUME TypeInv, TypeInv', NEW d \in Ways, WayInv(d), Falls(d), start' = start, ~start.local,
         HoldOut(d) = <<>>, BoxOut(d) # <<>>, HoldOut(d)' = <<Head(BoxOut(d))>>, BoxOut(d)' = Tail(BoxOut(d)),
         HoldIn(d)' = HoldIn(d), BoxIn(d)' = BoxIn(d),
         Said(d)' = Said(d), Heard(d)' = Heard(d), Wire(d)' = Wire(d)
  PROVE  WayInv(d)'
<1>1. /\ Len(Heard(d)) \in Nat /\ BoxOut(d) \in Seq(Item) /\ Len(HoldOut(d)) = 0 /\ Len(HoldOut(d)') = 1
  BY WayNumbers, WayTypes
<1>2. /\ Len(BoxOut(d)) \in Nat \ {0} /\ Len(BoxOut(d)') = Len(BoxOut(d)) - 1 /\ Head(BoxOut(d)) = BoxOut(d)[1]
      /\ \A i \in 1..Len(BoxOut(d)') : i + 1 \in 1..Len(BoxOut(d)) /\ BoxOut(d)'[i] = BoxOut(d)[i + 1]
  BY <1>1, HeadTailProperties
<1>3. Passed(d)' = Passed(d) /\ Got(d)' = Got(d)
  BY <1>1, <1>2 DEF Passed, Got
<1>4. EndsInv(d)' /\ EntryInv(d)' /\ LocalInv(d)'
  BY <1>3 DEF WayInv, EndsInv, EntryInv, LocalInv, Sc
<1>5. ExitInv(d)'
  <2> SUFFICES ASSUME FarOk(d)', Flowing(Out(d), d)' PROVE ExitOk(d)'
    BY DEF ExitInv
  <2>1. ExitOk(d)
    BY DEF Falls, WayInv, ExitInv
  <2>2. \A i \in 1..Len(BoxOut(d)) : BoxOut(d)[i] = Encode(Sc(d, Len(Heard(d)) + i))
    BY <1>1, <2>1 DEF ExitOk
  <2>3. HoldOut(d)' = <<Encode(Sc(d, Len(Heard(d)') + 1))>>
    <3>1. 1 \in 1..Len(BoxOut(d))
      BY <1>2
    <3> QED BY <1>2, <2>2, <3>1
  <2>4. ASSUME NEW i \in 1..Len(BoxOut(d)')
        PROVE  BoxOut(d)'[i] = Encode(Sc(d, Len(Heard(d)') + Len(HoldOut(d)') + i))
    <3>1. Len(Heard(d)') + Len(HoldOut(d)') + i = Len(Heard(d)) + (i + 1)
      BY <1>1, <1>2
    <3> QED BY <1>2, <2>2, <3>1
  <2>5. RegOk(d)' => WireOk(d)'
    <3>1. Passed(d)' >= Passed(d)
      BY <1>3, WayNumbers
    <3> QED BY <1>3, <2>1, <3>1, WireKept DEF Falls, ExitOk
  <2>6. Got(d)' <= Passed(d)'
    BY <1>3, <2>1 DEF ExitOk
  <2> QED BY <2>3, <2>4, <2>5, <2>6 DEF ExitOk, Sc
<1> QED BY <1>4, <1>5 DEF WayInv

LEMMA DataTaken ==
  ASSUME TypeInv, TypeInv', NEW d \in Ways, WayInv(d), Falls(d), start' = start, ~start.local, RegOk(d),
         Wire(d) # <<>>, Wire(d)[1].kind = "data", Wire(d)' = Tail(Wire(d)),
         \A i \in 1..Len(Wire(d)) : Wire(d)[i].kind = "open" => i = 1,
         BoxOut(d)' = Append(BoxOut(d), Wire(d)[1].payload), HoldOut(d)' = HoldOut(d),
         HoldIn(d)' = HoldIn(d), BoxIn(d)' = BoxIn(d), Said(d)' = Said(d), Heard(d)' = Heard(d)
  PROVE  WayInv(d)'
<1>1. /\ Wire(d) \in Seq(Frame) /\ BoxOut(d) \in Seq(Item) /\ Len(BoxOut(d)) \in Nat /\ Len(HoldOut(d)) \in Nat
      /\ Len(Heard(d)) \in Nat /\ Passed(d) \in Int /\ Got(d) \in Nat
  BY WayTypes, WayNumbers
<1>2. /\ Len(Wire(d)) \in Nat \ {0} /\ Len(Wire(d)') = Len(Wire(d)) - 1 /\ Wire(d)[1] \in Frame
      /\ \A i \in 1..Len(Wire(d)') : i + 1 \in 1..Len(Wire(d)) /\ Wire(d)'[i] = Wire(d)[i + 1]
  BY <1>1, HeadTailProperties
<1>3. /\ Len(BoxOut(d)') = Len(BoxOut(d)) + 1 /\ BoxOut(d)'[Len(BoxOut(d)) + 1] = Wire(d)[1].payload
      /\ \A i \in 1..Len(BoxOut(d)) : BoxOut(d)'[i] = BoxOut(d)[i]
  BY <1>1, <1>2, FrameTypes, AppendProperties
<1>4. Opens(d) = 0 /\ Opens(d)' = 0
  <2>1. Wire(d)' # <<>> => 1 \in 1..Len(Wire(d)')
    BY WayNext
  <2>2. Wire(d)' # <<>> => Wire(d)'[1].kind # "open"
    BY <1>2, <2>1
  <2> QED BY <2>2 DEF Opens
<1>5. Passed(d)' = Passed(d) /\ Got(d)' = Got(d) + 1
  BY <1>1, <1>3 DEF Passed, Got
<1>6. EndsInv(d)' /\ EntryInv(d)' /\ LocalInv(d)'
  BY <1>5 DEF WayInv, EndsInv, EntryInv, LocalInv, Sc
<1>7. ExitInv(d)'
  <2> SUFFICES ASSUME FarOk(d)', Flowing(Out(d), d)' PROVE ExitOk(d)'
    BY DEF ExitInv
  <2>1. ExitOk(d) /\ WireOk(d)
    BY DEF Falls, WayInv, ExitInv, ExitOk
  <2>2. Wire(d)[1].payload = Encode(Sc(d, Got(d) + 1)) /\ Got(d) + 1 <= Passed(d)
    <3>1. 1 \in 1..Len(Wire(d)) /\ Got(d) + 1 - 0 = Got(d) + 1
      BY <1>1, <1>2
    <3> QED BY <1>4, <2>1, <3>1 DEF WireOk
  <2>3. ASSUME NEW i \in 1..Len(BoxOut(d)')
        PROVE  BoxOut(d)'[i] = Encode(Sc(d, Len(Heard(d)') + Len(HoldOut(d)') + i))
    <3>1. CASE i \in 1..Len(BoxOut(d))
      BY <1>3, <2>1, <3>1 DEF ExitOk
    <3>2. CASE i = Len(BoxOut(d)) + 1
      <4>1. Len(Heard(d)') + Len(HoldOut(d)') + i = Got(d) + 1
        BY <1>1, <3>2 DEF Got
      <4> QED BY <1>3, <2>2, <3>2, <4>1
    <3> QED BY <1>1, <1>3, <3>1, <3>2
  <2>4. WireOk(d)'
    <3>1. ASSUME NEW i \in 1..Len(Wire(d)'), Wire(d)'[i].kind = "data"
          PROVE  /\ Wire(d)'[i].payload = Encode(Sc(d, Got(d)' + i - Opens(d)'))
                 /\ Got(d)' + i - Opens(d)' <= Passed(d)'
      <4>1. Got(d)' + i - Opens(d)' = Got(d) + (i + 1) - Opens(d)
        BY <1>1, <1>2, <1>4, <1>5
      <4> QED BY <1>2, <1>5, <2>1, <3>1, <4>1 DEF WireOk
    <3>2. up' /\ Flowing(In(d), d)' => Got(d)' + Len(Wire(d)') - Opens(d)' = Passed(d)'
      BY <1>1, <1>2, <1>4, <1>5, <2>1 DEF WireOk, Falls
    <3> QED BY <3>1, <3>2 DEF WireOk, Sc
  <2>5. Got(d)' <= Passed(d)'
    BY <1>5, <2>2
  <2>6. HoldOut(d)' # <<>> => HoldOut(d)' = <<Encode(Sc(d, Len(Heard(d)') + 1))>>
    BY <2>1 DEF ExitOk
  <2> QED BY <2>3, <2>4, <2>5, <2>6 DEF ExitOk, Sc
<1> QED BY <1>6, <1>7 DEF WayInv

LEMMA ForwardIn ==
  ASSUME TypeInv, TypeInv', NEW d \in Ways, WayInv(d), Falls(d), start' = start, ~start.local,
         Flowing(In(d), d), HoldIn(d) # <<>>, HoldIn(d)' = <<>>, BoxIn(d)' = BoxIn(d), Said(d)' = Said(d),
         Stays(d), up' = up,
         Wire(d)' = IF up THEN Append(Wire(d), [kind |-> "data", payload |-> Encode(HoldIn(d)[1])]) ELSE Wire(d)
  PROVE  WayInv(d)'
<1>1. /\ Len(Said(d)) \in Nat /\ Len(BoxIn(d)) \in Nat /\ Len(Heard(d)) \in Nat /\ Got(d) \in Nat
      /\ Wire(d) \in Seq(Frame) /\ Len(Wire(d)) \in Nat /\ HoldIn(d) \in Seq(Item) /\ Opens(d) \in {0, 1}
  BY WayTypes, WayNumbers
<1>2. HoldIn(d) = <<Sc(d, Len(Said(d)) - Len(BoxIn(d)))>> /\ Len(HoldIn(d)) = 1 /\ Len(HoldIn(d)') = 0
  BY DEF WayInv, EntryInv
<1>3. Passed(d)' = Passed(d) + 1 /\ Passed(d) \in Int /\ Len(Said(d)) - Len(BoxIn(d)) = Passed(d) + 1
  BY <1>1, <1>2 DEF Passed
<1>4. HoldIn(d)[1] = Sc(d, Passed(d) + 1) /\ HoldIn(d)[1] \in Item
  BY <1>1, <1>2, <1>3
<1>5. EndsInv(d)' /\ EntryInv(d)' /\ LocalInv(d)'
  <2>1. EndsInv(d)'
    BY <1>1, <1>3 DEF WayInv, EndsInv, Sc, Stays
  <2> QED BY <2>1 DEF WayInv, EntryInv, LocalInv, Sc
<1>6. ASSUME ExitOk(d), RegOk(d)' PROVE WireOk(d)'
  <2>1. WireOk(d) /\ Got(d)' = Got(d)
    BY <1>6 DEF ExitOk, Falls, Got, Stays
  <2>2. CASE ~up
    BY <1>3, <2>1, <2>2, WireKept
  <2>3. CASE up
    <3> DEFINE f == [kind |-> "data", payload |-> Encode(HoldIn(d)[1])]
    <3>1. f \in Frame /\ f.kind = "data" /\ f.payload = Encode(Sc(d, Passed(d) + 1))
      BY <1>4, Coding, FrameTypes DEF Item
    <3>2. Wire(d)' = Append(Wire(d), f)
      BY <2>3
    <3> HIDE DEF f
    <3>3. /\ Len(Wire(d)') = Len(Wire(d)) + 1 /\ Wire(d)'[Len(Wire(d)) + 1] = f
          /\ \A i \in 1..Len(Wire(d)) : Wire(d)'[i] = Wire(d)[i]
      BY <1>1, <3>1, <3>2, AppendProperties
    <3>4. Opens(d)' = Opens(d)
      <4>1. CASE Wire(d) = <<>>
        BY <3>1, <3>3, <4>1 DEF Opens
      <4>2. CASE Wire(d) # <<>>
        <5>1. 1 \in 1..Len(Wire(d)) /\ Wire(d)' # <<>>
          BY <1>1, <3>3, <4>2
        <5> QED BY <3>3, <4>2, <5>1 DEF Opens
      <4> QED BY <4>1, <4>2
    <3>5. Got(d) + Len(Wire(d)) - Opens(d) = Passed(d)
      BY <2>1, <2>3 DEF WireOk
    <3>6. ASSUME NEW i \in 1..Len(Wire(d)'), Wire(d)'[i].kind = "data"
          PROVE  /\ Wire(d)'[i].payload = Encode(Sc(d, Got(d)' + i - Opens(d)'))
                 /\ Got(d)' + i - Opens(d)' <= Passed(d)'
      <4>1. CASE i \in 1..Len(Wire(d))
        <5>1. /\ Wire(d)[i].payload = Encode(Sc(d, Got(d) + i - Opens(d)))
              /\ Got(d) + i - Opens(d) <= Passed(d)
          BY <2>1, <3>3, <3>6, <4>1 DEF WireOk
        <5> QED BY <1>1, <1>3, <2>1, <3>3, <3>4, <4>1, <5>1
      <4>2. CASE i = Len(Wire(d)) + 1
        <5>1. Got(d)' + i - Opens(d)' = Passed(d) + 1
          BY <1>1, <2>1, <3>4, <3>5, <4>2
        <5> QED BY <1>3, <3>1, <3>3, <4>2, <5>1
      <4> QED BY <1>1, <3>3, <4>1, <4>2
    <3>7. Got(d)' + Len(Wire(d)') - Opens(d)' = Passed(d)'
      <4>1. Got(d) + (Len(Wire(d)) + 1) - Opens(d) = Passed(d) + 1
        <5>1. Got(d) \in Int /\ Len(Wire(d)) \in Int /\ Opens(d) \in Int
          BY <1>1
        <5> QED BY <3>5, <5>1
      <4> QED BY <1>3, <2>1, <3>3, <3>4, <4>1
    <3> QED BY <3>6, <3>7 DEF WireOk, Sc
  <2> QED BY <2>2, <2>3
<1>7. Passed(d)' >= Passed(d)
  BY <1>3
<1>8. ExitInv(d)'
  BY <1>6, <1>7, ExitKept
<1> QED BY <1>5, <1>8 DEF WayInv

\* The end hears the next message it was sent.
LEMMA HeardNext ==
  ASSUME TypeInv, TypeInv', NEW d \in Ways, EndsInv(d), Said(d)' = Said(d), Len(Heard(d)) + 1 <= Passed(d)',
         Heard(d)' = Append(Heard(d), Sc(d, Len(Heard(d)) + 1)), Passed(d)' <= Len(Said(d))
  PROVE  EndsInv(d)' /\ Len(Heard(d)') = Len(Heard(d)) + 1 /\ Sc(d, Len(Heard(d)) + 1) \in Message
<1>1. /\ Heard(d) \in Seq(Item) /\ Len(Heard(d)) \in Nat /\ Len(Said(d)) \in Nat /\ Passed(d)' \in Int
      /\ Len(Script[Source(d)]) \in Nat /\ Script[Source(d)] \in Seq(Message)
  BY WayTypes, WayNumbers, WayNext
<1>2. Len(Heard(d)) + 1 \in 1..Len(Script[Source(d)])
  BY <1>1 DEF EndsInv
<1>3. Sc(d, Len(Heard(d)) + 1) \in Message
  BY <1>1, <1>2, ElementOfSeq DEF Sc
<1>4. /\ Len(Heard(d)') = Len(Heard(d)) + 1 /\ Heard(d)'[Len(Heard(d)) + 1] = Sc(d, Len(Heard(d)) + 1)
      /\ \A i \in 1..Len(Heard(d)) : Heard(d)'[i] = Heard(d)[i]
  BY <1>1, <1>3, AppendProperties DEF Item
<1>5. ASSUME NEW i \in 1..Len(Heard(d)') PROVE Heard(d)'[i] = Sc(d, i)
  <2>1. i \in 1..Len(Heard(d)) \/ i = Len(Heard(d)) + 1
    BY <1>1, <1>4
  <2> QED BY <1>4, <2>1 DEF EndsInv
<1>6. EndsInv(d)'
  BY <1>4, <1>5 DEF EndsInv, Sc
<1> QED BY <1>3, <1>4, <1>6

LEMMA ForwardOut ==
  ASSUME TypeInv, TypeInv', NEW d \in Ways, WayInv(d), Falls(d), start' = start, ~start.local,
         Flowing(Out(d), d), ~Pending(Out(d)), HoldOut(d) # <<>>, HoldOut(d)' = <<>>, BoxOut(d)' = BoxOut(d),
         Said(d)' = Said(d), BoxIn(d)' = BoxIn(d), HoldIn(d)' = HoldIn(d), Wire(d)' = Wire(d), open' = open,
         pc' = pc,
         Heard(d)' = IF FarEnd(d) \in open THEN Append(Heard(d), Decode(HoldOut(d)[1])) ELSE Heard(d)
  PROVE  WayInv(d)'
<1>1. Passed(d)' = Passed(d)
  BY DEF Passed
<1>2. EntryInv(d)' /\ LocalInv(d)'
  BY DEF WayInv, EntryInv, LocalInv, Sc
<1>3. CASE FarEnd(d) \notin open
  <2>1. EndsInv(d)'
    BY <1>1, <1>3 DEF WayInv, EndsInv, Sc
  <2>2. ~FarOk(d)
    BY <1>3 DEF FarOk
  <2>3. ExitInv(d)'
    BY <2>2 DEF Falls, ExitInv
  <2> QED BY <1>2, <2>1, <2>3 DEF WayInv
<1>4. CASE FarEnd(d) \in open
  <2>1. ExitOk(d)
    BY <1>4 DEF FarOk, WayInv, ExitInv
  <2>2. /\ Len(Heard(d)) \in Nat /\ Len(BoxOut(d)) \in Nat /\ Len(HoldOut(d)) = 1 /\ Len(HoldOut(d)') = 0
        /\ Passed(d) \in Int /\ Len(Said(d)) \in Nat /\ Len(BoxIn(d)) \in Nat /\ Len(HoldIn(d)) \in Nat
        /\ Len(Script[Source(d)]) \in Nat /\ Script[Source(d)] \in Seq(Message)
    BY <2>1, WayNumbers, WayTypes DEF ExitOk
  <2>3. Len(Heard(d)) + 1 <= Passed(d) /\ Passed(d) <= Len(Said(d)) /\ Len(Said(d)) <= Len(Script[Source(d)])
    BY <2>1, <2>2 DEF ExitOk, Got, Passed, WayInv, EndsInv
  <2>4. Sc(d, Len(Heard(d)) + 1) \in Message
    <3>1. Len(Heard(d)) + 1 \in 1..Len(Script[Source(d)])
      BY <2>2, <2>3
    <3> QED BY <2>2, <3>1, ElementOfSeq DEF Sc
  <2>5. Heard(d)' = Append(Heard(d), Sc(d, Len(Heard(d)) + 1))
    <3>1. HoldOut(d)[1] = Encode(Sc(d, Len(Heard(d)) + 1))
      BY <2>1 DEF ExitOk
    <3> QED BY <1>4, <2>4, <3>1, Coding
  <2>6. EndsInv(d)' /\ Len(Heard(d)') = Len(Heard(d)) + 1
    BY <1>1, <2>3, <2>5, HeardNext DEF WayInv
  <2>7. Got(d)' = Got(d)
    BY <2>2, <2>6 DEF Got
  <2>8. RegOk(d)' => WireOk(d)'
    <3>1. Passed(d)' >= Passed(d)
      BY <1>1, <2>2
    <3> QED BY <1>1, <2>1, <2>7, <3>1, WireKept DEF Falls, ExitOk
  <2>9. ASSUME NEW i \in 1..Len(BoxOut(d)')
        PROVE  BoxOut(d)'[i] = Encode(Sc(d, Len(Heard(d)') + Len(HoldOut(d)') + i))
    <3>1. Len(Heard(d)') + Len(HoldOut(d)') + i = Len(Heard(d)) + Len(HoldOut(d)) + i
      BY <2>2, <2>6
    <3> QED BY <2>1, <3>1 DEF ExitOk
  <2>10. ExitOk(d)'
    BY <1>1, <2>1, <2>7, <2>8, <2>9 DEF ExitOk, Sc
  <2> QED BY <1>2, <2>6, <2>10 DEF WayInv, ExitInv
<1> QED BY <1>3, <1>4

LEMMA ForwardLocal ==
  ASSUME TypeInv, TypeInv', NEW d \in Ways, WayInv(d), Falls(d), start' = start, start.local,
         Flowing("local", d), ~Pending("local"), HoldIn(d) # <<>>, HoldIn(d)' = <<>>, BoxIn(d)' = BoxIn(d),
         Said(d)' = Said(d), open' = open, pc' = pc,
         Heard(d)' = IF FarEnd(d) \in open THEN Append(Heard(d), HoldIn(d)[1]) ELSE Heard(d)
  PROVE  WayInv(d)'
<1>1. /\ Len(Said(d)) \in Nat /\ Len(BoxIn(d)) \in Nat /\ Len(Heard(d)) \in Nat
      /\ HoldIn(d) = <<Sc(d, Len(Said(d)) - Len(BoxIn(d)))>> /\ Len(HoldIn(d)) = 1 /\ Len(HoldIn(d)') = 0
  BY WayNumbers DEF WayInv, EntryInv
<1>2. /\ Passed(d)' = Passed(d) + 1 /\ Passed(d) \in Int /\ Len(Said(d)) - Len(BoxIn(d)) = Passed(d) + 1
      /\ Passed(d)' <= Len(Said(d))
  BY <1>1 DEF Passed
<1>3. EntryInv(d)' /\ ExitInv(d)'
  BY DEF WayInv, EntryInv, ExitInv, Sc
<1>4. CASE FarEnd(d) \notin open
  <2>1. EndsInv(d)'
    BY <1>1, <1>2, <1>4 DEF WayInv, EndsInv, Sc
  <2>2. ~FarOk(d)'
    BY <1>4 DEF FarOk, Out, Pending
  <2> QED BY <1>3, <2>1, <2>2 DEF WayInv, LocalInv
<1>5. CASE FarEnd(d) \in open
  <2>1. Len(Heard(d)) = Passed(d)
    BY <1>5 DEF FarOk, WayInv, LocalInv
  <2>2. Heard(d)' = Append(Heard(d), Sc(d, Len(Heard(d)) + 1))
    BY <1>1, <1>2, <1>5, <2>1
  <2>3. Len(Heard(d)) + 1 <= Passed(d)'
    BY <1>2, <2>1
  <2>4. EndsInv(d)' /\ Len(Heard(d)') = Len(Heard(d)) + 1
    BY <1>2, <2>2, <2>3, HeardNext DEF WayInv
  <2> QED BY <1>2, <1>3, <2>1, <2>4 DEF WayInv, LocalInv
<1> QED BY <1>4, <1>5

-----------------------------------------------------------------------------
(***************************************************************************)
(* Every step keeps the invariant of both ways.                             *)
(***************************************************************************)
LEMMA Views ==
  ASSUME NEW d \in Ways, start' = start
  PROVE  /\ In(d)' = In(d) /\ Out(d)' = Out(d)
         /\ Said(d)' = said'[Source(d)] /\ Heard(d)' = heard'[FarEnd(d)] /\ Wire(d)' = wire'[Far(d)]
         /\ BoxIn(d)' = box'[In(d)][d] /\ BoxOut(d)' = box'[Out(d)][d]
         /\ HoldIn(d)' = hold'[In(d)][d] /\ HoldOut(d)' = hold'[Out(d)][d]
         /\ Flowing(In(d), d)' <=> d \in alive'[In(d)] \/ pc'[In(d)] \in {"idle", "dial", "connect"}
         /\ Flowing(Out(d), d)' <=> d \in alive'[Out(d)] \/ pc'[Out(d)] \in {"idle", "dial", "connect"}
<1>1. In(d)' = In(d) /\ Out(d)' = Out(d)
  BY DEF In, Out, Entry
<1> QED BY <1>1 DEF Said, Heard, Wire, BoxIn, BoxOut, HoldIn, HoldOut, Flowing, Pending

LEMMA Untouched ==
  ASSUME NEW d \in Ways, start' = start, UNCHANGED <<said, heard, box, hold>>
  PROVE  Left(d) /\ Stays(d) /\ Passed(d)' = Passed(d) /\ Got(d)' = Got(d)
<1>1. /\ Said(d)' = Said(d) /\ Heard(d)' = Heard(d) /\ BoxIn(d)' = BoxIn(d) /\ BoxOut(d)' = BoxOut(d)
      /\ HoldIn(d)' = HoldIn(d) /\ HoldOut(d)' = HoldOut(d)
  BY Views DEF Said, Heard, BoxIn, BoxOut, HoldIn, HoldOut
<1> QED BY <1>1 DEF Left, Stays, Passed, Got

\* All that the step lemmas below assume.
Before(d) == StateInv /\ StateInv' /\ Next /\ WayInv(d)
LEMMA Basis ==
  ASSUME NEW d \in Ways, Before(d)
  PROVE  /\ TypeInv /\ TypeInv' /\ start' = start /\ Falls(d) /\ WayInv(d) /\ start.local \in BOOLEAN
         /\ wire \in [Sides -> Seq(Frame)] /\ pc \in [Bridges -> Places] /\ alive \in [Bridges -> SUBSET Ways]
         /\ box \in [Bridges -> [Ways -> Seq(Item)]] /\ hold \in [Bridges -> [Ways -> Seq(Item)]]
         /\ said \in [Ends -> Seq(Item)] /\ heard \in [Ends -> Seq(Item)]
BY FallsStep, WayTypes DEF Before, StateInv, TypeInv, TasksType, TunnelType, EndsType

LEMMA WaySay ==
  ASSUME NEW d \in Ways, Before(d), NEW e \in Ends, Say(e) \/ Leave(e)
  PROVE  WayInv(d)'
<1>1. CASE Leave(e)
  <2>1. UNCHANGED <<said, heard, box, hold, wire>>
    BY <1>1 DEF Leave, EndStep, tunnel
  <2> QED BY <2>1, Basis, Untouched, LeftKept, Views DEF Wire
<1>2. CASE Say(e) /\ Source(d) # e
  <2>1. Way(e) # d /\ UNCHANGED <<heard, hold, wire>>
    BY <1>2, Basis, WayNames DEF Say, EndStep, tunnel
  <2>2. said'[Source(d)] = said[Source(d)] /\ \A b \in Bridges : box'[b][d] = box[b][d]
    <3>1. Source(d) \in Ends /\ Entry(e) \in Bridges /\ Way(e) \in Ways
      BY Basis, WayNames, Names
    <3>2. said'[Source(d)] = said[Source(d)]
      BY <1>2, <3>1, Basis DEF Say
    <3>3. ASSUME NEW b \in Bridges PROVE box'[b][d] = box[b][d]
      BY <1>2, <2>1, <3>1, Basis DEF Say
    <3> QED BY <3>2, <3>3
  <2>3. Left(d) /\ Wire(d)' = Wire(d)
    BY <2>1, <2>2, Basis, Views, WayNames DEF Left, Said, Heard, BoxIn, BoxOut, HoldIn, HoldOut, Wire
  <2> QED BY <2>3, Basis, LeftKept
<1>3. CASE Say(e) /\ Source(d) = e
  <2>1. Way(e) = d /\ UNCHANGED <<heard, hold, wire>> /\ Entry(e) = In(d) /\ In(d) \in Bridges
    BY <1>3, Basis, WayNames DEF Say, EndStep, tunnel, In
  <2>2. /\ Len(said[e]) < Len(Script[e])
        /\ said'[e] = Append(said[e], Script[e][Len(said[e]) + 1])
        /\ box'[In(d)][d] = Append(box[In(d)][d], Script[e][Len(said[e]) + 1])
        /\ \A b \in Bridges : b # In(d) => box'[b][d] = box[b][d]
    BY <1>3, <2>1, Basis DEF Say
  <2>3. /\ Said(d)' = Append(Said(d), Sc(d, Len(Said(d)) + 1))
        /\ BoxIn(d)' = Append(BoxIn(d), Sc(d, Len(Said(d)) + 1))
        /\ Len(Said(d)) < Len(Script[Source(d)])
    BY <1>3, <2>2, Basis, Views DEF Said, BoxIn, Sc
  <2>4. HoldIn(d)' = HoldIn(d) /\ HoldOut(d)' = HoldOut(d) /\ Heard(d)' = Heard(d) /\ Wire(d)' = Wire(d)
    BY <2>1, Basis, Views DEF HoldIn, HoldOut, Heard, Wire
  <2>5. ~start.local => Stays(d)
    BY <2>2, <2>4, Basis, Views, WayNames DEF Stays, BoxOut
  <2> QED BY <2>3, <2>4, <2>5, Basis, SayMoves
<1> QED BY <1>1, <1>2, <1>3

LEMMA WayOpen ==
  ASSUME NEW d \in Ways, Before(d), OnWsOpen
  PROVE  WayInv(d)'
<1>1. UNCHANGED <<said, heard, box, hold, up>> /\ wire' = [wire EXCEPT !["agent"] = Tail(@)]
  BY DEF OnWsOpen, TunnelStep, ends, Take
<1>2. Left(d) /\ Stays(d) /\ Passed(d)' = Passed(d) /\ Got(d)' = Got(d)
  BY <1>1, Basis, Untouched
<1>3. CASE Far(d) # "agent"
  <2>1. Wire(d)' = Wire(d)
    BY <1>1, <1>3, Basis, Views, WayNames DEF Wire
  <2> QED BY <1>2, <2>1, Basis, LeftKept
<1>4. CASE Far(d) = "agent"
  <2>1. Wire(d) = wire["agent"] /\ Wire(d)' = Tail(Wire(d)) /\ Wire(d) # <<>>
    BY <1>1, <1>4, Basis, Views, Names DEF Wire, OnWsOpen, Take
  <2>2. Wire(d)[1].kind = "open" /\ \A i \in 1..Len(Wire(d)) : Wire(d)[i].kind = "open" => i = 1
    <3>1. Wire(d)[1].kind = "open"
      BY <2>1, Basis, WayTypes DEF OnWsOpen, Take
    <3> QED BY <2>1, <3>1, Names DEF Before, StateInv, WiresInv, WireInv
  <2>3. ASSUME ExitOk(d), RegOk(d)' PROVE WireOk(d)'
    <3>1. WireOk(d)
      BY <2>3, Basis DEF ExitOk, Falls
    <3>2. up' /\ Flowing(In(d), d)' => up /\ Flowing(In(d), d)
      BY Basis DEF Falls
    <3> QED BY <1>2, <2>1, <2>2, <3>1, <3>2, Basis, OpenTaken
  <2> QED BY <1>2, <2>3, Basis, LeftKept
<1> QED BY <1>3, <1>4

LEMMA WayLose ==
  ASSUME NEW d \in Ways, Before(d), Lose
  PROVE  WayInv(d)'
<1>1. UNCHANGED <<said, heard, box, hold>> /\ wire' = [s \in Sides |-> <<>>] /\ up' = FALSE
  BY DEF Lose, ends, tasks
<1>2. Left(d)
  BY <1>1, Basis, Untouched
<1>3. Wire(d)' = <<>>
  BY <1>1, Basis, Views, WayNames
<1>4. WireOk(d)'
  BY <1>1, <1>3, NothingLeft
<1> QED BY <1>2, <1>4, Basis, LeftKept

LEMMA WayTearDown ==
  ASSUME NEW d \in Ways, Before(d), NEW s \in Sides, TearDown(s)
  PROVE  WayInv(d)'
<1>1. UNCHANGED <<said, heard, box, hold, wire>>
  BY DEF TearDown, TunnelStep, ends
<1> QED BY <1>1, Basis, Untouched, LeftKept, Views DEF Wire

\* Frames arrive at the wire's far side.
LEMMA WireEnds ==
  ASSUME NEW d \in Ways, Before(d), Wire(d) # <<>>
  PROVE  /\ ~start.local /\ In(d) = Other(Far(d)) /\ Out(d) = Far(d) /\ 1 \in 1..Len(Wire(d))
         /\ Head(Wire(d)) = Wire(d)[1]
         /\ \A i \in 1..Len(Wire(d)) : Wire(d)[i].kind = "open" => i = 1
         /\ Wire(d)[1].kind = "close" => (Wire(d)' = Tail(Wire(d)) => Wire(d)' = <<>>)
         /\ Wire(d)[1].kind = "close" => ~Flowing(In(d), d)'
         /\ Wire(d)[1].kind # "open" /\ RegOk(d) => Far(d) \in reg
<1>1. Wire(d) \in Seq(Frame) /\ Far(d) \in Sides /\ Wire(d) = wire[Far(d)]
  BY Basis, WayTypes, WayNames DEF Wire
<1>2. ~start.local
  BY <1>1, Basis DEF Before, StateInv, PlaceInv, OrderInv
<1>3. In(d) = Other(Far(d)) /\ Out(d) = Far(d) /\ In(d) \in Sides
  <2>1. start.local \in BOOLEAN
    BY Basis
  <2>2. In(d) = Other(Far(d)) /\ Out(d) = Far(d)
    BY <1>2, <2>1, WayNames
  <2> QED BY <1>1, <2>2, Names
<1>4. 1 \in 1..Len(Wire(d)) /\ Head(Wire(d)) = Wire(d)[1]
  BY <1>1
<1>5. WireInv(Far(d))
  BY <1>1 DEF Before, StateInv, WiresInv
<1>6. \A i \in 1..Len(Wire(d)) : Wire(d)[i].kind = "open" => i = 1
  BY <1>1, <1>5 DEF WireInv
<1>7. ASSUME Wire(d)[1].kind = "close"
      PROVE  (Wire(d)' = Tail(Wire(d)) => Wire(d)' = <<>>) /\ ~Flowing(In(d), d)'
  <2>1. 1 = Len(Wire(d)) /\ Leaving(In(d))
    BY <1>1, <1>3, <1>4, <1>5, <1>7 DEF WireInv
  <2>2. Tail(Wire(d)) = <<>>
    <3>1. Wire(d) # <<>> /\ Tail(Wire(d)) \in Seq(Frame) /\ Len(Tail(Wire(d))) = 0
      BY <1>1, <2>1, HeadTailProperties
    <3> QED BY <3>1, EmptySeq
  <2>3. pc[In(d)] \in {"remove", "done"}
    BY <1>3, <2>1, Names DEF Leaving
  <2>4. ~Flowing(In(d), d)
    BY <1>3, <2>3, Basis, Names DEF Flowing, Pending, Before, StateInv, TaskInv
  <2> QED BY <2>2, <2>4, Basis DEF Falls
<1>8. Wire(d)[1].kind # "open" /\ RegOk(d) => Far(d) \in reg
  BY <1>1, Names DEF RegOk, Far, Before, StateInv, OrderInv
<1> QED BY <1>2, <1>3, <1>4, <1>6, <1>7, <1>8

LEMMA WayArrives ==
  ASSUME NEW d \in Ways, Before(d), NEW s \in Sides, OnData(s) \/ OnClose(s)
  PROVE  WayInv(d)'
<1>1. /\ UNCHANGED <<said, heard, hold, up, reg, pc>> /\ wire[s] # <<>> /\ wire' = [wire EXCEPT ![s] = Tail(@)]
      /\ OnClose(s) \/ s \notin reg => box' = box
  BY DEF OnData, OnClose, TunnelStep, ends, Take
<1>2. CASE s # Far(d)
  <2>1. Reader(s) # d /\ Reader(s) \in Ways /\ s \in Bridges
    <3>1. start.local \in BOOLEAN
      BY Basis
    <3>2. Reader(s) # d
      BY <1>2, <3>1, WayNames
    <3> QED BY <3>2, Names
  <2>2. ASSUME NEW b \in Bridges PROVE box'[b][d] = box[b][d]
    <3>1. box' = box \/ box' = [box EXCEPT ![s][Reader(s)] = Append(@, Head(wire[s]).payload)]
      BY DEF OnData, OnClose
    <3>2. box \in [Bridges -> [Ways -> Seq(Item)]]
      BY Basis
    <3> QED BY <2>1, <3>1, <3>2
  <2>3. Left(d) /\ Wire(d)' = Wire(d)
    BY <1>1, <1>2, <2>2, Basis, Views, WayNames DEF Left, Said, Heard, BoxIn, BoxOut, HoldIn, HoldOut, Wire
  <2> QED BY <2>3, Basis, LeftKept
<1>3. CASE s = Far(d)
  <2>1. Wire(d) = wire[s] /\ Wire(d)' = Tail(Wire(d)) /\ Wire(d) # <<>>
    BY <1>1, <1>3, Basis, Views DEF Wire
  <2>2. CASE OnClose(s)
    <3>1. Wire(d)[1].kind = "close"
      BY <2>1, <2>2, WireEnds DEF OnClose, Take
    <3>2. Wire(d)' = <<>> /\ ~Flowing(In(d), d)'
      BY <2>1, <3>1, WireEnds
    <3>3. WireOk(d)'
      BY <3>2, NothingLeft
    <3> QED BY <1>1, <2>2, <3>3, Basis, Untouched, LeftKept
  <2>3. CASE OnData(s) /\ s \notin reg
    <3>1. Wire(d)[1].kind = "data"
      BY <2>1, <2>3, WireEnds DEF OnData, Take
    <3>2. ~RegOk(d)
      BY <1>3, <2>1, <2>3, <3>1, WireEnds
    <3>3. ~RegOk(d)'
      BY <3>2, Basis DEF Falls
    <3> QED BY <1>1, <2>3, <3>3, Basis, Untouched, LeftKept
  <2>4. CASE OnData(s) /\ s \in reg
    <3>1. Wire(d)[1].kind = "data" /\ Head(wire[s]) = Wire(d)[1] /\ ~start.local /\ Out(d) = s /\ In(d) # s
      BY <1>3, <2>1, <2>4, WireEnds, Basis, WayNames DEF OnData, Take
    <3>2. Reader(s) = d /\ In(d) \in Bridges /\ s \in Bridges
      BY <1>3, Basis, WayNames, Names
    <3>3. box'[s][d] = Append(box[s][d], Wire(d)[1].payload) /\ box'[In(d)][d] = box[In(d)][d]
      BY <2>4, <3>1, <3>2, Basis DEF OnData
    <3>4. BoxOut(d)' = Append(BoxOut(d), Wire(d)[1].payload) /\ BoxIn(d)' = BoxIn(d)
      BY <3>1, <3>3, Basis, Views DEF BoxIn, BoxOut
    <3>5. HoldIn(d)' = HoldIn(d) /\ HoldOut(d)' = HoldOut(d) /\ Heard(d)' = Heard(d) /\ Said(d)' = Said(d)
      BY <1>1, Basis, Views DEF HoldIn, HoldOut, Heard, Said
    <3>6. RegOk(d)
      BY <1>3, <2>4 DEF RegOk
    <3>7. \A i \in 1..Len(Wire(d)) : Wire(d)[i].kind = "open" => i = 1
      BY <2>1, WireEnds
    <3> QED BY <2>1, <3>1, <3>4, <3>5, <3>6, <3>7, Basis, DataTaken
  <2> QED BY <2>2, <2>3, <2>4
<1> QED BY <1>2, <1>3

LEMMA WayStart ==
  ASSUME NEW d \in Ways, Before(d), NEW b \in Bridges, Visit \/ Dial \/ Connect(b)
  PROVE  WayInv(d)'
<1>1. UNCHANGED <<said, heard, box, hold, up>>
  BY DEF Visit, Dial, Connect, StartStep
<1>2. Left(d) /\ Stays(d) /\ Passed(d)' = Passed(d) /\ Got(d)' = Got(d)
  BY <1>1, Basis, Untouched
<1>3. CASE Wire(d)' = Wire(d)
  BY <1>2, <1>3, Basis, LeftKept
<1>4. CASE Wire(d)' # Wire(d)
  <2>1. wire' # wire
    BY <1>4, Basis, Views DEF Wire
  <2>2. Dial /\ pc["relay"] = "dial" /\ wire' = [wire EXCEPT !["agent"] = Append(@, [kind |-> "open"])]
    BY <2>1 DEF Visit, Dial, Connect, Send
  <2>3. Far(d) = "agent" /\ Wire(d) = <<>>
    <3>1. Far(d) \in Sides /\ Wire(d) = wire[Far(d)] /\ Wire(d)' = wire'[Far(d)]
      BY Basis, WayNames, Views DEF Wire
    <3>2. Far(d) = "agent"
      BY <1>4, <2>2, <3>1, Basis, Names
    <3> QED BY <2>2, <3>1, <3>2, Names DEF Before, StateInv, OrderInv
  <2>4. Wire(d)' = <<[kind |-> "open"]>>
    <3>1. Wire(d)' = Append(wire["agent"], [kind |-> "open"]) /\ wire["agent"] = <<>>
      BY <2>2, <2>3, Basis, Views, Names DEF Wire
    <3> QED BY <3>1
  <2>5. ASSUME ExitOk(d), RegOk(d)' PROVE WireOk(d)'
    <3>1. WireOk(d)
      BY <2>5, Basis DEF ExitOk, Falls
    <3>2. up' /\ Flowing(In(d), d)' => up /\ Flowing(In(d), d)
      BY Basis DEF Falls
    <3> QED BY <1>2, <2>3, <2>4, <3>1, <3>2, Basis, OpenSent
  <2> QED BY <1>2, <2>5, Basis, LeftKept
<1> QED BY <1>3, <1>4

\* A bridge that is cancelled drops what it holds and passes nothing on any more.
LEMMA WayCancel ==
  ASSUME NEW d \in Ways, Before(d), NEW b \in Bridges, Cancel(b)
  PROVE  WayInv(d)'
<1>1. /\ UNCHANGED <<said, heard, box, wire>> /\ hold' = [hold EXCEPT ![b] = [x \in Ways |-> <<>>]]
      /\ alive' = [alive EXCEPT ![b] = {}]
  BY DEF Cancel, EndingStep
<1>2. PICK p \in {"bye", "remove"} : pc' = [pc EXCEPT ![b] = p]
  BY Names DEF Cancel, Goto
<1>3. /\ alive'[b] = {} /\ pc'[b] \in {"bye", "remove"} /\ hold'[b][d] = <<>>
      /\ \A x \in Bridges : x # b => hold'[x][d] = hold[x][d]
  BY <1>1, <1>2, Basis
<1>4. In(d) \in Bridges /\ Out(d) \in Bridges
  BY Basis, WayNames
<1>5. /\ Said(d)' = Said(d) /\ Heard(d)' = Heard(d) /\ BoxIn(d)' = BoxIn(d) /\ BoxOut(d)' = BoxOut(d)
      /\ Wire(d)' = Wire(d)
  BY <1>1, Basis, Views DEF Said, Heard, BoxIn, BoxOut, Wire
<1>6. HoldIn(d)' = HoldIn(d) \/ (HoldIn(d)' = <<>> /\ ~Flowing(In(d), d)')
  <2>1. CASE In(d) = b
    BY <1>3, <2>1, Basis, Views
  <2>2. CASE In(d) # b
    BY <1>3, <1>4, <2>2, Basis, Views DEF HoldIn
  <2> QED BY <2>1, <2>2
<1>7. HoldOut(d)' = HoldOut(d) \/ (HoldOut(d)' = <<>> /\ ~Flowing(Out(d), d)')
  <2>1. CASE Out(d) = b
    BY <1>3, <2>1, Basis, Views
  <2>2. CASE Out(d) # b
    BY <1>3, <1>4, <2>2, Basis, Views DEF HoldOut
  <2> QED BY <2>1, <2>2
<1>8. Left(d)
  BY <1>5, <1>6, <1>7 DEF Left
<1> QED BY <1>5, <1>8, Basis, LeftKept

LEMMA WayEnding ==
  ASSUME NEW d \in Ways, Before(d), NEW b \in Bridges, RemoveStream(b) \/ Bye(b)
  PROVE  WayInv(d)'
<1>1. UNCHANGED <<said, heard, box, hold, up>>
  BY DEF RemoveStream, Bye, EndingStep
<1>2. Left(d) /\ Stays(d) /\ Passed(d)' = Passed(d) /\ Got(d)' = Got(d)
  BY <1>1, Basis, Untouched
<1>3. CASE Wire(d)' = Wire(d)
  BY <1>2, <1>3, Basis, LeftKept
<1>4. CASE Wire(d)' # Wire(d)
  <2>1. wire' # wire
    BY <1>4, Basis, Views DEF Wire
  <2>2. Bye(b) /\ pc[b] = "bye" /\ wire' = [wire EXCEPT ![Other(b)] = Append(@, [kind |-> "close"])]
    BY <2>1 DEF RemoveStream, Bye, Send
  <2>3. Far(d) = Other(b)
    BY <1>4, <2>2, Basis, Views, WayNames DEF Wire
  <2> DEFINE f == [kind |-> "close"]
  <2>4. Wire(d)' = Append(Wire(d), f) /\ f \in Frame /\ f.kind = "close"
    BY <2>2, <2>3, Basis, Views, WayNames, FrameTypes DEF Wire
  <2>5. ~start.local => In(d) = b
    <3>1. b \in Sides
      BY <2>2, Names DEF Before, StateInv, PlaceInv
    <3>2. Other(Other(b)) = b
      BY <3>1, Names DEF Other
    <3> QED BY <2>3, <3>2, Basis, WayNames
  <2>6. ~start.local => ~Flowing(In(d), d)
    BY <2>2, <2>5 DEF Flowing, Pending, Before, StateInv, TaskInv
  <2>7. ~start.local => ~Flowing(In(d), d)'
    BY <2>6, Basis DEF Falls
  <2> HIDE DEF f
  <2>8. ASSUME ~start.local, ExitOk(d), RegOk(d)' PROVE WireOk(d)'
    <3>1. WireOk(d)
      BY <2>8, Basis DEF ExitOk, Falls
    <3> QED BY <1>2, <2>4, <2>7, <2>8, <3>1, Basis, CloseSent
  <2> QED BY <1>2, <2>8, Basis, LeftKept
<1> QED BY <1>3, <1>4

\* A task of the other way changes nothing here; nor does one of this way that ends.
LEMMA WayOther ==
  ASSUME NEW d \in Ways, Before(d), NEW b \in Bridges, NEW w \in Ways, w # d,
         Receive(b, w) \/ Finish(b, w) \/ Forward(b, w) \/ Raise(b, w)
  PROVE  WayInv(d)'
<1>1. said' = said /\ \A x \in Bridges : box'[x][d] = box[x][d] /\ hold'[x][d] = hold[x][d]
  <2>1. box' = box \/ box' = [box EXCEPT ![b][w] = Tail(@)]
    BY DEF Receive, Finish, Forward, Raise
  <2>2. \E h : hold' = hold \/ hold' = [hold EXCEPT ![b][w] = h]
    BY DEF Receive, Finish, Forward, Raise
  <2>3. ASSUME NEW x \in Bridges PROVE box'[x][d] = box[x][d] /\ hold'[x][d] = hold[x][d]
    <3>0. box \in [Bridges -> [Ways -> Seq(Item)]] /\ hold \in [Bridges -> [Ways -> Seq(Item)]]
      BY Basis
    <3>1. box'[x][d] = box[x][d]
      BY <2>1, <3>0
    <3>2. PICK h : hold' = hold \/ hold' = [hold EXCEPT ![b][w] = h]
      BY <2>2
    <3>3. hold'[x][d] = hold[x][d]
      BY <3>2, <3>0
    <3> QED BY <3>1, <3>3
  <2> QED BY <2>3 DEF Receive, Finish, Forward, Raise, TaskStep
<1>2. heard'[FarEnd(d)] = heard[FarEnd(d)]
  <2>1. FarEnd(w) # FarEnd(d) /\ FarEnd(w) \in Ends /\ FarEnd(d) \in Ends
    BY Names DEF FarEnd
  <2> QED BY <2>1, Basis DEF Receive, Finish, Forward, Raise
<1>3. wire'[Far(d)] = wire[Far(d)]
  <2>1. ToTunnel(b, w) => Other(b) # Far(d) /\ Far(d) \in Sides
    BY Names DEF ToTunnel, Other, Far
  <2>2. wire' = wire \/ (ToTunnel(b, w) /\ \E f : wire' = [wire EXCEPT ![Other(b)] = Append(@, f)])
    BY DEF Receive, Finish, Forward, Raise, Send
  <2> QED BY <2>1, <2>2, Basis
<1>4. Left(d) /\ Wire(d)' = Wire(d)
  BY <1>1, <1>2, <1>3, Basis, Views, WayNames DEF Left, Said, Heard, BoxIn, BoxOut, HoldIn, HoldOut, Wire
<1> QED BY <1>4, Basis, LeftKept

\* What a task of this way does where it runs, and leaves alone elsewhere.
LEMMA TaskViews ==
  ASSUME NEW d \in Ways, Before(d), NEW b \in Bridges,
         Receive(b, d) \/ Finish(b, d) \/ Forward(b, d) \/ Raise(b, d)
  PROVE  /\ d \in alive[b] /\ ~Pending(b) /\ IF start.local THEN b = "local" ELSE b = In(d) \/ b = Out(d)
         /\ ToTunnel(b, d) <=> ~start.local /\ b = In(d)
         /\ start.local => In(d) = "local" /\ Out(d) = "local"
         /\ ~start.local => In(d) # Out(d)
         /\ In(d) \in Bridges /\ Out(d) \in Bridges
         /\ Said(d)' = Said(d) /\ pc' = pc /\ open' = open /\ up' = up
         /\ \A x \in Bridges : x # b => box'[x][d] = box[x][d] /\ hold'[x][d] = hold[x][d]
<1>1. d \in alive[b] /\ said' = said /\ pc' = pc /\ open' = open /\ up' = up
  BY DEF Receive, Finish, Forward, Raise, TaskStep
<1>2. /\ ~Pending(b) /\ IF start.local THEN b = "local" ELSE b = In(d) \/ b = Out(d)
      /\ ToTunnel(b, d) <=> ~start.local /\ b = In(d)
  BY <1>1, Running DEF Before
<1>3. /\ start.local => In(d) = "local" /\ Out(d) = "local"
      /\ ~start.local => In(d) # Out(d)
      /\ In(d) \in Bridges /\ Out(d) \in Bridges
  BY Basis, WayNames
<1>4. Said(d)' = Said(d)
  BY <1>1, Basis, Views DEF Said
<1>5. ASSUME NEW x \in Bridges, x # b PROVE box'[x][d] = box[x][d] /\ hold'[x][d] = hold[x][d]
  <2>1. box' = box \/ box' = [box EXCEPT ![b][d] = Tail(@)]
    BY DEF Receive, Finish, Forward, Raise
  <2>2. \E h : hold' = hold \/ hold' = [hold EXCEPT ![b][d] = h]
    BY DEF Receive, Finish, Forward, Raise
  <2> QED BY <1>5, <2>1, <2>2, Basis
<1> QED BY <1>1, <1>2, <1>3, <1>4, <1>5

LEMMA WayStops ==
  ASSUME NEW d \in Ways, Before(d), NEW b \in Bridges, Finish(b, d) \/ Raise(b, d)
  PROVE  WayInv(d)'
<1>1. /\ UNCHANGED <<said, heard, box, wire, pc>> /\ hold'[b][d] = <<>> /\ d \notin alive'[b]
      /\ ~Pending(b)
  <2>1. UNCHANGED <<said, heard, box, wire, pc>> /\ ~Pending(b)
    BY TaskViews DEF Finish, Raise, TaskStep
  <2>2. d \notin alive'[b]
    BY Basis DEF Finish, Raise
  <2>3. hold'[b][d] = <<>>
    BY Basis DEF Finish, Raise
  <2> QED BY <2>1, <2>2, <2>3
<1>2. /\ Said(d)' = Said(d) /\ Heard(d)' = Heard(d) /\ BoxIn(d)' = BoxIn(d) /\ BoxOut(d)' = BoxOut(d)
      /\ Wire(d)' = Wire(d)
  BY <1>1, Basis, Views DEF Said, Heard, BoxIn, BoxOut, Wire
<1>3. HoldIn(d)' = HoldIn(d) \/ (HoldIn(d)' = <<>> /\ ~Flowing(In(d), d)')
  <2>1. CASE In(d) = b
    BY <1>1, <2>1, Basis, Views DEF Pending
  <2>2. CASE In(d) # b
    BY <2>2, TaskViews, Basis, Views DEF HoldIn
  <2> QED BY <2>1, <2>2
<1>4. HoldOut(d)' = HoldOut(d) \/ (HoldOut(d)' = <<>> /\ ~Flowing(Out(d), d)')
  <2>1. CASE Out(d) = b
    BY <1>1, <2>1, Basis, Views DEF Pending
  <2>2. CASE Out(d) # b
    BY <2>2, TaskViews, Basis, Views DEF HoldOut
  <2> QED BY <2>1, <2>2
<1>5. Left(d)
  BY <1>2, <1>3, <1>4 DEF Left
<1> QED BY <1>2, <1>5, Basis, LeftKept

LEMMA WayReceives ==
  ASSUME NEW d \in Ways, Before(d), NEW b \in Bridges, Receive(b, d)
  PROVE  WayInv(d)'
<1>1. /\ UNCHANGED <<heard, wire>> /\ hold[b][d] = <<>> /\ box[b][d] # <<>>
      /\ hold'[b][d] = <<Head(box[b][d])>> /\ box'[b][d] = Tail(box[b][d])
  BY Basis DEF Receive
<1>2. Heard(d)' = Heard(d) /\ Wire(d)' = Wire(d) /\ Said(d)' = Said(d)
  BY <1>1, Basis, Views, TaskViews DEF Heard, Wire
<1>3. CASE b = In(d)
  <2>1. /\ HoldIn(d) = <<>> /\ BoxIn(d) # <<>> /\ HoldIn(d)' = <<Head(BoxIn(d))>>
        /\ BoxIn(d)' = Tail(BoxIn(d))
    BY <1>1, <1>3, Basis, Views DEF HoldIn, BoxIn
  <2>2. ~start.local => Stays(d)
    BY <1>2, <1>3, Basis, Views, TaskViews DEF Stays, HoldOut, BoxOut
  <2> QED BY <1>2, <2>1, <2>2, Basis, ReceiveIn
<1>4. CASE b # In(d)
  <2>1. ~start.local /\ b = Out(d)
    BY <1>4, TaskViews
  <2>2. /\ HoldOut(d) = <<>> /\ BoxOut(d) # <<>> /\ HoldOut(d)' = <<Head(BoxOut(d))>>
        /\ BoxOut(d)' = Tail(BoxOut(d))
    BY <1>1, <2>1, Basis, Views DEF HoldOut, BoxOut
  <2>3. HoldIn(d)' = HoldIn(d) /\ BoxIn(d)' = BoxIn(d)
    BY <1>4, Basis, Views, TaskViews DEF HoldIn, BoxIn
  <2> QED BY <1>2, <2>1, <2>2, <2>3, Basis, ReceiveOut
<1> QED BY <1>3, <1>4

LEMMA WayForwards ==
  ASSUME NEW d \in Ways, Before(d), NEW b \in Bridges, Forward(b, d)
  PROVE  WayInv(d)'
<1>1. /\ hold[b][d] # <<>> /\ hold'[b][d] = <<>> /\ box' = box /\ d \in alive[b]
  BY Basis DEF Forward
<1>2. /\ Said(d)' = Said(d) /\ BoxIn(d)' = BoxIn(d) /\ BoxOut(d)' = BoxOut(d) /\ pc' = pc /\ open' = open
      /\ up' = up
  BY <1>1, Basis, Views, TaskViews DEF BoxIn, BoxOut
<1>3. CASE ToTunnel(b, d)
  <2>1. ~start.local /\ b = In(d) /\ In(d) # Out(d) /\ Other(b) = Far(d)
    <3>1. ~start.local /\ b = In(d) /\ In(d) # Out(d) /\ In(d) = Other(Far(d)) /\ Far(d) \in Sides
      BY <1>3, TaskViews, Basis, WayNames
    <3> QED BY <3>1, Names DEF Other
  <2>2. heard' = heard /\ wire' = IF up THEN [wire EXCEPT ![Far(d)] =
                                   Append(@, [kind |-> "data", payload |-> Encode(hold[b][d][1])])] ELSE wire
    BY <1>3, <2>1 DEF Forward, Send, Held
  <2>3. HoldIn(d) # <<>> /\ HoldIn(d)' = <<>> /\ Flowing(In(d), d)
    BY <1>1, <2>1, Basis, Views DEF HoldIn, Flowing
  <2>4. Stays(d)
    BY <1>2, <2>1, <2>2, Basis, Views, TaskViews DEF Stays, HoldOut, Heard
  <2>5. Wire(d)' = IF up THEN Append(Wire(d), [kind |-> "data", payload |-> Encode(HoldIn(d)[1])]) ELSE Wire(d)
    BY <2>1, <2>2, Basis, Views, WayNames DEF Wire, HoldIn
  <2> QED BY <1>2, <2>1, <2>3, <2>4, <2>5, Basis, ForwardIn
<1>4. CASE ~ToTunnel(b, d) /\ ~start.local
  <2>1. b = Out(d) /\ In(d) # b /\ b \in Sides
    BY <1>4, TaskViews, Basis, WayNames
  <2>2. wire' = wire /\ heard' = IF FarEnd(d) \in open
                                  THEN [heard EXCEPT ![FarEnd(d)] = Append(@, Decode(hold[b][d][1]))] ELSE heard
    BY <1>4, <2>1 DEF Forward, ToEnd, Held
  <2>3. HoldOut(d) # <<>> /\ HoldOut(d)' = <<>> /\ Flowing(Out(d), d) /\ ~Pending(Out(d))
    BY <1>1, <2>1, Basis, Views, TaskViews DEF HoldOut, Flowing
  <2>4. HoldIn(d)' = HoldIn(d) /\ Wire(d)' = Wire(d)
    BY <2>1, <2>2, Basis, Views, TaskViews DEF HoldIn, Wire
  <2>5. Heard(d)' = IF FarEnd(d) \in open THEN Append(Heard(d), Decode(HoldOut(d)[1])) ELSE Heard(d)
    BY <2>1, <2>2, Basis, Views, WayNames DEF Heard, HoldOut
  <2> QED BY <1>2, <1>4, <2>3, <2>4, <2>5, Basis, ForwardOut
<1>5. CASE start.local
  <2>1. b = "local" /\ In(d) = b /\ ~ToTunnel(b, d) /\ b \notin Sides
    BY <1>5, TaskViews, Names
  <2>2. heard' = IF FarEnd(d) \in open
                 THEN [heard EXCEPT ![FarEnd(d)] = Append(@, hold[b][d][1])] ELSE heard
    BY <2>1 DEF Forward, ToEnd, Held
  <2>3. HoldIn(d) # <<>> /\ HoldIn(d)' = <<>> /\ Flowing("local", d) /\ ~Pending("local")
    BY <1>1, <2>1, Basis, Views, TaskViews DEF HoldIn, Flowing
  <2>4. Heard(d)' = IF FarEnd(d) \in open THEN Append(Heard(d), HoldIn(d)[1]) ELSE Heard(d)
    BY <2>1, <2>2, Basis, Views, WayNames DEF Heard, HoldIn
  <2> QED BY <1>2, <1>5, <2>3, <2>4, Basis, ForwardLocal
<1> QED BY <1>3, <1>4, <1>5

-----------------------------------------------------------------------------
Ordered == StateInv /\ \A d \in Ways : WayInv(d)

LEMMA OrderedInit == Init => Ordered
<1> SUFFICES ASSUME Init, NEW d \in Ways PROVE WayInv(d)
  BY StateInit DEF Ordered
<1>1. TypeInv /\ start.local \in BOOLEAN
  BY StateInit, WayTypes DEF StateInv
<1>2. /\ Said(d) = <<>> /\ Heard(d) = <<>> /\ BoxIn(d) = <<>> /\ HoldIn(d) = <<>>
      /\ BoxOut(d) = <<>> /\ HoldOut(d) = <<>> /\ Wire(d) = <<>>
  BY <1>1, WayNames DEF Init, Said, Heard, BoxIn, HoldIn, BoxOut, HoldOut, Wire
<1>3. Passed(d) = 0 /\ Got(d) = 0 /\ Opens(d) = 0 /\ Len(Script[Source(d)]) \in Nat
  <2>1. /\ Len(Said(d)) = 0 /\ Len(Heard(d)) = 0 /\ Len(BoxIn(d)) = 0 /\ Len(HoldIn(d)) = 0
        /\ Len(BoxOut(d)) = 0 /\ Len(HoldOut(d)) = 0
    BY <1>2
  <2>2. Passed(d) = 0 /\ Got(d) = 0
    BY <2>1 DEF Passed, Got
  <2>3. Opens(d) = 0
    BY <1>2 DEF Opens
  <2> QED BY <1>1, <2>2, <2>3, WayNumbers
<1>4. EndsInv(d) /\ EntryInv(d) /\ LocalInv(d)
  BY <1>2, <1>3 DEF EndsInv, EntryInv, LocalInv
<1>5. ExitOk(d)
  BY <1>2, <1>3 DEF ExitOk, WireOk
<1> QED BY <1>4, <1>5 DEF WayInv, ExitInv

LEMMA OrderedStep ==
  ASSUME Ordered, [Next]_vars
  PROVE  Ordered'
<1>1. StateInv /\ StateInv'
  BY StateStep DEF Ordered
<1>2. ASSUME NEW d \in Ways PROVE WayInv(d)'
  <2>1. CASE Next
    <3>1. Before(d)
      BY <1>1, <2>1 DEF Before, Ordered
    <3>2. ASSUME NEW b \in Bridges, BridgeNext(b) PROVE WayInv(d)'
      <4>1. ASSUME NEW w \in Ways, Receive(b, w) \/ Finish(b, w) \/ Forward(b, w) \/ Raise(b, w)
            PROVE  WayInv(d)'
        <5>1. CASE w # d
          BY <3>1, <4>1, <5>1, WayOther
        <5>2. CASE w = d
          BY <3>1, <4>1, <5>2, WayReceives, WayStops, WayForwards
        <5> QED BY <5>1, <5>2
      <4> QED BY <3>1, <3>2, <4>1, WayStart, WayCancel, WayEnding DEF BridgeNext
    <3>3. ASSUME NEW s \in Sides, SideNext(s) PROVE WayInv(d)'
      BY <3>1, <3>3, WayArrives, WayTearDown DEF SideNext, Arrive
    <3>4. CASE OnWsOpen \/ Lose
      BY <3>1, <3>4, WayOpen, WayLose
    <3>5. CASE Visit \/ Dial
      BY <3>1, <3>5, WayStart, Names
    <3>6. ASSUME NEW e \in Ends, Say(e) \/ Leave(e) PROVE WayInv(d)'
      BY <3>1, <3>6, WaySay
    <3> QED BY <2>1, <3>2, <3>3, <3>4, <3>5, <3>6 DEF Next
  <2>2. CASE UNCHANGED vars
    <3>1. UNCHANGED <<start, said, heard, open, pc, alive, box, hold, up, wire, reg>>
      BY <2>2 DEF vars, ends, tasks, tunnel
    <3>2. Falls(d) /\ Left(d) /\ Wire(d)' = Wire(d)
      BY <3>1, Untouched, Views DEF Falls, FarOk, Flowing, RegOk, Pending, In, Out, Entry, Wire
    <3> QED BY <1>1, <3>1, <3>2, LeftKept DEF Ordered, StateInv
  <2> QED BY <2>1, <2>2
<1> QED BY <1>1, <1>2 DEF Ordered

LEMMA OrderedIsInOrder ==
  ASSUME Ordered
  PROVE  InOrder
<1>1. ASSUME NEW d \in Ways PROVE IsPrefix(Heard(d), Said(d))
  <2>1. /\ Heard(d) \in Seq(Item) /\ Said(d) \in Seq(Item) /\ Len(Heard(d)) \in Nat /\ Len(Said(d)) \in Nat
        /\ Len(BoxIn(d)) \in Nat /\ Len(HoldIn(d)) \in Nat /\ EndsInv(d)
    BY WayTypes, WayNumbers DEF Ordered, StateInv, WayInv
  <2>2. Len(Heard(d)) <= Len(Said(d))
    BY <2>1 DEF EndsInv, Passed
  <2>3. \A i \in 1..Len(Heard(d)) : i \in 1..Len(Said(d)) /\ Heard(d)[i] = Said(d)[i]
    BY <2>1, <2>2 DEF EndsInv
  <2>4. SubSeq(Heard(d), 1, Len(Heard(d))) = [i \in 1..Len(Heard(d)) |-> Heard(d)[i]]
    BY <2>1
  <2>5. SubSeq(Said(d), 1, Len(Heard(d))) = [i \in 1..Len(Heard(d)) |-> Said(d)[i]]
    BY <2>1, <2>2
  <2>6. SubSeq(Heard(d), 1, Len(Heard(d))) = SubSeq(Said(d), 1, Len(Heard(d)))
    BY <2>3, <2>4, <2>5
  <2> QED BY <2>2, <2>6 DEF IsPrefix
<1> QED BY <1>1, Names DEF InOrder, Heard, Said, Source, FarEnd

\* Over any number of messages, lost tunnels and cancelled tasks, each end has got a
\* beginning of what the other sent, message by message and kind by kind
\* (mount_proxy.py proxy_websocket, agent/proxy.py handle_ws_open_frame,
\* LocalAsgiMount.bridge_websocket).
THEOREM MessagesInOrder == Spec => []InOrder
<1>1. Ordered /\ [Next]_vars => Ordered'
  BY OrderedStep
<1>2. Ordered => InOrder
  BY OrderedIsInOrder
<1> QED BY <1>1, <1>2, OrderedInit, PTL DEF Spec
-----------------------------------------------------------------------------

(***************************************************************************)
(* The last words of an end.  The way d is smooth while only the end that   *)
(* speaks has closed, the tunnel holds, no send failed, the app accepts, and*)
(* the relay did not refuse the visitor.                                    *)
(***************************************************************************)
Refused == pc["relay"] = "done" /\ pc["agent"] = "idle" /\ wire["agent"] = <<>>
Smooth(d) == up /\ snapped = {} /\ quit \subseteq {Source(d)} /\ start.accepts /\ (start.local \/ ~Refused)
Back(d) == IF d = "down" THEN "up" ELSE "down"
Closes(d) == IF Wire(d) # <<>> /\ Wire(d)[Len(Wire(d))].kind = "close" THEN 1 ELSE 0

\* An end that closed stays closed; the app's opens once, when the app accepts.
QuitInv ==
    /\ quit \cap open = {}
    /\ Pending(Out("down")) \/ ~start.accepts => "app" \notin open \cup quit
\* A task is told of an end by the one that closed, or by the last frame.
FinInv(d) ==
    /\ fin[In(d)][d] => Source(d) \in quit
    /\ up /\ fin[Far(d)][d] => Wire(d) = <<>> /\ Leaving(Other(Far(d)))
RegInv(d) == up /\ ~start.local /\ Flowing(Out(d), d) => RegOk(d)

\* The first bridge has passed on all that was said; the far end has got it.
AllSent(d) == Passed(d) = Len(Said(d)) /\ Source(d) \notin open
AllHeard(d) == Len(Heard(d)) = Len(Said(d)) /\ Source(d) \notin open
InTransit(d) == Got(d) + Len(Wire(d)) = Len(Said(d)) + Opens(d) + Closes(d)
WordsInv(d) ==
    Smooth(d) =>
        /\ Flowing(Out(d), d) => FarOk(d)
        /\ ~Flowing(In(d), d) => AllSent(d)
        /\ ~Flowing(Out(d), d) => AllHeard(d) /\ (start.local \/ Leaving(In(d)))
        /\ \A b \in Bridges : pc[b] = "run" => Back(d) \in alive[b]
        /\ ~start.local /\ Flowing(Out(d), d) /\ ~Flowing(In(d), d) => InTransit(d)
LastInv == QuitInv /\ \A d \in Ways : FinInv(d) /\ RegInv(d) /\ WordsInv(d)

-----------------------------------------------------------------------------
(***************************************************************************)
(* What falls and stays in a smooth way.                                    *)
(***************************************************************************)
LEMMA QuitMoves ==
  ASSUME Next
  PROVE  /\ quit' = quit \/ \E e \in Ends : Leave(e)
         /\ quit \subseteq quit'
         /\ snapped \subseteq snapped'
<1>1. \A e \in Ends : Say(e) \/ Leave(e) => snapped' = snapped /\ quit \subseteq quit' /\ (quit' = quit \/ Leave(e))
  BY DEF Say, Leave, EndStep
<1>2. OnWsOpen \/ Lose \/ (\E s \in Sides : SideNext(s)) => UNCHANGED <<quit, snapped>>
  BY DEF OnWsOpen, Lose, SideNext, Arrive, OnData, OnClose, TearDown, TunnelStep, ends
<1>3. Visit \/ Dial \/ (\E b \in Bridges : Connect(b)) => UNCHANGED <<quit, snapped>>
  BY DEF Visit, Dial, Connect, StartStep
<1>4. \A b \in Bridges : Cancel(b) \/ RemoveStream(b) \/ Bye(b) => UNCHANGED <<quit, snapped>>
  BY DEF Cancel, RemoveStream, Bye, EndingStep
<1>5. \A b \in Bridges, d \in Ways :
        Receive(b, d) \/ Finish(b, d) \/ Forward(b, d) \/ Raise(b, d) => quit' = quit /\ snapped \subseteq snapped'
  BY DEF Receive, Finish, Forward, Raise, TaskStep
<1> QED BY <1>1, <1>2, <1>3, <1>4, <1>5 DEF Next, BridgeNext

LEMMA RefusedStays ==
  ASSUME StateInv, Next, Refused
  PROVE  Refused'
<1>1. /\ pc \in [Bridges -> Places] /\ wire \in [Sides -> Seq(Frame)] /\ TaskInv /\ PlaceInv
      /\ start.local \in BOOLEAN /\ pc["relay"] = "done" /\ pc["agent"] = "idle" /\ wire["agent"] = <<>>
  BY BridgeAssumption DEF StateInv, TypeInv, TunnelType, Refused
<1>2. ~OnWsOpen /\ ~Dial /\ ~Visit
  BY <1>1 DEF OnWsOpen, Take, Dial, Visit, Entry, PlaceInv
<1>3. \A b \in Bridges : Connect(b) \/ Cancel(b) \/ RemoveStream(b) \/ Bye(b) => b = "local"
  BY <1>1, Names DEF Connect, Cancel, RemoveStream, Bye
<1>4. pc'["relay"] = "done" /\ pc'["agent"] = "idle"
  <2>1. CASE Quiet
    BY <1>1, <2>1 DEF Quiet
  <2>2. ASSUME NEW b \in Bridges, Connect(b) \/ Cancel(b) \/ RemoveStream(b) \/ Bye(b)
        PROVE  pc'["relay"] = "done" /\ pc'["agent"] = "idle"
    <3>1. \E p : pc' = [pc EXCEPT !["local"] = p]
      BY <1>3, <2>2 DEF Connect, Cancel, RemoveStream, Bye, StartTasks, Goto
    <3> QED BY <1>1, <3>1, Names
  <2> QED BY <1>2, <2>1, <2>2, StepKinds DEF Step
<1>5. wire'["agent"] = <<>>
  <2>1. alive["relay"] = {} /\ ~Bye("relay") /\ Other("agent") = "relay" /\ "agent" \in Sides
    BY <1>1, Names DEF TaskInv, Bye, Other
  <2>2. ASSUME NEW s \in Sides, Arrives(s) PROVE wire'["agent"] = <<>>
    <3>1. s # "agent"
      BY <1>1, <2>2 DEF Arrives
    <3> QED BY <1>1, <2>1, <2>2, <3>1 DEF Arrives
  <2>3. ASSUME NEW s \in Sides, alive[Other(s)] # {} \/ Bye(Other(s)), NEW f, wire' = [wire EXCEPT ![s] = Append(@, f)]
        PROVE  wire'["agent"] = <<>>
    <3>1. s # "agent"
      BY <2>1, <2>3
    <3> QED BY <1>1, <2>1, <2>3, <3>1
  <2>4. Lose => wire'["agent"] = <<>>
    BY <2>1 DEF Lose
  <2> QED BY <1>1, <1>2, <2>2, <2>3, <2>4, WireMoves
<1> QED BY <1>4, <1>5 DEF Refused

LEMMA SmoothFalls ==
  ASSUME StateInv, Next, NEW d \in Ways, Smooth(d)'
  PROVE  Smooth(d) /\ (\A e \in Ends : Leave(e) => e = Source(d)) /\ snapped' = {} /\ (start.local \/ ~Refused')
<1>1. start' = start /\ (up' => up) /\ quit \subseteq quit' /\ snapped \subseteq snapped'
  BY SameStart, UpFalls, QuitMoves
<1>2. start.local \/ ~Refused
  BY <1>1, RefusedStays DEF Smooth
<1>3. \A e \in Ends : Leave(e) => e = Source(d)
  BY DEF Smooth, Leave, Source
<1> QED BY <1>1, <1>2, <1>3 DEF Smooth, Source

LEMMA QuitStep ==
  ASSUME StateInv, Next, QuitInv
  PROVE  QuitInv'
<1>1. /\ start' = start /\ Gains /\ pc \in [Bridges -> Places] /\ PlaceInv /\ start.local \in BOOLEAN
      /\ open \subseteq Ends
  BY SameStart, GainsStep, BridgeAssumption DEF StateInv, TypeInv, EndsType
<1>2. Out("down")' = Out("down") /\ Out("down") \in Bridges
  BY <1>1, Names DEF Out, Far
<1>3. ASSUME NEW e \in Ends, Leave(e) PROVE QuitInv'
  <2>1. e \in open /\ open' = open \ {e} /\ quit' = quit \cup {e} /\ pc' = pc
    BY <1>3 DEF Leave, CloseEnd, EndStep
  <2> QED BY <1>1, <1>2, <2>1 DEF QuitInv, Pending
<1>4. ASSUME NEW b \in Bridges, Connect(b) PROVE QuitInv'
  <2>1. b = Out("down") /\ pc[b] = "connect"
    BY <1>1, <1>4, Names DEF Connect, PlaceInv, Out, Far
  <2>2. ~Pending(b)'
    BY <1>1, <1>4 DEF Connect, StartTasks, Goto, Pending
  <2>3. /\ quit' = quit /\ open' \subseteq open \cup {"app"} /\ "app" \notin quit
        /\ ~start.accepts => open' \subseteq open
    BY <1>4, <2>1 DEF Connect, StartStep, QuitInv, Pending
  <2> QED BY <1>1, <1>2, <2>1, <2>2, <2>3 DEF QuitInv, Pending
<1>5. ASSUME quit' = quit, open' \subseteq open PROVE QuitInv'
  <2>1. Pending(Out("down"))' => Pending(Out("down"))
    BY <1>1, <1>2 DEF Gains, Pending
  <2> QED BY <1>1, <1>5, <2>1 DEF QuitInv
<1>6. ASSUME ~\E e \in Ends : Leave(e), ~\E b \in Bridges : Connect(b) PROVE open' \subseteq open
  <2>1. \A e \in Ends : Say(e) => open' = open
    BY DEF Say
  <2>2. OnWsOpen \/ Lose \/ (\E s \in Sides : SideNext(s)) => open' = open
    BY DEF OnWsOpen, Lose, SideNext, Arrive, OnData, OnClose, TearDown, TunnelStep, ends
  <2>3. Visit \/ Dial => open' \subseteq open
    BY DEF Visit, Dial, CloseEnd
  <2>4. \A b \in Bridges : Cancel(b) \/ RemoveStream(b) \/ Bye(b) => open' \subseteq open
    BY Names DEF Cancel, RemoveStream, Bye
  <2>5. \A b \in Bridges, d \in Ways : Receive(b, d) \/ Finish(b, d) \/ Forward(b, d) \/ Raise(b, d) => open' = open
    BY DEF Receive, Finish, Forward, Raise, TaskStep
  <2> QED BY <1>6, <2>1, <2>2, <2>3, <2>4, <2>5 DEF Next, BridgeNext
<1> QED BY <1>3, <1>4, <1>5, <1>6, QuitMoves

\* Who tells a task that its source has ended.
LEMMA FinMoves ==
  ASSUME StateInv, Next, NEW b \in Bridges, NEW d \in Ways, fin'[b][d], ~fin[b][d]
  PROVE  \/ \E e \in Ends : Leave(e) /\ b = Entry(e) /\ d = Way(e)
         \/ \E s \in Sides : (OnClose(s) \/ TearDown(s)) /\ b = s /\ d = Reader(s)
<1>0. fin \in [Bridges -> [Ways -> BOOLEAN]] /\ fin' # fin
  BY DEF StateInv, TypeInv, TasksType
<1>1. ASSUME NEW e \in Ends, Leave(e) PROVE b = Entry(e) /\ d = Way(e)
  BY <1>0, <1>1, Names DEF Leave
<1>2. ASSUME NEW s \in Sides, OnClose(s) \/ TearDown(s) PROVE b = s /\ d = Reader(s)
  <2>1. fin' = [fin EXCEPT ![s][Reader(s)] = TRUE]
    BY <1>0, <1>2 DEF OnClose, TearDown
  <2> QED BY <1>0, <2>1, Names
<1>3. /\ \A e \in Ends : Say(e) => fin' = fin
      /\ OnWsOpen \/ Lose \/ (\E s \in Sides : OnData(s)) => fin' = fin
      /\ Visit \/ Dial => fin' = fin
  BY DEF Say, OnWsOpen, Lose, tasks, OnData, Visit, Dial, StartStep
<1>4. \A x \in Bridges : Connect(x) \/ Cancel(x) \/ RemoveStream(x) \/ Bye(x) => fin' = fin
  BY DEF Connect, StartStep, Cancel, RemoveStream, Bye
<1>5. \A x \in Bridges, w \in Ways : Receive(x, w) \/ Finish(x, w) \/ Forward(x, w) \/ Raise(x, w) => fin' = fin
  BY DEF Receive, Finish, Forward, Raise
<1> QED BY <1>0, <1>1, <1>2, <1>3, <1>4, <1>5 DEF Next, BridgeNext, SideNext, Arrive

\* A bridge that is leaving sends nothing more.
LEMMA WireStaysEmpty ==
  ASSUME StateInv, Next, NEW s \in Sides, wire[s] = <<>>, Leaving(Other(s))
  PROVE  wire'[s] = <<>>
<1>1. /\ pc \in [Bridges -> Places] /\ wire \in [Sides -> Seq(Frame)] /\ TaskInv
      /\ Other(s) \in Sides /\ Other(s) \in Bridges /\ pc[Other(s)] \in {"remove", "done"}
  BY Names DEF StateInv, TypeInv, TunnelType, Leaving
<1>2. alive[Other(s)] = {} /\ ~Bye(Other(s)) /\ (s = "agent" => ~Dial)
  BY <1>1 DEF TaskInv, Bye, Dial, Other
<1>3. ASSUME NEW q \in Sides, Arrives(q) PROVE wire'[s] = <<>>
  <2>1. q # s
    BY <1>3 DEF Arrives
  <2> QED BY <1>1, <1>3, <2>1 DEF Arrives
<1>4. OnWsOpen => wire'[s] = <<>>
  <2>1. OnWsOpen => s # "agent" /\ wire' = [wire EXCEPT !["agent"] = Tail(@)]
    BY DEF OnWsOpen, Take
  <2> QED BY <1>1, <2>1
<1>5. ASSUME NEW q \in Sides, q # s, NEW f, wire' = [wire EXCEPT ![q] = Append(@, f)] PROVE wire'[s] = <<>>
  BY <1>1, <1>5
<1>6. Lose => wire'[s] = <<>>
  BY DEF Lose
<1>7. "agent" \in Sides
  BY Names
<1> QED BY <1>2, <1>3, <1>4, <1>5, <1>6, <1>7, WireMoves

LEMMA FinStep ==
  ASSUME NEW d \in Ways, Before(d), QuitInv, FinInv(d)
  PROVE  FinInv(d)'
<1>0. /\ StateInv /\ Next /\ start' = start /\ In(d)' = In(d) /\ Far(d) \in Sides /\ Far(d) \in Bridges
      /\ In(d) \in Bridges /\ In(d) # Far(d) /\ Source(d) \in Ends
      /\ \A e \in Ends : Way(e) = d => e = Source(d) /\ Entry(e) = In(d)
      /\ \A s \in Sides : Reader(s) = d => s = Far(d)
  <2>1. /\ StateInv /\ Next /\ start' = start /\ start.local \in BOOLEAN /\ In(d)' = In(d)
    BY Basis, Views DEF Before
  <2>2. /\ Far(d) \in Sides /\ In(d) \in Bridges /\ Source(d) \in Ends
        /\ \A e \in Ends : Way(e) = d => e = Source(d)
        /\ \A s \in Sides : Reader(s) = d => s = Far(d)
    BY <2>1, WayNames
  <2>3. In(d) # Far(d)
    BY <2>1, Names DEF In, Far, Entry, Source
  <2> QED BY <2>1, <2>2, <2>3, Names DEF In
<1>1. fin'[In(d)][d] => Source(d) \in quit'
  <2>1. CASE fin[In(d)][d]
    BY <2>1, <1>0, QuitMoves DEF FinInv
  <2>2. CASE ~fin[In(d)][d] /\ fin'[In(d)][d]
    <3>1. ~\E s \in Sides : In(d) = s /\ d = Reader(s)
      BY <1>0
    <3>2. PICK e \in Ends : Leave(e) /\ d = Way(e)
      BY <1>0, <2>2, <3>1, FinMoves
    <3> QED BY <1>0, <3>2 DEF Leave
  <2> QED BY <2>1, <2>2
<1>2. ASSUME up', fin'[Far(d)][d] PROVE wire'[Far(d)] = <<>> /\ Leaving(Other(Far(d)))'
  <2>0. up /\ Other(Far(d)) \in Sides
    BY <1>0, <1>2, UpFalls, Names
  <2>1. CASE fin[Far(d)][d]
    <3>1. wire[Far(d)] = <<>> /\ Leaving(Other(Far(d)))
      BY <2>0, <2>1 DEF FinInv, Wire
    <3>2. Leaving(Other(Far(d)))'
      BY <1>0, <2>0, <3>1, PlaceMoves
    <3> QED BY <1>0, <3>1, <3>2, WireStaysEmpty
  <2>2. CASE ~fin[Far(d)][d]
    <3>1. ~\E e \in Ends : Leave(e) /\ Far(d) = Entry(e) /\ d = Way(e)
      BY <1>0
    <3>2. OnClose(Far(d))
      BY <1>0, <1>2, <2>0, <2>2, <3>1, FinMoves DEF TearDown
    <3>3. /\ wire[Far(d)] # <<>> /\ Head(wire[Far(d)]).kind = "close" /\ wire[Far(d)] \in Seq(Frame)
          /\ wire' = [wire EXCEPT ![Far(d)] = Tail(@)] /\ pc' = pc /\ WireInv(Far(d)) /\ wire \in [Sides -> Seq(Frame)]
      BY <1>0, <3>2 DEF OnClose, Take, StateInv, WiresInv, TypeInv, TunnelType
    <3>4. Head(wire[Far(d)]) = wire[Far(d)][1] /\ 1 \in 1..Len(wire[Far(d)])
      BY <3>3
    <3>5. 1 = Len(wire[Far(d)]) /\ Leaving(Other(Far(d)))
      BY <3>3, <3>4 DEF WireInv
    <3>6. Tail(wire[Far(d)]) = <<>>
      <4>1. Tail(wire[Far(d)]) \in Seq(Frame) /\ Len(Tail(wire[Far(d)])) = 0
        BY <3>3, <3>5, HeadTailProperties
      <4> QED BY <4>1, EmptySeq
    <3> QED BY <1>0, <2>0, <3>3, <3>5, <3>6, PlaceMoves
  <2> QED BY <2>1, <2>2
<1>3. Wire(d)' = wire'[Far(d)]
  BY DEF Wire
<1> QED BY <1>0, <1>1, <1>2, <1>3 DEF FinInv, In, Far, Entry, Source

\* A stream is registered as long as its reader's task may take from it.
LEMMA RegStep ==
  ASSUME NEW d \in Ways, Before(d), RegInv(d)
  PROVE  RegInv(d)'
<1> SUFFICES ASSUME up', ~start.local, Flowing(Out(d), d)' PROVE RegOk(d)'
  BY Basis DEF RegInv
<1>1. /\ StateInv /\ Next /\ start' = start /\ pc \in [Bridges -> Places] /\ alive \in [Bridges -> SUBSET Ways]
      /\ PlaceInv /\ TaskInv /\ Out(d) = Far(d) /\ Far(d) \in Sides /\ Far(d) \in Bridges /\ reg \subseteq Sides
      /\ Reader(Far(d)) = d /\ up /\ RegOk(d)
      /\ d \in alive'[Far(d)] \/ pc'[Far(d)] \in {"idle", "dial", "connect"}
  <2>1. StateInv /\ Next /\ start' = start /\ start.local \in BOOLEAN /\ up /\ Flowing(Out(d), d)
    BY Basis DEF Before, Falls
  <2>2. /\ pc \in [Bridges -> Places] /\ alive \in [Bridges -> SUBSET Ways] /\ PlaceInv /\ TaskInv /\ reg \subseteq Sides
    BY <2>1 DEF StateInv, TypeInv, TasksType, TunnelType
  <2>3. Out(d) = Far(d) /\ Far(d) \in Sides /\ Reader(Far(d)) = d
    BY <2>1, WayNames
  <2>4. RegOk(d)
    BY <2>1 DEF RegInv
  <2> QED BY <2>1, <2>2, <2>3, <2>4, Views, Names
<1>2. CASE Far(d) \in reg
  <2>1. ASSUME NEW b \in Bridges, RemoveStream(b) PROVE b # Far(d)
    <3>1. pc[b] = "remove" /\ alive' = alive /\ alive[b] = {} /\ pc'[b] \in {"bye", "done"}
      BY <1>1, <2>1 DEF RemoveStream, Goto, TaskInv
    <3> QED BY <1>1, <3>1
  <2>2. ASSUME NEW b \in Bridges, NEW w \in Ways, Finish(b, w) PROVE ~(b = Far(d) /\ w = d)
    <3>1. pc' = pc /\ w \in alive[b] /\ alive' = [alive EXCEPT ![b] = @ \ {w}]
      BY <2>2 DEF Finish, TaskStep
    <3>2. pc[b] = "run" /\ w \notin alive'[b]
      BY <1>1, <3>1 DEF TaskInv
    <3> QED BY <1>1, <3>1, <3>2
  <2>3. Far(d) \in reg'
    <3>1. \A e \in Ends : Say(e) \/ Leave(e) => reg' = reg
      BY DEF Say, Leave, EndStep, tunnel
    <3>2. OnWsOpen \/ Lose \/ (\E s \in Sides : SideNext(s)) => reg \subseteq reg'
      BY <1>1 DEF OnWsOpen, Lose, SideNext, Arrive, OnData, OnClose, TearDown
    <3>3. Visit \/ Dial \/ (\E b \in Bridges : Connect(b) \/ Cancel(b) \/ Bye(b)) => reg \subseteq reg'
      BY DEF Visit, Dial, Connect, Cancel, Bye
    <3>4. \A b \in Bridges, w \in Ways : Receive(b, w) \/ Forward(b, w) \/ Raise(b, w) => reg' = reg
      BY DEF Receive, Forward, Raise
    <3>5. \A b \in Bridges : RemoveStream(b) => Far(d) \in reg'
      BY <1>2, <2>1 DEF RemoveStream
    <3>6. \A b \in Bridges, w \in Ways : Finish(b, w) => Far(d) \in reg'
      BY <1>1, <1>2, <2>2 DEF Finish
    <3> QED BY <1>1, <1>2, <3>1, <3>2, <3>3, <3>4, <3>5, <3>6 DEF Next, BridgeNext
  <2> QED BY <2>3 DEF RegOk, Far
<1>3. CASE d = "down" /\ pc["agent"] = "idle"
  <2>1. pc'["agent"] = "idle" \/ "agent" \in reg'
    BY <1>1, <1>3, PlaceMoves DEF OnWsOpen
  <2> QED BY <1>3, <2>1 DEF RegOk, Far
<1>4. CASE d = "up" /\ pc["relay"] \in {"idle", "dial"}
  <2>1. Far(d) = "relay" /\ alive["relay"] = {}
    BY <1>1, <1>4 DEF Far, TaskInv
  <2>2. Dial \/ pc'["relay"] # "run"
    <3>1. pc'["relay"] \in {"run", "bye"} => Dial
      BY <1>1, <1>4, PlaceMoves
    <3> QED BY <3>1
  <2>3. pc'["relay"] = "run" \/ pc'["relay"] \in {"idle", "dial", "connect"}
    <3>1. TaskInv'
      BY DEF Before, StateInv
    <3> QED BY <1>1, <2>1, <3>1 DEF TaskInv
  <2>4. pc'["relay"] # "connect"
    BY DEF Before, StateInv, PlaceInv
  <2>5. Dial /\ pc'["relay"] = "run" => "relay" \in reg'
    BY <1>1 DEF Dial, Goto
  <2> QED BY <1>4, <2>2, <2>3, <2>4, <2>5 DEF RegOk, Far
<1> QED BY <1>1, <1>2, <1>3, <1>4 DEF RegOk

\* All that the lemmas on a smooth way assume, and what it gives them.
Calm(d) == Before(d) /\ LastInv /\ Smooth(d)'
LEMMA CalmBasis ==
  ASSUME NEW d \in Ways, Calm(d)
  PROVE  /\ StateInv /\ StateInv' /\ Next /\ Before(d) /\ Smooth(d) /\ start' = start /\ start.local \in BOOLEAN
         /\ up /\ up' /\ start.accepts /\ quit \subseteq {Source(d)} /\ snapped' = {} /\ (start.local \/ ~Refused')
         /\ \A e \in Ends : Leave(e) => e = Source(d)
         /\ TaskInv /\ PlaceInv /\ OrderInv /\ pc \in [Bridges -> Places] /\ alive \in [Bridges -> SUBSET Ways]
         /\ In(d)' = In(d) /\ Out(d)' = Out(d) /\ In(d) \in Bridges /\ Out(d) \in Bridges
         /\ In(Back(d)) = Out(d) /\ Back(d) \in Ways /\ Back(d) # d /\ Ways = {d, Back(d)}
         /\ Source(Back(d)) = FarEnd(d) /\ FarEnd(d) # Source(d)
         /\ ~start.local => Far(Back(d)) = In(d) /\ Other(In(d)) = Out(d) /\ Out(d) = Far(d) /\ In(d) # Out(d)
         /\ start.local => In(d) = "local" /\ Out(d) = "local"
         /\ QuitInv /\ FinInv(d) /\ FinInv(Back(d)) /\ RegInv(d) /\ RegInv(Back(d)) /\ RegInv("down") /\ WordsInv(d)
<1>1. StateInv /\ StateInv' /\ Next /\ Before(d) /\ Smooth(d)'
  BY DEF Calm, Before
<1>2. /\ Smooth(d) /\ snapped' = {} /\ (start.local \/ ~Refused') /\ start' = start
      /\ \A e \in Ends : Leave(e) => e = Source(d)
  BY <1>1, SmoothFalls, SameStart
<1>3. up /\ up' /\ start.accepts /\ quit \subseteq {Source(d)}
  BY <1>1, <1>2 DEF Smooth
<1>4. /\ TaskInv /\ PlaceInv /\ OrderInv /\ pc \in [Bridges -> Places] /\ alive \in [Bridges -> SUBSET Ways]
      /\ start.local \in BOOLEAN
  BY <1>1, Basis DEF StateInv
<1>5. In(d)' = In(d) /\ Out(d)' = Out(d) /\ In(d) \in Bridges /\ Out(d) \in Bridges
  BY <1>2, <1>4, Views, WayNames
<1>6. /\ In(Back(d)) = Out(d) /\ Back(d) \in Ways /\ Back(d) # d /\ Ways = {d, Back(d)}
      /\ Source(Back(d)) = FarEnd(d) /\ FarEnd(d) # Source(d)
      /\ ~start.local => Far(Back(d)) = In(d) /\ Other(In(d)) = Out(d) /\ Out(d) = Far(d) /\ In(d) # Out(d)
      /\ start.local => In(d) = "local" /\ Out(d) = "local"
  BY <1>4, Names DEF In, Out, Back, Far, Source, Entry, Other, FarEnd
<1>7. /\ QuitInv /\ FinInv(d) /\ FinInv(Back(d)) /\ RegInv(d) /\ RegInv(Back(d)) /\ RegInv("down") /\ WordsInv(d)
  BY <1>6, Names DEF Calm, LastInv
<1> QED BY <1>1, <1>2, <1>3, <1>4, <1>5, <1>6, <1>7

\* Who leaves has no task, and is not about to get one.
LEMMA LeavingIsStill ==
  ASSUME StateInv, NEW s \in Sides, Leaving(s), NEW d \in Ways
  PROVE  ~Flowing(s, d) /\ pc[s] # "run"
<1>1. pc[s] \in {"remove", "done"} /\ s \in Bridges
  BY Names DEF Leaving
<1> QED BY <1>1 DEF StateInv, TaskInv, Flowing, Pending

\* The tasks of the other way do not end first.
LEMMA BackRuns ==
  ASSUME NEW d \in Ways, Calm(d), NEW b \in Bridges
  PROVE  ~Finish(b, Back(d)) /\ (\A w \in Ways : ~Raise(b, w))
<1>1. ASSUME Finish(b, Back(d)) PROVE FALSE
  <2>1. Back(d) \in alive[b] /\ fin[b][Back(d)] /\ pc[b] = "run"
    BY <1>1, CalmBasis DEF Finish, TaskInv
  <2>2. CASE b = Out(d)
    <3>1. Source(Back(d)) \in quit
      BY <2>1, <2>2, CalmBasis DEF FinInv
    <3> QED BY <3>1, CalmBasis
  <2>3. CASE b # Out(d)
    <3>1. ~start.local /\ b = In(d)
      <4>1. IF start.local THEN b = "local" ELSE b = In(Back(d)) \/ b = Out(Back(d))
        BY <2>1, CalmBasis, Running
      <4>2. ~start.local => Out(Back(d)) = Far(Back(d))
        BY DEF Out
      <4> QED BY <2>3, <4>1, <4>2, CalmBasis
    <3>2. Leaving(Out(d))
      BY <2>1, <3>1, CalmBasis DEF FinInv
    <3>3. Out(d) \in Sides /\ In(d) \in Sides
      BY <3>1, CalmBasis, WayNames
    <3>4. ~Flowing(Out(d), d)
      BY <3>2, <3>3, CalmBasis, LeavingIsStill
    <3>5. Leaving(In(d))
      BY <3>1, <3>4, CalmBasis DEF WordsInv
    <3> QED BY <2>1, <3>1, <3>3, <3>5, CalmBasis, LeavingIsStill
  <2> QED BY <2>2, <2>3
<1>2. ASSUME NEW w \in Ways, Raise(b, w) PROVE FALSE
  BY <1>2, CalmBasis DEF Raise
<1> QED BY <1>1, <1>2

\* How the visit can begin in a smooth way: nobody refuses.
LEMMA CalmStart ==
  ASSUME NEW d \in Ways, Calm(d), NEW b \in Bridges, Visit \/ Dial \/ Connect(b)
  PROVE  /\ \A x \in Bridges : \A w \in Ways : Flowing(x, w) => Flowing(x, w)'
         /\ \A x \in Bridges : pc'[x] = "run" => (pc[x] = "run" /\ alive'[x] = alive[x]) \/ alive'[x] = Ways
         /\ open \subseteq open'
         /\ Pending(Out("down")) => Pending(Out("down"))' \/ "app" \in open'
<1>0. Out("down")' = Out("down") /\ Out("down") \in Bridges
  BY CalmBasis, Names DEF Out, Far
<1>1. ASSUME UNCHANGED open, UNCHANGED alive, NEW x \in Bridges, NEW p \in {"dial", "connect"},
             pc' = [pc EXCEPT ![x] = p], Pending(x)
      PROVE  /\ \A y \in Bridges : \A w \in Ways : Flowing(y, w) => Flowing(y, w)'
             /\ \A y \in Bridges : pc'[y] = "run" => (pc[y] = "run" /\ alive'[y] = alive[y]) \/ alive'[y] = Ways
             /\ open \subseteq open'
             /\ Pending(Out("down")) => Pending(Out("down"))' \/ "app" \in open'
  BY <1>0, <1>1, CalmBasis DEF Flowing, Pending
<1>2. CASE Visit
  <2>1. pc[Entry("browser")] = "idle" /\ Entry("browser") \in Bridges
    BY <1>2, Names DEF Visit
  <2>2. ~(~start.local /\ Goto("relay", "done"))
    <3>1. ASSUME ~start.local, Goto("relay", "done") PROVE Refused'
      <4>1. pc["relay"] = "idle"
        BY <2>1, <3>1 DEF Entry
      <4>2. pc["agent"] = "idle" /\ wire["agent"] = <<>> /\ wire' = wire
        BY <1>2, <4>1, CalmBasis, Names DEF OrderInv, Visit
      <4> QED BY <3>1, <4>2, CalmBasis, Names DEF Refused, Goto
    <3> QED BY <3>1, CalmBasis
  <2>3. UNCHANGED open /\ UNCHANGED alive /\ \E p \in {"dial", "connect"} : pc' = [pc EXCEPT ![Entry("browser")] = p]
    BY <1>2, <2>2 DEF Visit, Goto, Entry
  <2> QED BY <1>1, <2>1, <2>3 DEF Pending
<1>3. CASE Dial
  <2>1. pc["relay"] = "dial" /\ ~start.local /\ "relay" \in Bridges /\ Out("down") = "agent"
    BY <1>3, CalmBasis, Names DEF Dial, PlaceInv, Out, Far
  <2>2. ~Goto("relay", "done")
    <3>1. ASSUME Goto("relay", "done") PROVE Refused'
      <4>1. pc["agent"] = "idle" /\ wire["agent"] = <<>> /\ pc'["relay"] = "done" /\ pc'["agent"] = "idle"
        BY <2>1, <3>1, CalmBasis, Names DEF OrderInv, Goto
      <4>2. wire' = wire
        BY <1>3, <2>1, <4>1, CalmBasis DEF Dial, StartTasks, Goto
      <4> QED BY <4>1, <4>2 DEF Refused
    <3> QED BY <2>1, <3>1, CalmBasis
  <2>3. UNCHANGED open /\ pc' = [pc EXCEPT !["relay"] = "run"] /\ alive' = [alive EXCEPT !["relay"] = Ways]
    BY <1>3, <2>2 DEF Dial, StartTasks, Goto
  <2> QED BY <1>0, <2>1, <2>3, CalmBasis DEF Flowing, Pending
<1>4. CASE Connect(b)
  <2>1. pc[b] = "connect" /\ b = Out("down")
    BY <1>4, CalmBasis, Names DEF Connect, PlaceInv, Out, Far
  <2>2. b = "local" \/ b \in reg
    <3>1. ~start.local => RegOk("down")
      BY <2>1, CalmBasis DEF RegInv, Flowing, Pending
    <3> QED BY <2>1, <3>1, CalmBasis, Names DEF RegOk, Out, Far
  <2>3. /\ open' = open \cup {"app"} /\ pc' = [pc EXCEPT ![b] = "run"] /\ alive' = [alive EXCEPT ![b] = Ways]
    BY <1>4, <2>2, CalmBasis DEF Connect, StartTasks, Goto
  <2> QED BY <2>1, <2>3, CalmBasis DEF Flowing, Pending
<1> QED BY <1>2, <1>3, <1>4

\* Only a task's own end stops a way.
LEMMA FlowStep ==
  ASSUME NEW d \in Ways, Calm(d), NEW b \in Bridges, Flowing(b, d), ~Flowing(b, d)'
  PROVE  Finish(b, d)
<1>1. \A e \in Ends : ~Say(e) /\ ~Leave(e)
  BY DEF Say, Leave, EndStep, Flowing, Pending
<1>2. ~Lose /\ \A s \in Sides : ~SideNext(s)
  BY DEF Lose, tasks, SideNext, Arrive, OnData, OnClose, TearDown, TunnelStep, Flowing, Pending
<1>3. ~OnWsOpen
  <2>1. OnWsOpen => pc["agent"] = "idle" /\ pc' = [pc EXCEPT !["agent"] = "connect"] /\ alive' = alive
    BY OpenFirst, CalmBasis DEF OnWsOpen, Goto, TunnelStep
  <2> QED BY <2>1, CalmBasis, Names DEF Flowing, Pending
<1>4. ~Visit /\ ~Dial /\ \A x \in Bridges : ~Connect(x)
  BY CalmStart
<1>5. \A x \in Bridges : ~RemoveStream(x) /\ ~Bye(x)
  <2>1. ASSUME NEW x \in Bridges, RemoveStream(x) \/ Bye(x) PROVE FALSE
    <3>1. alive' = alive /\ pc[x] \in {"remove", "bye"} /\ \E p : pc' = [pc EXCEPT ![x] = p]
      BY <2>1 DEF RemoveStream, Bye, Goto
    <3>2. alive[x] = {}
      BY <3>1, CalmBasis DEF TaskInv
    <3> QED BY <3>1, <3>2, CalmBasis DEF Flowing, Pending
  <2> QED BY <2>1
<1>6. \A x \in Bridges : ~Cancel(x)
  <2>1. ASSUME NEW x \in Bridges, Cancel(x) PROVE FALSE
    <3>1. pc[x] = "run" /\ alive[x] # Ways /\ alive' = [alive EXCEPT ![x] = {}] /\ \E p : pc' = [pc EXCEPT ![x] = p]
      BY <2>1 DEF Cancel, Goto
    <3>2. Back(d) \in alive[x]
      BY <3>1, CalmBasis DEF WordsInv
    <3>3. d \notin alive[x]
      BY <3>1, <3>2, CalmBasis
    <3>4. ~Flowing(x, d)
      BY <3>1, <3>3 DEF Flowing, Pending
    <3> QED BY <3>1, <3>4, CalmBasis DEF Flowing, Pending
  <2> QED BY <2>1
<1>7. \A x \in Bridges, w \in Ways : ~Receive(x, w) /\ ~Forward(x, w) /\ ~Raise(x, w)
  <2>1. \A x \in Bridges, w \in Ways : ~Receive(x, w) /\ ~Forward(x, w)
    BY DEF Receive, Forward, TaskStep, Flowing, Pending
  <2> QED BY <2>1, BackRuns
<1>8. ASSUME NEW x \in Bridges, NEW w \in Ways, Finish(x, w) PROVE x = b /\ w = d
  <2>1. w = d
    BY <1>8, BackRuns, CalmBasis
  <2>2. pc' = pc /\ alive' = [alive EXCEPT ![x] = @ \ {w}]
    BY <1>8 DEF Finish, TaskStep
  <2> QED BY <2>1, <2>2, CalmBasis DEF Flowing, Pending
<1> QED BY <1>1, <1>2, <1>3, <1>4, <1>5, <1>6, <1>7, <1>8, CalmBasis DEF Next, BridgeNext

LEMMA BackStep ==
  ASSUME NEW d \in Ways, Calm(d), NEW b \in Bridges, pc'[b] = "run"
  PROVE  Back(d) \in alive'[b]
<1>1. pc[b] = "run" => Back(d) \in alive[b]
  BY CalmBasis DEF WordsInv
<1>2. CASE alive'[b] = alive[b] /\ pc'[b] = pc[b]
  BY <1>1, <1>2
<1>3. CASE Visit \/ Dial \/ \E x \in Bridges : Connect(x)
  BY <1>1, <1>3, CalmStart, CalmBasis, Names
<1>4. CASE OnWsOpen
  <2>1. OnWsOpen => pc' = [pc EXCEPT !["agent"] = "connect"] /\ alive' = alive
    BY DEF OnWsOpen, Goto, TunnelStep
  <2> QED BY <1>1, <1>4, <2>1, CalmBasis, Names
<1>5. ASSUME NEW x \in Bridges, Cancel(x) \/ RemoveStream(x) \/ Bye(x) PROVE Back(d) \in alive'[b]
  <2>1. \E p : p # "run" /\ pc' = [pc EXCEPT ![x] = p]
    BY <1>5, Names DEF Cancel, RemoveStream, Bye, Goto
  <2>2. x # b
    BY <2>1, CalmBasis
  <2>3. alive'[b] = alive[b]
    BY <1>5, <2>2, CalmBasis DEF Cancel, RemoveStream, Bye
  <2> QED BY <1>2, <2>1, <2>2, <2>3, CalmBasis
<1>6. ASSUME NEW x \in Bridges, NEW w \in Ways, Receive(x, w) \/ Finish(x, w) \/ Forward(x, w) \/ Raise(x, w)
      PROVE  Back(d) \in alive'[b]
  <2>1. ~Raise(x, w) /\ (Finish(x, w) => w = d)
    BY BackRuns, CalmBasis
  <2>2. pc' = pc /\ (alive' = alive \/ alive' = [alive EXCEPT ![x] = @ \ {d}])
    BY <1>6, <2>1 DEF Receive, Finish, Forward, TaskStep
  <2> QED BY <1>1, <2>2, CalmBasis
<1>7. (\E e \in Ends : Say(e) \/ Leave(e)) \/ Lose \/ (\E s \in Sides : SideNext(s)) => alive' = alive /\ pc' = pc
  BY DEF Say, Leave, EndStep, Lose, tasks, SideNext, Arrive, OnData, OnClose, TearDown, TunnelStep
<1> QED BY <1>2, <1>3, <1>4, <1>5, <1>6, <1>7, CalmBasis DEF Next, BridgeNext

-----------------------------------------------------------------------------
(***************************************************************************)
(* A way whose first bridge has stopped: what is left to happen in it.      *)
(***************************************************************************)
Still(d) == Said(d)' = Said(d) /\ BoxIn(d)' = BoxIn(d) /\ Stays(d)

LEMMA AllStill ==
  ASSUME NEW d \in Ways, Before(d), said'[Source(d)] = said[Source(d)], heard'[FarEnd(d)] = heard[FarEnd(d)],
         \A b \in Bridges : box'[b][d] = box[b][d] /\ (hold'[b][d] = hold[b][d] \/ b # Out(d))
  PROVE  Still(d)
BY Basis, Views, WayNames DEF Still, Stays, Said, Heard, BoxIn, BoxOut, HoldOut

LEMMA NoneTouched ==
  ASSUME NEW d \in Ways, Before(d), UNCHANGED <<said, heard, box, hold>>
  PROVE  Still(d)
BY AllStill, Basis

LEMMA DrainedEnds ==
  ASSUME NEW d \in Ways, Calm(d), ~Flowing(In(d), d), Source(d) \notin open,
         NEW e \in Ends, Say(e) \/ Leave(e)
  PROVE  Still(d) /\ Wire(d)' = Wire(d)
<1>0. Before(d) /\ start.local \in BOOLEAN
  BY CalmBasis
<1>1. e # Source(d) /\ Way(e) # d /\ UNCHANGED <<heard, hold, wire>>
  BY <1>0, WayNames DEF Say, Leave, EndStep, tunnel
<1>2. said'[Source(d)] = said[Source(d)] /\ \A b \in Bridges : box'[b][d] = box[b][d]
  <2>1. Source(d) \in Ends /\ Entry(e) \in Bridges /\ Way(e) \in Ways
    BY <1>0, WayNames, Names
  <2>2. said'[Source(d)] = said[Source(d)]
    BY <1>0, <1>1, <2>1, Basis DEF Say, Leave
  <2>3. ASSUME NEW b \in Bridges PROVE box'[b][d] = box[b][d]
    <3>1. box \in [Bridges -> [Ways -> Seq(Item)]]
      BY <1>0, Basis
    <3>2. box' = box \/ box' = [box EXCEPT ![Entry(e)][Way(e)] = Append(@, Script[e][Len(said[e]) + 1])]
      BY DEF Say, Leave
    <3> QED BY <1>1, <2>1, <3>1, <3>2
  <2> QED BY <2>2, <2>3
<1> QED BY <1>0, <1>1, <1>2, AllStill, Basis, Views DEF Wire

LEMMA DrainedArrival ==
  ASSUME NEW d \in Ways, Calm(d), NEW s \in Sides, OnData(s) \/ OnClose(s)
  PROVE  /\ Said(d)' = Said(d) /\ BoxIn(d)' = BoxIn(d) /\ Heard(d)' = Heard(d)
         /\ OnClose(s) \/ s # Far(d) => Still(d)
         /\ s # Far(d) => Wire(d)' = Wire(d)
<1>0. /\ Before(d) /\ start.local \in BOOLEAN /\ box \in [Bridges -> [Ways -> Seq(Item)]]
      /\ wire \in [Sides -> Seq(Frame)] /\ start' = start
  BY CalmBasis, Basis
<1>1. /\ UNCHANGED <<said, heard, hold>> /\ wire' = [wire EXCEPT ![s] = Tail(@)]
      /\ box' = box \/ (OnData(s) /\ box' = [box EXCEPT ![s][Reader(s)] = Append(@, Head(wire[s]).payload)])
      /\ OnClose(s) => box' = box
  BY DEF OnData, OnClose, TunnelStep, ends, Take
<1>2. /\ Reader(s) \in Ways /\ s \in Bridges /\ Far(d) \in Sides /\ In(d) \in Bridges /\ Out(d) \in Bridges
      /\ (Reader(s) = d => s = Far(d)) /\ In(d) # Far(d)
  <2>1. In(d) # Far(d)
    BY <1>0, Names DEF In, Far, Entry, Source
  <2> QED BY <1>0, <2>1, WayNames, Names
<1>3. \A b \in Bridges : b # Far(d) \/ s # Far(d) => box'[b][d] = box[b][d]
  <2>1. ASSUME NEW b \in Bridges, b # Far(d) \/ s # Far(d) PROVE box'[b][d] = box[b][d]
    <3>1. ~(b = s /\ d = Reader(s))
      BY <1>2, <2>1
    <3> QED BY <1>0, <1>1, <1>2, <3>1
  <2> QED BY <2>1
<1>4. Said(d)' = Said(d) /\ BoxIn(d)' = BoxIn(d) /\ Heard(d)' = Heard(d)
  BY <1>0, <1>1, <1>2, <1>3, Views DEF Said, BoxIn, Heard
<1>5. s # Far(d) => Wire(d)' = Wire(d)
  BY <1>0, <1>1, <1>2, Views DEF Wire
<1>6. OnClose(s) => Still(d)
  BY <1>0, <1>1, NoneTouched
<1>7. s # Far(d) => Still(d)
  BY <1>0, <1>1, <1>3, AllStill
<1> QED BY <1>4, <1>5, <1>6, <1>7

LEMMA DrainedStart ==
  ASSUME NEW d \in Ways, Calm(d), ~Flowing(In(d), d), NEW b \in Bridges, Visit \/ Dial \/ Connect(b)
  PROVE  Still(d) /\ Wire(d)' = Wire(d)
<1>0. Before(d) /\ start.local \in BOOLEAN /\ start' = start /\ wire \in [Sides -> Seq(Frame)] /\ PlaceInv
  BY CalmBasis, Basis
<1>1. Still(d)
  <2>1. UNCHANGED <<said, heard, box, hold>>
    BY DEF Visit, Dial, Connect, StartStep
  <2> QED BY <1>0, <2>1, NoneTouched
<1>2. CASE Far(d) # "agent" \/ ~Dial
  <2>1. wire' = wire \/ (Dial /\ wire' = [wire EXCEPT !["agent"] = Append(@, [kind |-> "open"])])
    BY DEF Visit, Dial, Connect, Send
  <2>2. Far(d) \in Sides
    BY <1>0, WayNames
  <2>3. wire'[Far(d)] = wire[Far(d)]
    BY <1>0, <1>2, <2>1, <2>2, Names
  <2> QED BY <1>0, <1>1, <2>3, Views DEF Wire
<1>3. CASE Far(d) = "agent" /\ Dial
  <2>1. In(d) = "relay" /\ pc["relay"] = "dial"
    BY <1>0, <1>3, Names DEF Dial, PlaceInv, In, Far, Entry, Source
  <2> QED BY <2>1 DEF Flowing, Pending
<1> QED BY <1>2, <1>3

LEMMA DrainedEnding ==
  ASSUME NEW d \in Ways, Calm(d), NEW b \in Bridges, RemoveStream(b) \/ Bye(b)
  PROVE  /\ Still(d)
         /\ \/ Wire(d)' = Wire(d)
            \/ b = In(d) /\ Bye(b) /\ ~start.local /\ Wire(d)' = Append(Wire(d), [kind |-> "close"])
<1>0. Before(d) /\ start.local \in BOOLEAN /\ start' = start /\ wire \in [Sides -> Seq(Frame)] /\ PlaceInv
  BY CalmBasis, Basis
<1>1. Still(d)
  <2>1. UNCHANGED <<said, heard, box, hold>>
    BY DEF RemoveStream, Bye, EndingStep
  <2> QED BY <1>0, <2>1, NoneTouched
<1>2. Far(d) \in Sides /\ Wire(d) = wire[Far(d)] /\ Wire(d)' = wire'[Far(d)]
  BY <1>0, WayNames, Views DEF Wire
<1>3. wire' = wire \/ (Bye(b) /\ pc[b] = "bye" /\ wire' = [wire EXCEPT ![Other(b)] = Append(@, [kind |-> "close"])])
  BY DEF RemoveStream, Bye, Send
<1>4. CASE wire' = wire
  BY <1>1, <1>2, <1>4
<1>5. CASE wire' # wire
  <2>1. Bye(b) /\ pc[b] = "bye" /\ b \in Sides /\ ~start.local
    BY <1>0, <1>3, <1>5, Names DEF PlaceInv
  <2>2. Other(b) = Far(d) => b = In(d)
    <3>1. Other(Other(b)) = b
      BY <2>1, Names DEF Other
    <3> QED BY <1>0, <2>1, <3>1, WayNames
  <2>3. CASE Other(b) = Far(d)
    BY <1>0, <1>1, <1>2, <1>3, <1>5, <2>1, <2>2, <2>3
  <2>4. CASE Other(b) # Far(d)
    BY <1>0, <1>1, <1>2, <1>3, <1>5, <2>4
  <2> QED BY <2>3, <2>4
<1> QED BY <1>4, <1>5

LEMMA DrainedCancel ==
  ASSUME NEW d \in Ways, Calm(d), NEW b \in Bridges, Cancel(b)
  PROVE  /\ Said(d)' = Said(d) /\ BoxIn(d)' = BoxIn(d) /\ Heard(d)' = Heard(d) /\ Wire(d)' = Wire(d)
         /\ b # Out(d) => Still(d)
         /\ b = Out(d) => ~Flowing(Out(d), d)'
<1>0. /\ Before(d) /\ start' = start /\ hold \in [Bridges -> [Ways -> Seq(Item)]] /\ Out(d) \in Bridges
      /\ pc \in [Bridges -> Places] /\ alive \in [Bridges -> SUBSET Ways]
  BY CalmBasis, Basis
<1>1. UNCHANGED <<said, heard, box, wire>> /\ hold' = [hold EXCEPT ![b] = [x \in Ways |-> <<>>]]
  BY DEF Cancel, EndingStep
<1>2. Said(d)' = Said(d) /\ BoxIn(d)' = BoxIn(d) /\ Heard(d)' = Heard(d) /\ Wire(d)' = Wire(d)
  BY <1>0, <1>1, Views DEF Said, BoxIn, Heard, Wire
<1>3. b # Out(d) => Still(d)
  BY <1>0, <1>1, AllStill
<1>4. b = Out(d) => ~Flowing(Out(d), d)'
  <2>1. PICK p \in {"bye", "remove"} : pc' = [pc EXCEPT ![b] = p]
    BY Names DEF Cancel, Goto
  <2>2. alive'[b] = {} /\ pc'[b] \in {"bye", "remove"}
    BY <1>0, <2>1 DEF Cancel
  <2> QED BY <1>0, <2>2, Views
<1> QED BY <1>2, <1>3, <1>4

LEMMA DrainedTask ==
  ASSUME NEW d \in Ways, Calm(d), ~Flowing(In(d), d), NEW b \in Bridges, NEW w \in Ways,
         Receive(b, w) \/ Finish(b, w) \/ Forward(b, w) \/ Raise(b, w)
  PROVE  /\ Said(d)' = Said(d) /\ BoxIn(d)' = BoxIn(d)
         /\ \/ Still(d) /\ Wire(d)' = Wire(d)
            \/ b = Out(d) /\ w = d /\ ~start.local /\ (Receive(b, w) \/ Forward(b, w))
         /\ Heard(d)' = Heard(d) \/ (b = Out(d) /\ d \in alive[b])
<1>0. /\ Before(d) /\ start' = start /\ start.local \in BOOLEAN /\ ~Raise(b, w)
      /\ box \in [Bridges -> [Ways -> Seq(Item)]] /\ hold \in [Bridges -> [Ways -> Seq(Item)]]
      /\ heard \in [Ends -> Seq(Item)] /\ wire \in [Sides -> Seq(Frame)]
  BY CalmBasis, Basis, BackRuns
<1>1. CASE w # d
  <2>1. said' = said /\ \A x \in Bridges : box'[x][d] = box[x][d] /\ hold'[x][d] = hold[x][d]
    <3>1. box' = box \/ box' = [box EXCEPT ![b][w] = Tail(@)]
      BY DEF Receive, Finish, Forward, Raise
    <3>2. PICK h : hold' = hold \/ hold' = [hold EXCEPT ![b][w] = h]
      BY DEF Receive, Finish, Forward, Raise
    <3>3. ASSUME NEW x \in Bridges PROVE box'[x][d] = box[x][d] /\ hold'[x][d] = hold[x][d]
      <4>1. box'[x][d] = box[x][d]
        BY <1>0, <1>1, <3>1
      <4>2. hold'[x][d] = hold[x][d]
        BY <1>0, <1>1, <3>2
      <4> QED BY <4>1, <4>2
    <3> QED BY <3>3 DEF Receive, Finish, Forward, Raise, TaskStep
  <2>2. heard'[FarEnd(d)] = heard[FarEnd(d)]
    <3>1. FarEnd(w) # FarEnd(d) /\ FarEnd(w) \in Ends /\ FarEnd(d) \in Ends
      BY <1>1, Names DEF FarEnd
    <3> QED BY <1>0, <3>1 DEF Receive, Finish, Forward, Raise
  <2>3. wire'[Far(d)] = wire[Far(d)]
    <3>1. ToTunnel(b, w) => Other(b) # Far(d) /\ Far(d) \in Sides
      BY <1>1, Names DEF ToTunnel, Other, Far
    <3>2. wire' = wire \/ (ToTunnel(b, w) /\ \E f : wire' = [wire EXCEPT ![Other(b)] = Append(@, f)])
      BY DEF Receive, Finish, Forward, Raise, Send
    <3> QED BY <1>0, <3>1, <3>2
  <2>4. Still(d)
    BY <1>0, <2>1, <2>2, AllStill
  <2> QED BY <1>0, <2>3, <2>4, Views DEF Wire, Still, Stays
<1>2. CASE w = d
  <2>1. b # In(d) /\ b = Out(d) /\ ~start.local /\ d \in alive[b] /\ Said(d)' = Said(d)
    BY <1>0, <1>2, TaskViews DEF Flowing
  <2>2. BoxIn(d)' = BoxIn(d)
    BY <1>0, <1>2, <2>1, TaskViews, Views DEF BoxIn
  <2>3. Finish(b, w) => Still(d) /\ Wire(d)' = Wire(d)
    <3>1. Finish(b, w) => UNCHANGED <<said, heard, box, hold, wire>>
      BY DEF Finish, TaskStep
    <3> QED BY <1>0, <3>1, NoneTouched, Views DEF Wire
  <2> QED BY <1>0, <1>2, <2>1, <2>2, <2>3
<1> QED BY <1>1, <1>2

\* What a step can do to such a way.
LEMMA Drained ==
  ASSUME NEW d \in Ways, Calm(d), ~Flowing(In(d), d), Source(d) \notin open
  PROVE  /\ Source(d) \notin open' /\ Said(d)' = Said(d) /\ Passed(d)' = Passed(d)
         /\ d \notin alive[Out(d)] => Heard(d)' = Heard(d)
         /\ \/ Still(d) /\ Wire(d)' = Wire(d)
            \/ Still(d) /\ (OnWsOpen \/ OnClose(Far(d)))
            \/ Still(d) /\ ~start.local /\ Bye(In(d)) /\ Wire(d)' = Append(Wire(d), [kind |-> "close"])
            \/ OnData(Far(d))
            \/ ~start.local /\ (Receive(Out(d), d) \/ Forward(Out(d), d))
            \/ ~Flowing(Out(d), d)'
<1>0. Before(d) /\ StateInv /\ StateInv' /\ Next /\ start' = start /\ up /\ up' /\ In(d) \in Bridges
  BY CalmBasis
<1>1. Source(d) \notin open'
  <2>1. Gains
    BY <1>0, GainsStep
  <2>2. Source(d) = "app" => In(d) = Out("down")
    BY Names DEF Source, In, Out, Entry, Far
  <2> QED BY <2>1, <2>2 DEF Gains, Source, Flowing
<1>2. HoldIn(d) = <<>> /\ HoldIn(d)' = <<>>
  <2>1. d \notin alive[In(d)] /\ d \notin alive'[In(d)]
    BY <1>0, Basis, Views DEF Falls, Flowing
  <2> QED BY <1>0, <2>1, Views DEF StateInv, TaskInv, HoldIn
<1> DEFINE Fates ==
      /\ Said(d)' = Said(d) /\ BoxIn(d)' = BoxIn(d)
      /\ d \notin alive[Out(d)] => Heard(d)' = Heard(d)
      /\ \/ Still(d) /\ Wire(d)' = Wire(d)
         \/ Still(d) /\ (OnWsOpen \/ OnClose(Far(d)))
         \/ Still(d) /\ ~start.local /\ Bye(In(d)) /\ Wire(d)' = Append(Wire(d), [kind |-> "close"])
         \/ OnData(Far(d))
         \/ ~start.local /\ (Receive(Out(d), d) \/ Forward(Out(d), d))
         \/ ~Flowing(Out(d), d)'
<1>3. Still(d) => Said(d)' = Said(d) /\ BoxIn(d)' = BoxIn(d) /\ Heard(d)' = Heard(d)
  BY DEF Still, Stays
<1>4. ASSUME NEW e \in Ends, Say(e) \/ Leave(e) PROVE Fates
  BY <1>3, <1>4, DrainedEnds
<1>5. ASSUME OnWsOpen PROVE Fates
  <2>1. UNCHANGED <<said, heard, box, hold>>
    BY <1>5 DEF OnWsOpen, TunnelStep, ends
  <2>2. Still(d)
    BY <1>0, <2>1, NoneTouched
  <2> QED BY <1>3, <1>5, <2>2
<1>6. ~Lose /\ \A s \in Sides : ~TearDown(s)
  BY <1>0 DEF Lose, TearDown
<1>7. ASSUME NEW s \in Sides, OnData(s) \/ OnClose(s) PROVE Fates
  BY <1>3, <1>7, DrainedArrival
<1>8. ASSUME NEW b \in Bridges, Visit \/ Dial \/ Connect(b) PROVE Fates
  BY <1>3, <1>8, DrainedStart
<1>9. ASSUME NEW b \in Bridges, RemoveStream(b) \/ Bye(b) PROVE Fates
  BY <1>3, <1>9, DrainedEnding
<1>10. ASSUME NEW b \in Bridges, Cancel(b) PROVE Fates
  BY <1>10, DrainedCancel
<1>11. ASSUME NEW b \in Bridges, NEW w \in Ways, Receive(b, w) \/ Finish(b, w) \/ Forward(b, w) \/ Raise(b, w)
       PROVE  Fates
  BY <1>11, DrainedTask
<1> HIDE DEF Fates
<1>12. Fates
  <2>1. \A s \in Sides : SideNext(s) => Fates
    BY <1>6, <1>7 DEF SideNext, Arrive
  <2>2. \A b \in Bridges : BridgeNext(b) => Fates
    BY <1>8, <1>9, <1>10, <1>11 DEF BridgeNext
  <2>3. Visit \/ Dial => Fates
    BY <1>8, Names
  <2> QED BY <1>0, <1>4, <1>5, <1>6, <2>1, <2>2, <2>3 DEF Next
<1>13. Passed(d)' = Passed(d)
  BY <1>2, <1>12 DEF Passed, Fates
<1> QED BY <1>1, <1>12, <1>13 DEF Fates

-----------------------------------------------------------------------------
(***************************************************************************)
(* The conjuncts of WordsInv, one by one.                                   *)
(***************************************************************************)
LEMMA FarStep ==
  ASSUME NEW d \in Ways, Calm(d), Flowing(Out(d), d)'
  PROVE  FarOk(d)'
<1>0. /\ StateInv /\ Next /\ start' = start /\ start.local \in BOOLEAN /\ Out(d) \in Bridges /\ Out(d)' = Out(d)
      /\ PlaceInv /\ TaskInv /\ pc \in [Bridges -> Places] /\ FarEnd(d) # Source(d)
  BY CalmBasis
<1>1. Flowing(Out(d), d) /\ FarOk(d)
  <2>1. Flowing(Out(d), d)
    BY CalmBasis, Basis DEF Falls
  <2> QED BY <2>1, CalmBasis DEF WordsInv
<1>2. CASE FarEnd(d) \in open
  <2>1. ASSUME NEW e \in Ends, Say(e) \/ Leave(e) PROVE FarEnd(d) \in open'
    BY <1>0, <1>2, <2>1, CalmBasis DEF Say, Leave, CloseEnd
  <2>2. OnWsOpen \/ Lose \/ (\E s \in Sides : SideNext(s)) => open' = open
    BY DEF OnWsOpen, Lose, SideNext, Arrive, OnData, OnClose, TearDown, TunnelStep, ends
  <2>3. Visit \/ Dial \/ (\E b \in Bridges : Connect(b)) => FarEnd(d) \in open'
    BY <1>2, CalmStart, Names
  <2>4. ASSUME NEW b \in Bridges, RemoveStream(b) PROVE FarEnd(d) \in open'
    <3>1. pc[b] = "remove" /\ alive[b] = {}
      BY <1>0, <2>4 DEF RemoveStream, TaskInv
    <3>2. b # Out(d)
      BY <1>1, <3>1 DEF Flowing, Pending
    <3>3. IF start.local THEN b = "local" ELSE b # "local"
      BY <1>0, <3>1, Names DEF PlaceInv
    <3>4. ~start.local /\ (d = "down" => b = "relay") /\ (d = "up" => b = "agent")
      BY <1>0, <3>2, <3>3, Names DEF Out, Far
    <3> QED BY <1>2, <2>4, <3>4, Names DEF RemoveStream, FarEnd
  <2>5. \A b \in Bridges : Cancel(b) \/ Bye(b) => open' = open
    BY DEF Cancel, Bye
  <2>6. \A b \in Bridges, w \in Ways : Receive(b, w) \/ Finish(b, w) \/ Forward(b, w) \/ Raise(b, w) => open' = open
    BY DEF Receive, Finish, Forward, Raise, TaskStep
  <2>7. FarEnd(d) \in open'
    BY <1>0, <1>2, <2>1, <2>2, <2>3, <2>4, <2>5, <2>6 DEF Next, BridgeNext
  <2> QED BY <2>7 DEF FarOk, FarEnd
<1>3. CASE d = "down" /\ Pending(Out("down"))
  <2>1. CASE Visit \/ Dial \/ \E b \in Bridges : Connect(b)
    <3>1. Pending(Out("down"))' \/ "app" \in open'
      BY <1>3, <2>1, CalmStart, Names
    <3> QED BY <1>3, <3>1 DEF FarOk, FarEnd
  <2>2. CASE Quiet
    BY <1>0, <1>3, <2>2 DEF Quiet, FarOk, Pending
  <2>3. CASE OnWsOpen
    BY <1>0, <1>3, <2>3, Names DEF OnWsOpen, Goto, FarOk, Pending
  <2>4. ASSUME NEW b \in Bridges, Cancel(b) \/ RemoveStream(b) \/ Bye(b) PROVE FarOk(d)'
    <3>1. pc[b] \in {"run", "remove", "bye"} /\ \E p : pc' = [pc EXCEPT ![b] = p]
      BY <2>4 DEF Cancel, RemoveStream, Bye, Goto
    <3>2. pc'[Out(d)] = pc[Out(d)]
      BY <1>0, <1>3, <3>1 DEF Pending
    <3> QED BY <1>0, <1>3, <3>2 DEF FarOk, Pending
  <2> QED BY <1>0, <2>1, <2>2, <2>3, <2>4, StepKinds DEF Step
<1> QED BY <1>1, <1>2, <1>3 DEF FarOk

\* A task that has ended at its source's close has read all that came before it.
LEMMA SentStep ==
  ASSUME NEW d \in Ways, Calm(d), ~Flowing(In(d), d)'
  PROVE  AllSent(d)'
<1>1. CASE ~Flowing(In(d), d)
  <2>1. AllSent(d)
    BY <1>1, CalmBasis DEF WordsInv
  <2>2. Source(d) \notin open' /\ Said(d)' = Said(d) /\ Passed(d)' = Passed(d)
    BY <1>1, <2>1, Drained DEF AllSent
  <2> QED BY <2>1, <2>2 DEF AllSent, Source
<1>2. CASE Flowing(In(d), d)
  <2>1. Finish(In(d), d)
    <3>1. Flowing(In(d), d)' <=> d \in alive'[In(d)] \/ pc'[In(d)] \in {"idle", "dial", "connect"}
      BY CalmBasis, Views
    <3> QED BY <1>2, <3>1, CalmBasis, FlowStep DEF Flowing, Pending
  <2>2. BoxIn(d)' = <<>> /\ HoldIn(d)' = <<>> /\ fin[In(d)][d] /\ open' = open
    BY <2>1, CalmBasis, Views DEF Finish, TaskStep
  <2>3. Source(d) \notin open'
    BY <2>2, CalmBasis DEF FinInv, QuitInv
  <2>4. Passed(d)' = Len(Said(d)')
    <3>1. Len(Said(d)') \in Nat
      BY CalmBasis, Basis, WayNext, LenProperties
    <3>2. Len(BoxIn(d)') = 0 /\ Len(HoldIn(d)') = 0
      BY <2>2
    <3> QED BY <3>1, <3>2 DEF Passed
  <2> QED BY <2>3, <2>4 DEF AllSent, Source
<1> QED BY <1>1, <1>2

\* The last task ends after the last message: at the close of a stream nothing is
\* on its way any more.
LEMMA HeardStep ==
  ASSUME NEW d \in Ways, Calm(d), ~Flowing(Out(d), d)'
  PROVE  AllHeard(d)' /\ (start.local \/ Leaving(In(d))')
<1>0. /\ Before(d) /\ StateInv /\ Next /\ start' = start /\ start.local \in BOOLEAN
      /\ In(d) \in Bridges /\ Out(d) \in Bridges /\ TypeInv
      /\ ~start.local => In(d) \in Sides /\ Out(d) = Far(d) /\ Other(Far(d)) = In(d)
      /\ start.local => In(d) = "local" /\ Out(d) = "local"
  <2>1. start.local \in BOOLEAN
    BY CalmBasis
  <2>2. ~start.local => In(d) = Other(Far(d)) /\ Far(d) \in Sides
    BY <2>1, WayNames
  <2> QED BY <2>2, CalmBasis, Basis, Names
<1>1. CASE ~Flowing(Out(d), d)
  <2>1. AllHeard(d) /\ (start.local \/ Leaving(In(d)))
    BY <1>1, CalmBasis DEF WordsInv
  <2>2. ~Flowing(In(d), d)
    BY <1>0, <1>1, <2>1, LeavingIsStill
  <2>3. Source(d) \notin open' /\ Said(d)' = Said(d) /\ Heard(d)' = Heard(d)
    BY <1>1, <2>1, <2>2, Drained DEF AllHeard, Flowing
  <2>4. ~start.local => Leaving(In(d))'
    <3>1. \A s \in Sides : Leaving(s) => Leaving(s)'
      BY <1>0, PlaceMoves
    <3> QED BY <1>0, <2>1, <3>1, Views DEF Leaving
  <2> QED BY <2>1, <2>3, <2>4 DEF AllHeard, Source
<1>2. CASE Flowing(Out(d), d)
  <2>1. Finish(Out(d), d)
    <3>1. Flowing(Out(d), d)' <=> d \in alive'[Out(d)] \/ pc'[Out(d)] \in {"idle", "dial", "connect"}
      BY <1>0, Views
    <3> QED BY <1>0, <1>2, <3>1, FlowStep DEF Flowing, Pending
  <2>2. /\ BoxOut(d) = <<>> /\ HoldOut(d) = <<>> /\ fin[Out(d)][d]
        /\ UNCHANGED <<open, said, heard, pc>>
    BY <2>1 DEF Finish, TaskStep, BoxOut, HoldOut
  <2>3. Said(d)' = Said(d) /\ Heard(d)' = Heard(d)
    BY <1>0, <2>2, Views DEF Said, Heard
  <2>4. FarOk(d) /\ WayInv(d)
    BY <1>0, <1>2, CalmBasis DEF WordsInv, Before
  <2>5. Len(BoxOut(d)) = 0 /\ Len(HoldOut(d)) = 0 /\ Len(Said(d)) \in Nat /\ Len(Heard(d)) \in Nat
    BY <1>0, <2>2, WayNumbers
  <2>6. CASE start.local
    <3>1. Source(d) \notin open
      BY <1>0, <2>2, <2>6, CalmBasis DEF FinInv, QuitInv
    <3>2. BoxIn(d) = BoxOut(d) /\ HoldIn(d) = HoldOut(d)
      BY <1>0, <2>6 DEF BoxIn, BoxOut, HoldIn, HoldOut
    <3>3. Len(Heard(d)) = Passed(d)
      BY <1>0, <1>2, <2>4, <2>6 DEF WayInv, LocalInv
    <3>4. Len(Heard(d)) = Len(Said(d))
      BY <2>5, <3>2, <3>3 DEF Passed
    <3> QED BY <2>2, <2>3, <2>6, <3>1, <3>4 DEF AllHeard, Source
  <2>7. CASE ~start.local
    <3>1. Wire(d) = <<>> /\ Leaving(In(d))
      BY <1>0, <2>2, <2>7, CalmBasis DEF FinInv
    <3>2. ~Flowing(In(d), d)
      BY <1>0, <2>7, <3>1, LeavingIsStill
    <3>3. AllSent(d) /\ InTransit(d)
      BY <1>2, <2>7, <3>2, CalmBasis DEF WordsInv
    <3>4. Got(d) = Len(Heard(d)) /\ Len(Wire(d)) = 0 /\ Opens(d) = 0 /\ Closes(d) = 0
      BY <2>5, <3>1 DEF Got, Opens, Closes
    <3>5. Len(Heard(d)) = Len(Said(d))
      BY <2>5, <3>3, <3>4 DEF InTransit
    <3>6. Leaving(In(d))'
      BY <1>0, <2>2, <3>1, Views DEF Leaving
    <3> QED BY <2>2, <2>3, <3>3, <3>5, <3>6 DEF AllHeard, AllSent, Source
  <2> QED BY <2>6, <2>7
<1> QED BY <1>1, <1>2

\* What a wire loses at its head, or gains at its tail, is counted.
LEMMA TailCounts ==
  ASSUME NEW d \in Ways, Before(d), Wire(d) # <<>>, Wire(d)' = Tail(Wire(d))
  PROVE  /\ Len(Wire(d)') = Len(Wire(d)) - 1 /\ Opens(d)' = 0 /\ Len(Wire(d)) \in Nat
         /\ Closes(d)' = IF Wire(d)[1].kind = "close" THEN 0 ELSE Closes(d)
         /\ Wire(d)[1].kind = "close" => Closes(d) = 1 /\ Opens(d) = 0
<1>1. /\ Wire(d) \in Seq(Frame) /\ Len(Wire(d)) \in Nat \ {0} /\ Len(Wire(d)') = Len(Wire(d)) - 1
      /\ \A i \in 1..Len(Wire(d)') : i + 1 \in 1..Len(Wire(d)) /\ Wire(d)'[i] = Wire(d)[i + 1]
      /\ Wire(d)' \in Seq(Frame)
  <2>1. Wire(d) \in Seq(Frame)
    BY Basis, WayTypes
  <2> QED BY <2>1, HeadTailProperties
<1>2. /\ \A i \in 1..Len(Wire(d)) : Wire(d)[i].kind = "open" => i = 1
      /\ Wire(d)[1].kind = "close" => Wire(d)' = <<>>
  BY WireEnds
<1>3. Wire(d)' # <<>> => 1 \in 1..Len(Wire(d)') /\ Len(Wire(d)') \in 1..Len(Wire(d)') /\ Len(Wire(d)') + 1 = Len(Wire(d))
  BY <1>1
<1>4. Wire(d)' = <<>> => Len(Wire(d)) = 1
  <2>1. Wire(d)' = <<>> => Len(Wire(d)') = 0
    BY EmptySeq, Zenon
  <2>2. Len(Wire(d)) \in Nat /\ Len(Wire(d)') = Len(Wire(d)) - 1
    BY <1>1
  <2> QED BY <2>1, <2>2
<1>5. Opens(d)' = 0
  <2>1. Wire(d)' # <<>> => Wire(d)'[1].kind # "open"
    BY <1>1, <1>2, <1>3
  <2> QED BY <2>1 DEF Opens
<1>6. CASE Wire(d)[1].kind = "close"
  <2>1. Wire(d)' = <<>> /\ Len(Wire(d)) = 1
    BY <1>2, <1>6, <1>4
  <2>2. Closes(d)' = 0 /\ Closes(d) = 1 /\ Opens(d) = 0
    BY <1>6, <2>1 DEF Closes, Opens
  <2> QED BY <1>1, <1>5, <1>6, <2>2
<1>7. CASE Wire(d)[1].kind # "close"
  <2>1. CASE Wire(d)' = <<>>
    <3>1. Len(Wire(d)) = 1
      BY <1>4, <2>1
    <3>2. Closes(d)' = 0 /\ Closes(d) = 0
      BY <1>7, <2>1, <3>1 DEF Closes
    <3> QED BY <1>1, <1>5, <1>7, <3>2
  <2>2. CASE Wire(d)' # <<>>
    <3>1. Wire(d)'[Len(Wire(d)')] = Wire(d)[Len(Wire(d))]
      BY <1>1, <1>3, <2>2
    <3>2. Closes(d)' = Closes(d)
      BY <2>2, <3>1 DEF Closes
    <3> QED BY <1>1, <1>5, <1>7, <3>2
  <2> QED BY <2>1, <2>2
<1> QED BY <1>6, <1>7

LEMMA CloseCounts ==
  ASSUME NEW d \in Ways, Before(d), Wire(d)' = Append(Wire(d), [kind |-> "close"])
  PROVE  Len(Wire(d)') = Len(Wire(d)) + 1 /\ Opens(d)' = Opens(d) /\ Closes(d)' = 1 /\ Len(Wire(d)) \in Nat
<1>1. Wire(d) \in Seq(Frame) /\ Len(Wire(d)) \in Nat
  BY Basis, WayTypes, WayNumbers
<1>2. /\ Len(Wire(d)') = Len(Wire(d)) + 1 /\ Wire(d)'[Len(Wire(d)) + 1] = [kind |-> "close"]
      /\ \A i \in 1..Len(Wire(d)) : Wire(d)'[i] = Wire(d)[i]
  <2> DEFINE f == [kind |-> "close"]
  <2>1. f \in Frame
    BY FrameTypes
  <2> HIDE DEF f
  <2>2. Wire(d)' = Append(Wire(d), f)
    BY DEF f
  <2>3. /\ Len(Wire(d)') = Len(Wire(d)) + 1 /\ Wire(d)'[Len(Wire(d)) + 1] = f
        /\ \A i \in 1..Len(Wire(d)) : Wire(d)'[i] = Wire(d)[i]
    BY <1>1, <2>1, <2>2, AppendProperties
  <2> QED BY <2>3 DEF f
<1>3. Wire(d)' # <<>>
  BY <1>1, <1>2
<1>4. Closes(d)' = 1
  BY <1>2, <1>3 DEF Closes
<1>5. Opens(d)' = Opens(d)
  <2>1. CASE Wire(d) = <<>>
    BY <1>1, <1>2, <2>1 DEF Opens
  <2>2. CASE Wire(d) # <<>>
    <3>1. 1 \in 1..Len(Wire(d))
      BY <1>1, <2>2
    <3> QED BY <1>2, <1>3, <2>2, <3>1 DEF Opens
  <2> QED BY <2>1, <2>2
<1> QED BY <1>1, <1>2, <1>4, <1>5

\* While the first bridge has not left there is no WS_CLOSE on the wire.
LEMMA NoCloseYet ==
  ASSUME NEW d \in Ways, Before(d), ~start.local, ~Leaving(In(d))
  PROVE  Closes(d) = 0
<1>1. Wire(d) \in Seq(Frame) /\ WireInv(Far(d)) /\ In(d) = Other(Far(d)) /\ Wire(d) = wire[Far(d)]
  <2>1. start.local \in BOOLEAN
    BY Basis
  <2>2. Far(d) \in Sides /\ In(d) = Other(Far(d))
    BY <2>1, WayNames
  <2> QED BY <2>2, Basis, WayTypes DEF Before, StateInv, WiresInv, Wire
<1>2. Wire(d) # <<>> => Len(Wire(d)) \in 1..Len(Wire(d))
  BY <1>1
<1>3. Wire(d) # <<>> => Wire(d)[Len(Wire(d))].kind # "close"
  BY <1>1, <1>2 DEF WireInv
<1> QED BY <1>3 DEF Closes

\* The first bridge has stopped: what is still on its way is what was not yet got.
LEMMA TransitStep ==
  ASSUME NEW d \in Ways, Calm(d), ~start.local, Flowing(Out(d), d)', ~Flowing(In(d), d)'
  PROVE  InTransit(d)'
<1>0. /\ Before(d) /\ StateInv /\ TypeInv /\ TypeInv' /\ Next /\ start' = start /\ up /\ WayInv(d) /\ TaskInv
      /\ In(d) \in Bridges /\ In(d) \in Sides /\ Out(d) \in Bridges /\ Out(d) = Far(d) /\ Far(d) \in Sides
      /\ In(d) # Out(d) /\ Reader(Far(d)) = d
  <2>1. start.local \in BOOLEAN
    BY CalmBasis
  <2>2. In(d) = Other(Far(d)) /\ Far(d) \in Sides /\ Reader(Far(d)) = d
    BY <2>1, WayNames
  <2> QED BY <2>2, CalmBasis, Basis, Names
<1>1. Flowing(Out(d), d) /\ FarOk(d) /\ RegOk(d)
  <2>1. Flowing(Out(d), d)
    BY <1>0, Basis DEF Falls
  <2> QED BY <1>0, <2>1, CalmBasis DEF WordsInv, RegInv
<1>2. ExitOk(d) /\ WireOk(d)
  BY <1>0, <1>1 DEF WayInv, ExitInv, ExitOk
<1>3. /\ Len(Said(d)) \in Nat /\ Len(Heard(d)) \in Nat /\ Len(BoxOut(d)) \in Nat /\ Len(HoldOut(d)) \in Nat
      /\ Len(Wire(d)) \in Nat /\ Got(d) \in Nat /\ Opens(d) \in {0, 1} /\ Closes(d) \in {0, 1} /\ Passed(d) \in Int
  BY <1>0, WayNumbers DEF Closes
<1>4. ASSUME Wire(d)' = Wire(d) PROVE Opens(d)' = Opens(d) /\ Closes(d)' = Closes(d)
  BY <1>4 DEF Opens, Closes
<1>5. CASE Flowing(In(d), d)
  <2>1. Finish(In(d), d)
    <3>1. Flowing(In(d), d)' <=> d \in alive'[In(d)] \/ pc'[In(d)] \in {"idle", "dial", "connect"}
      BY <1>0, Views
    <3> QED BY <1>0, <1>5, <3>1, FlowStep DEF Flowing, Pending
  <2>2. UNCHANGED <<said, heard, box, hold, wire>>
    BY <2>1 DEF Finish, TaskStep
  <2>3. Got(d)' = Got(d) /\ Passed(d)' = Passed(d) /\ Said(d)' = Said(d) /\ Wire(d)' = Wire(d)
    BY <1>0, <2>2, Untouched, Views DEF Said, Wire
  <2>4. Passed(d)' = Len(Said(d)')
    BY SentStep DEF AllSent
  <2>5. Got(d) + Len(Wire(d)) - Opens(d) = Passed(d)
    BY <1>0, <1>2, <1>5 DEF WireOk
  <2>6. Closes(d) = 0
    BY <1>0, <1>5, LeavingIsStill, NoCloseYet
  <2> QED BY <1>3, <1>4, <2>3, <2>4, <2>5, <2>6 DEF InTransit
<1>6. CASE ~Flowing(In(d), d)
  <2>1. AllSent(d) /\ InTransit(d)
    BY <1>1, <1>6, CalmBasis DEF WordsInv
  <2>2. Got(d) + Len(Wire(d)) = Len(Said(d)) + Opens(d) + Closes(d)
    BY <2>1 DEF InTransit
  <2>3. /\ Said(d)' = Said(d)
        /\ \/ Still(d) /\ Wire(d)' = Wire(d)
           \/ Still(d) /\ (OnWsOpen \/ OnClose(Far(d)))
           \/ Still(d) /\ Bye(In(d)) /\ Wire(d)' = Append(Wire(d), [kind |-> "close"])
           \/ OnData(Far(d))
           \/ Receive(Out(d), d) \/ Forward(Out(d), d)
    BY <1>6, <2>1, Drained DEF AllSent
  <2>4. Still(d) => Got(d)' = Got(d)
    BY DEF Still, Stays, Got
  <2>5. CASE Still(d) /\ Wire(d)' = Wire(d)
    BY <1>4, <2>2, <2>3, <2>4, <2>5 DEF InTransit
  <2>6. CASE Still(d) /\ OnWsOpen
    <3>1. CASE Far(d) # "agent"
      <4>1. Wire(d)' = Wire(d)
        BY <1>0, <2>6, <3>1, Basis, Views, Names DEF OnWsOpen, Take, Wire
      <4> QED BY <2>5, <2>6, <4>1
    <3>2. CASE Far(d) = "agent"
      <4>1. Wire(d) # <<>> /\ Wire(d)' = Tail(Wire(d)) /\ Wire(d)[1].kind = "open"
        <5>1. wire["agent"] # <<>> /\ Head(wire["agent"]).kind = "open" /\ wire' = [wire EXCEPT !["agent"] = Tail(@)]
          BY <2>6 DEF OnWsOpen, Take
        <5>2. Wire(d) # <<>> /\ Wire(d)' = Tail(Wire(d)) /\ Head(Wire(d)).kind = "open"
          BY <1>0, <3>2, <5>1, Basis, Views DEF Wire
        <5> QED BY <1>0, <5>2, WireEnds
      <4>2. Len(Wire(d)') = Len(Wire(d)) - 1 /\ Opens(d)' = 0 /\ Closes(d)' = Closes(d) /\ Opens(d) = 1
        BY <1>0, <4>1, TailCounts DEF Opens
      <4> QED BY <1>3, <2>2, <2>3, <2>4, <2>6, <4>2 DEF InTransit
    <3> QED BY <3>1, <3>2
  <2>7. CASE Still(d) /\ OnClose(Far(d))
    <3>1. Wire(d) # <<>> /\ Wire(d)' = Tail(Wire(d)) /\ Wire(d)[1].kind = "close"
      <4>1. wire[Far(d)] # <<>> /\ Head(wire[Far(d)]).kind = "close" /\ wire' = [wire EXCEPT ![Far(d)] = Tail(@)]
        BY <2>7 DEF OnClose, Take
      <4>2. Wire(d) # <<>> /\ Wire(d)' = Tail(Wire(d)) /\ Head(Wire(d)).kind = "close"
        BY <1>0, <4>1, Basis, Views DEF Wire
      <4> QED BY <1>0, <4>2, WireEnds
    <3>2. Len(Wire(d)') = Len(Wire(d)) - 1 /\ Opens(d)' = 0 /\ Opens(d) = 0 /\ Closes(d)' = 0 /\ Closes(d) = 1
      BY <1>0, <3>1, TailCounts
    <3> QED BY <1>3, <2>2, <2>3, <2>4, <2>7, <3>2 DEF InTransit
  <2>8. CASE Still(d) /\ Bye(In(d)) /\ Wire(d)' = Append(Wire(d), [kind |-> "close"])
    <3>1. Len(Wire(d)') = Len(Wire(d)) + 1 /\ Opens(d)' = Opens(d) /\ Closes(d)' = 1
      BY <1>0, <2>8, CloseCounts
    <3>2. Closes(d) = 0
      <4>1. ~Leaving(In(d))
        BY <1>0, <2>8, Names DEF Bye, Leaving
      <4> QED BY <1>0, <4>1, NoCloseYet
    <3> QED BY <1>3, <2>2, <2>3, <2>4, <2>8, <3>1, <3>2 DEF InTransit
  <2>9. CASE OnData(Far(d))
    <3>1. Wire(d) # <<>> /\ Wire(d)' = Tail(Wire(d)) /\ Wire(d)[1].kind = "data" /\ Head(wire[Far(d)]) = Wire(d)[1]
      <4>1. wire[Far(d)] # <<>> /\ Head(wire[Far(d)]).kind = "data" /\ wire' = [wire EXCEPT ![Far(d)] = Tail(@)]
        BY <2>9 DEF OnData, Take
      <4>2. Wire(d) = wire[Far(d)] /\ Wire(d) # <<>> /\ Wire(d)' = Tail(Wire(d)) /\ Head(Wire(d)).kind = "data"
        BY <1>0, <4>1, Basis, Views DEF Wire
      <4> QED BY <1>0, <4>2, WireEnds
    <3>2. Len(Wire(d)') = Len(Wire(d)) - 1 /\ Opens(d)' = 0 /\ Opens(d) = 0 /\ Closes(d)' = Closes(d)
      BY <1>0, <3>1, TailCounts DEF Opens
    <3>3. Far(d) \in reg
      BY <1>0, <1>1, <3>1, WireEnds
    <3>4. BoxOut(d)' = Append(BoxOut(d), Wire(d)[1].payload) /\ UNCHANGED <<heard, hold>>
      <4>1. box' = [box EXCEPT ![Far(d)][d] = Append(@, Head(wire[Far(d)]).payload)] /\ UNCHANGED <<heard, hold>>
        BY <1>0, <2>9, <3>3 DEF OnData, TunnelStep, ends
      <4>2. box'[Far(d)][d] = Append(box[Far(d)][d], Wire(d)[1].payload)
        BY <1>0, <3>1, <4>1, Basis
      <4> QED BY <1>0, <4>1, <4>2, Views DEF BoxOut
    <3>5. Heard(d)' = Heard(d) /\ HoldOut(d)' = HoldOut(d) /\ Len(BoxOut(d)') = Len(BoxOut(d)) + 1
      <4>1. Heard(d)' = Heard(d) /\ HoldOut(d)' = HoldOut(d)
        BY <1>0, <3>4, Views DEF Heard, HoldOut
      <4>2. BoxOut(d) \in Seq(Item) /\ BoxOut(d)' \in Seq(Item)
        BY <1>0, WayTypes, WayNext
      <4>3. Wire(d)[1].payload \in Item
        <5>1. Wire(d) \in Seq(Frame) /\ 1 \in 1..Len(Wire(d))
          BY <1>0, <3>1, WayTypes, WireEnds
        <5> QED BY <3>1, <5>1, FrameTypes, ElementOfSeq
      <4>4. Len(BoxOut(d)') = Len(BoxOut(d)) + 1
        BY <3>4, <4>2, <4>3, AppendProperties
      <4> QED BY <4>1, <4>4
    <3>6. Got(d)' = Got(d) + 1
      BY <1>3, <3>5 DEF Got
    <3> QED BY <1>3, <2>2, <2>3, <3>2, <3>6 DEF InTransit
  <2>10. CASE Receive(Out(d), d)
    <3>1. /\ UNCHANGED <<heard, wire>> /\ HoldOut(d) = <<>> /\ BoxOut(d) # <<>>
          /\ HoldOut(d)' = <<Head(BoxOut(d))>> /\ BoxOut(d)' = Tail(BoxOut(d))
      BY <1>0, <2>10, Basis, Views DEF Receive, HoldOut, BoxOut
    <3>2. Heard(d)' = Heard(d) /\ Wire(d)' = Wire(d)
      BY <1>0, <3>1, Views DEF Heard, Wire
    <3>3. Len(HoldOut(d)) = 0 /\ Len(HoldOut(d)') = 1 /\ Len(BoxOut(d)') = Len(BoxOut(d)) - 1
      <4>1. BoxOut(d) \in Seq(Item)
        BY <1>0, WayTypes
      <4> QED BY <3>1, <4>1, HeadTailProperties
    <3>4. Got(d)' = Got(d)
      BY <1>3, <3>2, <3>3 DEF Got
    <3> QED BY <1>4, <2>2, <2>3, <3>2, <3>4 DEF InTransit
  <2>11. CASE Forward(Out(d), d)
    <3>1. d \in alive[Out(d)] /\ ~ToTunnel(Out(d), d) /\ FarEnd(d) \in open /\ FarEnd(d) \in Ends
      <4>1. d \in alive[Out(d)] /\ ~Pending(Out(d)) /\ ~ToTunnel(Out(d), d)
        BY <1>0, <2>11, TaskViews
      <4> QED BY <1>1, <4>1, Names DEF FarOk
    <3>2. /\ HoldOut(d) # <<>> /\ HoldOut(d)' = <<>> /\ box' = box /\ wire' = wire
          /\ heard' = [heard EXCEPT ![FarEnd(d)] = Append(@, ToEnd(Out(d), d))]
      BY <1>0, <2>11, <3>1, Basis, Views DEF Forward, HoldOut
    <3>3. BoxOut(d)' = BoxOut(d) /\ Wire(d)' = Wire(d) /\ Heard(d)' = Append(Heard(d), ToEnd(Out(d), d))
      BY <1>0, <3>1, <3>2, Basis, Views DEF BoxOut, Wire, Heard
    <3>4. Len(HoldOut(d)) = 1 /\ Len(HoldOut(d)') = 0
      BY <1>2, <3>2 DEF ExitOk
    <3>5. Len(Heard(d)') = Len(Heard(d)) + 1
      <4>1. Heard(d) \in Seq(Item) /\ HoldOut(d) \in Seq(Item)
        BY <1>0, WayTypes
      <4>2. ToEnd(Out(d), d) \in Item
        <5>1. Held(Out(d), d) \in Item
          BY <3>4, <4>1 DEF Held, HoldOut
        <5> QED BY <1>0, <5>1, Coding DEF ToEnd, Item
      <4> QED BY <3>3, <4>1, <4>2, AppendProperties
    <3>6. Got(d)' = Got(d)
      BY <1>3, <3>3, <3>4, <3>5 DEF Got
    <3> QED BY <1>4, <2>2, <2>3, <3>3, <3>6 DEF InTransit
  <2> QED BY <2>3, <2>5, <2>6, <2>7, <2>8, <2>9, <2>10, <2>11
<1> QED BY <1>5, <1>6

-----------------------------------------------------------------------------
LEMMA LastInit == Init => LastInv
<1> SUFFICES ASSUME Init PROVE LastInv
  OBVIOUS
<1>1. Ordered /\ start.local \in BOOLEAN
  BY OrderedInit, WayTypes, Names DEF Ordered, StateInv
<1>2. \A b \in Bridges : Pending(b) /\ pc[b] # "run"
  BY DEF Init, Pending
<1>3. QuitInv
  BY DEF Init, QuitInv
<1>4. ASSUME NEW d \in Ways PROVE FinInv(d) /\ RegInv(d) /\ WordsInv(d)
  <2>1. In(d) \in Bridges /\ Out(d) \in Bridges /\ Far(d) \in Bridges
    BY <1>1, WayNames, Names
  <2>2. Flowing(In(d), d) /\ Flowing(Out(d), d)
    BY <1>2, <2>1 DEF Flowing
  <2>3. FinInv(d)
    BY <2>1 DEF Init, FinInv
  <2>4. RegOk(d)
    BY Names DEF Init, RegOk
  <2>5. FarOk(d)
    BY <1>2, <2>1, Names DEF Init, FarOk, FarEnd
  <2> QED BY <1>2, <2>2, <2>3, <2>4, <2>5 DEF RegInv, WordsInv
<1> QED BY <1>3, <1>4 DEF LastInv

LEMMA WordsStep ==
  ASSUME NEW d \in Ways, Before(d), LastInv
  PROVE  WordsInv(d)'
<1> SUFFICES ASSUME Smooth(d)'
             PROVE  /\ Flowing(Out(d), d)' => FarOk(d)'
                    /\ ~Flowing(In(d), d)' => AllSent(d)'
                    /\ ~Flowing(Out(d), d)' => AllHeard(d)' /\ (start.local \/ Leaving(In(d))')
                    /\ \A b \in Bridges : pc'[b] = "run" => Back(d) \in alive'[b]
                    /\ ~start.local /\ Flowing(Out(d), d)' /\ ~Flowing(In(d), d)' => InTransit(d)'
  BY Basis DEF WordsInv, Back
<1>1. Calm(d)
  BY DEF Calm
<1> QED BY <1>1, FarStep, SentStep, HeardStep, BackStep, TransitStep

LEMMA LastStep ==
  ASSUME Ordered, LastInv, [Next]_vars
  PROVE  LastInv'
<1>1. CASE Next
  <2>1. StateInv /\ StateInv' /\ \A d \in Ways : Before(d)
    BY <1>1, StateStep DEF Ordered, Before
  <2> QED BY <1>1, <2>1, QuitStep, FinStep, RegStep, WordsStep DEF LastInv
<1>2. CASE UNCHANGED vars
  <2>1. UNCHANGED <<start, said, heard, open, quit, pc, alive, box, fin, hold, up, wire, reg, snapped>>
    BY <1>2 DEF vars, ends, tasks, tunnel
  <2>2. QuitInv'
    BY <2>1 DEF LastInv, QuitInv, Pending, Out
  <2>3. ASSUME NEW d \in Ways PROVE FinInv(d)' /\ RegInv(d)' /\ WordsInv(d)'
    <3>1. /\ In(d)' = In(d) /\ Out(d)' = Out(d) /\ Wire(d)' = Wire(d) /\ Said(d)' = Said(d) /\ Heard(d)' = Heard(d)
          /\ Got(d)' = Got(d) /\ Passed(d)' = Passed(d)
          /\ (Flowing(In(d), d)' <=> Flowing(In(d), d)) /\ (Flowing(Out(d), d)' <=> Flowing(Out(d), d))
      BY <2>1, Views, Untouched DEF Said, Heard, Wire, Flowing, Pending
    <3>2. (FarOk(d)' <=> FarOk(d)) /\ (RegOk(d)' <=> RegOk(d)) /\ (Smooth(d)' <=> Smooth(d))
      BY <2>1, <3>1 DEF FarOk, RegOk, Smooth, Refused, Pending
    <3>3. Opens(d)' = Opens(d) /\ Closes(d)' = Closes(d)
      BY <3>1 DEF Opens, Closes
    <3>4. (AllSent(d)' <=> AllSent(d)) /\ (AllHeard(d)' <=> AllHeard(d)) /\ (InTransit(d)' <=> InTransit(d))
      BY <2>1, <3>1, <3>3 DEF AllSent, AllHeard, InTransit
    <3>5. \A s : Leaving(s)' <=> Leaving(s)
      BY <2>1 DEF Leaving
    <3>6. FinInv(d)'
      BY <2>1, <3>1, <3>5 DEF LastInv, FinInv
    <3>7. RegInv(d)'
      BY <2>1, <3>1, <3>2 DEF LastInv, RegInv
    <3>8. WordsInv(d)'
      BY <2>1, <3>1, <3>2, <3>4, <3>5 DEF LastInv, WordsInv
    <3> QED BY <3>6, <3>7, <3>8
  <2> QED BY <2>2, <2>3 DEF LastInv
<1> QED BY <1>1, <1>2

LEMMA LastWordsFollow ==
  ASSUME Ordered, LastInv
  PROVE  LastWords
<1>1. ASSUME NEW d \in Ways, up, snapped = {}, quit = {Source(d)}, start.accepts, \A b \in Used : pc[b] = "done"
      PROVE  Heard(d) = Said(d)
  <2>1. StateInv /\ TypeInv /\ start.local \in BOOLEAN /\ EndsInv(d)
    BY WayTypes DEF Ordered, StateInv, WayInv
  <2>2. Out(d) \in Used /\ Out(d) \in Bridges /\ (~start.local => "agent" \in Used)
    BY <2>1, Names DEF Out, Far, Used
  <2>3. Smooth(d)
    BY <1>1, <2>2 DEF Smooth, Refused
  <2>4. ~Flowing(Out(d), d)
    BY <1>1, <2>1, <2>2 DEF StateInv, TaskInv, Flowing, Pending
  <2>5. Len(Heard(d)) = Len(Said(d))
    BY <2>3, <2>4 DEF LastInv, WordsInv, AllHeard
  <2>6. Heard(d) \in Seq(Item) /\ Said(d) \in Seq(Item)
    BY <2>1, WayTypes
  <2>7. \A i \in 1..Len(Said(d)) : Heard(d)[i] = Said(d)[i]
    BY <2>1, <2>5 DEF EndsInv
  <2> QED BY <2>5, <2>6, <2>7, SeqEqual
<1>2. quit = {"app"} => start.accepts
  BY DEF LastInv, QuitInv
<1>3. /\ Source("up") = "app" /\ Said("up") = said["app"] /\ Heard("up") = heard["browser"]
      /\ Source("down") = "browser" /\ Said("down") = said["browser"] /\ Heard("down") = heard["app"]
  BY DEF Source, Said, Heard, FarEnd
<1> QED BY <1>1, <1>2, <1>3, Names DEF LastWords

\* When only one end closed, the tunnel held and no send failed, the other end has
\* got all that was said by the time the bridges are done: WS_CLOSE overtakes no
\* WS_DATA, a closed stream is read to its end, and no cancelled task held a message
\* (mount_proxy.py proxy_websocket, agent/proxy.py handle_ws_open_frame,
\* LocalAsgiMount.bridge_websocket).
THEOREM LastWordsHeard == Spec => []LastWords
<1>1. Init => Ordered /\ LastInv
  BY OrderedInit, LastInit
<1>2. Ordered /\ LastInv /\ [Next]_vars => (Ordered /\ LastInv)'
  BY OrderedStep, LastStep
<1>3. Ordered /\ LastInv => LastWords
  BY LastWordsFollow
<1> QED BY <1>1, <1>2, <1>3, PTL DEF Spec
=============================================================================
