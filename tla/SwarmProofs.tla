----------------------------- MODULE SwarmProofs -----------------------------
(***************************************************************************)
(* Proofs about Swarm, for any number of agents, samples and concurrent    *)
(* requests and any limits and lifetimes: the composition runs each        *)
(* component by its own rules, and the two together implement              *)
(* TelemetryCustody.                                                       *)
(*                                                                         *)
(* What was proved of a component alone is used here through an instance   *)
(* of its proof module, whose definitions are those of the component.      *)
(***************************************************************************)
EXTENDS Swarm, TLAPS

AP == INSTANCE EdgeAgentProofs
CP == INSTANCE ControlPlaneProofs

----------------------------------------------------------------------------
(* The instances of a component and of its proof module are the same. *)

LEMMA AgentConstants == AP!AgentAssumption
BY SwarmAssumption DEF A!AgentAssumption, AP!AgentAssumption, A!Origin, AP!Origin,
   A!Rows, AP!Rows, A!Priorities, AP!Priorities

LEMMA ControlConstants == CP!ControlPlaneAssumption /\ CP!DedupOutlivesState
BY SwarmAssumption DEF C!ControlPlaneAssumption, CP!ControlPlaneAssumption,
   C!DedupOutlivesState, CP!DedupOutlivesState, C!Origin, CP!Origin, C!Stamp, CP!Stamp

LEMMA AgentInitSame == A!Init <=> AP!Init
BY DEF A!Init, AP!Init

LEMMA CardinalitySame == \A S : A!Cardinality(S) = AP!Cardinality(S)
BY DEF A!Cardinality, AP!Cardinality

LEMMA SelectedSame == \A q : A!Selected(q) = AP!Selected(q)
BY CardinalitySame DEF A!Selected, AP!Selected, A!Precedes, AP!Precedes

LEMMA AgentNextSame == A!Next <=> AP!Next
<1> USE DEF A!listener, AP!listener, A!process, AP!process, A!InHand, AP!InHand,
            A!Held, AP!Held, A!Queued, AP!Queued, A!ResetFailures, AP!ResetFailures,
            A!Delivered, AP!Delivered, A!GivenUp, AP!GivenUp,
            A!IsNextRow, AP!IsNextRow, A!Precedes, AP!Precedes
<1>1. ASSUME NEW n PROVE A!Tick(n) <=> AP!Tick(n)
  BY DEF A!Tick, AP!Tick, A!InUse, AP!InUse, A!Origin, AP!Origin,
         A!Remembered, AP!Remembered
<1>2. ASSUME NEW n PROVE A!PostAccepted(n) <=> AP!PostAccepted(n)
  <2>1. A!DrainResults(n) = AP!DrainResults(n)
    BY SelectedSame DEF A!DrainResults, AP!DrainResults
  <2> QED BY <2>1 DEF A!PostAccepted, AP!PostAccepted
<1>3. ASSUME NEW n
      PROVE  /\ A!PostRejected(n) <=> AP!PostRejected(n)
             /\ A!PostFailed(n) <=> AP!PostFailed(n)
  BY DEF A!PostRejected, AP!PostRejected, A!PostFailed, AP!PostFailed,
         A!StoreHand, AP!StoreHand, A!Inserted, AP!Inserted,
         A!InsertFailed, AP!InsertFailed, A!Least, AP!Least, A!Broadcast, AP!Broadcast
<1>4. ASSUME NEW n
      PROVE  /\ A!DrainAnswered(n) <=> AP!DrainAnswered(n)
             /\ A!DrainFailed(n) <=> AP!DrainFailed(n)
  BY DEF A!DrainAnswered, AP!DrainAnswered, A!DrainFailed, AP!DrainFailed,
         A!Drained, AP!Drained, A!RemoveRow, AP!RemoveRow
<1>5. ASSUME NEW n
      PROVE  /\ A!EventLoop(n) <=> AP!EventLoop(n)
             /\ A!MeshListener(n) <=> AP!MeshListener(n)
             /\ A!Restart(n) <=> AP!Restart(n)
  BY DEF A!EventLoop, AP!EventLoop, A!ConnAck, AP!ConnAck, A!MqttError, AP!MqttError,
         A!MeshListener, AP!MeshListener, A!HearAndRelay, AP!HearAndRelay,
         A!HearAndIgnore, AP!HearAndIgnore, A!RelayDone, AP!RelayDone,
         A!Receive, AP!Receive, A!Remembered, AP!Remembered, A!Remember, AP!Remember,
         A!Least, AP!Least, A!Restart, AP!Restart
<1>6. ASSUME NEW n PROVE A!Crash(n) <=> AP!Crash(n)
  BY DEF A!Crash, AP!Crash, A!OnTheWire, AP!OnTheWire
<1> QED
  BY <1>1, <1>2, <1>3, <1>4, <1>5, <1>6
     DEF A!Next, AP!Next, A!MainLoop, AP!MainLoop

LEMMA AgentVarsSame == UNCHANGED A!vars <=> UNCHANGED AP!vars
BY DEF A!vars, AP!vars, A!process, AP!process, A!listener, AP!listener

LEMMA ControlInitSame == C!Init <=> CP!Init
BY DEF C!Init, CP!Init, C!DedupKeys, CP!DedupKeys, C!DedupKey, CP!DedupKey,
   C!Origin, CP!Origin, C!Stamp, CP!Stamp

LEMMA ControlNextSame == C!Next <=> CP!Next
<1> USE DEF C!Goto, CP!Goto, C!Finish, CP!Finish, C!expiring, CP!expiring,
            C!observed, CP!observed, C!Origin, CP!Origin, C!Stamp, CP!Stamp,
            C!DedupKey, CP!DedupKey
<1>1. ASSUME NEW h
      PROVE  /\ \A p : C!Arrive(h, p) <=> CP!Arrive(h, p)
             /\ C!DedupGet(h) <=> CP!DedupGet(h)
             /\ C!DupAnswer(h) <=> CP!DupAnswer(h)
             /\ C!DedupSet(h) <=> CP!DedupSet(h)
             /\ C!ReadHistory(h) <=> CP!ReadHistory(h)
  BY DEF C!Arrive, CP!Arrive, C!DedupGet, CP!DedupGet, C!DupAnswer, CP!DupAnswer,
         C!DedupSet, CP!DedupSet, C!ReadHistory, CP!ReadHistory
<1>2. ASSUME NEW h
      PROVE  /\ C!SetNode(h) <=> CP!SetNode(h)
             /\ C!PushHealth(h) <=> CP!PushHealth(h)
             /\ C!Answer(h) <=> CP!Answer(h)
             /\ C!Fault(h) <=> CP!Fault(h)
  BY DEF C!SetNode, CP!SetNode, C!PushHealth, CP!PushHealth, C!Pushed, CP!Pushed,
         C!Answer, CP!Answer, C!Fault, CP!Fault
<1>3. C!Clock <=> CP!Clock
  BY DEF C!Clock, CP!Clock, C!Countdown, CP!Countdown, C!DedupKeys, CP!DedupKeys
<1> QED BY <1>1, <1>2, <1>3 DEF C!Next, CP!Next

LEMMA ControlVarsSame == UNCHANGED C!vars <=> UNCHANGED CP!vars
BY DEF C!vars, CP!vars, C!expiring, CP!expiring, C!requests, CP!requests,
   C!observed, CP!observed

----------------------------------------------------------------------------
(* The composition adds no behaviour to its components. *)

\* What a step of the swarm does to the agents an agent does by itself.
LEMMA AgentSteps == [Next]_vars => [A!Next]_A!vars
<1> SUFFICES ASSUME [Next]_vars PROVE A!Next \/ UNCHANGED A!vars
  OBVIOUS
<1>1. ASSUME UNCHANGED agents PROVE UNCHANGED A!vars
  BY <1>1 DEF agents, A!vars, A!process, A!listener
<1>2. ASSUME NEW n \in Nodes, Tick(n) \/ PostEnds(n) \/ DrainPostEnds(n) PROVE A!Next
  BY <1>2 DEF Tick, PostEnds, DrainPostEnds, A!Next, A!MainLoop
<1>3. ASSUME NEW n \in Nodes, NEW p \in Packets, Relay(n, p) PROVE A!Next
  BY <1>3 DEF Relay, A!Next, A!MeshListener
<1>4. ASSUME NEW n \in Nodes, Local(n) \/ Crash(n) PROVE A!Next
  BY <1>4 DEF Local, Crash, A!Next, A!MeshListener
<1>5. ASSUME NEW m \in wire, Refuse(m) \/ \E h \in Handlers : Arrive(h, m)
      PROVE  UNCHANGED agents
  BY <1>5 DEF Refuse, Arrive
<1>6. ASSUME NEW h \in Handlers, Handle(h) \/ Respond(h) PROVE UNCHANGED agents
  BY <1>6 DEF Handle, Respond
<1>7. CASE Clock \/ UNCHANGED vars
  BY <1>1, <1>7 DEF Clock, vars
<1> QED BY <1>1, <1>2, <1>3, <1>4, <1>5, <1>6, <1>7 DEF Next

\* What a step of the swarm does to the ingestion the ingestion does by
\* itself.
LEMMA ControlSteps ==
    ASSUME wire \subseteq Requests
    PROVE  [Next]_vars => [C!Next]_C!vars
<1> SUFFICES ASSUME [Next]_vars PROVE C!Next \/ UNCHANGED C!vars
  OBVIOUS
<1>1. ASSUME UNCHANGED control PROVE UNCHANGED C!vars
  BY <1>1 DEF control, C!vars, C!expiring, C!requests, C!observed
<1>2. ASSUME NEW n \in Nodes,
             Tick(n) \/ PostEnds(n) \/ DrainPostEnds(n) \/ Local(n) \/ Crash(n)
      PROVE  UNCHANGED control
  BY <1>2 DEF Tick, PostEnds, DrainPostEnds, Gets, Breaks, Local, Crash
<1>3. ASSUME NEW n \in Nodes, NEW p \in Packets, Relay(n, p) PROVE UNCHANGED control
  BY <1>3 DEF Relay
<1>4. ASSUME NEW m \in wire, Refuse(m) PROVE UNCHANGED control
  BY <1>4 DEF Refuse
<1>5. ASSUME NEW m \in wire, NEW h \in Handlers, Arrive(h, m) PROVE C!Next
  BY <1>5 DEF Arrive, Requests, C!Next
<1>6. ASSUME NEW h \in Handlers, Handle(h) \/ Respond(h) PROVE C!Next
  BY <1>6 DEF Handle, Respond, C!Next
<1>7. CASE Clock \/ UNCHANGED vars
  BY <1>1, <1>7 DEF Clock, C!Next, vars
<1> QED BY <1>1, <1>2, <1>3, <1>4, <1>5, <1>6, <1>7 DEF Next

----------------------------------------------------------------------------
(* Types. *)

SwarmTypeInv ==
    /\ AP!QueueInv
    /\ CP!TypeInv
    /\ wire \subseteq Requests
    /\ caller \in [Handlers -> Nodes \cup {None}]
    /\ reply \in [Nodes -> {None, "created", "error"}]

\* The invariants of the components, in the words of this module.
LEMMA ComponentTypes == AP!QueueInv => A!TypeOK /\ A!QueueCoherent
BY DEF AP!QueueInv, AP!TypeInv, AP!TypeOK, A!TypeOK, AP!QueueCoherent,
   A!QueueCoherent, A!Rows, AP!Rows, A!Priorities, AP!Priorities, A!Fates, AP!Fates,
   A!Held, AP!Held, A!InHand, AP!InHand, A!Queued, AP!Queued, A!Origin, AP!Origin

LEMMA ControlTypes == CP!TypeInv => C!TypeOK /\ \A h \in Handlers :
                                       pc[h] # "idle" => pkt[h] \in Packets
BY DEF CP!TypeInv, CP!TypeOK, C!TypeOK, CP!BusyHasSample, C!DedupKeys, CP!DedupKeys,
   C!DedupKey, CP!DedupKey, C!Origin, CP!Origin, C!Stamp, CP!Stamp, C!Steps, CP!Steps

\* The agents keep their invariant in the swarm, and so does the ingestion.
LEMMA AgentInvKept == AP!QueueInv /\ [Next]_vars => AP!QueueInv'
BY AgentConstants, AgentSteps, AgentNextSame, AgentVarsSame, AP!NextQueue
   DEF AP!NextQueue

LEMMA ControlTypesKept ==
    wire \subseteq Requests /\ CP!TypeInv /\ [Next]_vars => CP!TypeInv'
BY ControlConstants, ControlSteps, ControlNextSame, ControlVarsSame, CP!NextTypes
   DEF CP!NextTypes

\* What the telemetry loop awaits: the sample in hand while it posts one,
\* the row it has come to while it drains, and nothing otherwise.
AwaitedAt(n) ==
    /\ Awaited(n) \subseteq Packets
    /\ Awaited(n) \subseteq A!Held(n)
    /\ main[n] = "posting" => hand[n] # None /\ Awaited(n) = {hand[n].pkt}
    /\ \A i \in DOMAIN queue[n] : A!IsNextRow(queue[n], batch[n], i) =>
         hand[n] = None /\ Awaited(n) = {queue[n][i].pkt}
    /\ main[n] \notin {"posting", "draining"} => Awaited(n) = {}
    /\ \A p, q \in Awaited(n) : p = q

AwaitsOne == \A n \in Nodes : AwaitedAt(n)

LEMMA AwaitedSample == AP!QueueInv => AwaitsOne
<1> SUFFICES ASSUME AP!QueueInv, NEW n \in Nodes PROVE AwaitedAt(n)
  BY DEF AwaitsOne
<1> DEFINE next == {i \in DOMAIN queue[n] : A!IsNextRow(queue[n], batch[n], i)}
<1>1. A!TypeOK /\ A!QueueCoherent
  BY ComponentTypes
<1>2. /\ hand[n] \in A!Rows \cup {None} /\ queue[n] \in Seq(A!Rows)
      /\ \A i \in DOMAIN queue[n] : queue[n][i] \in A!Rows
  BY <1>1 DEF A!TypeOK
<1>3. /\ main[n] = "posting" <=> hand[n] # None
      /\ main[n] = "draining" <=> batch[n] # {}
  BY <1>1 DEF A!QueueCoherent
<1>4. Awaited(n) = A!InHand(n) \cup {queue[n][i].pkt : i \in next}
  BY DEF Awaited
<1>5. \A i \in next : batch[n] # {} /\ hand[n] = None
  BY <1>3 DEF A!IsNextRow
<1>6. ASSUME NEW i \in next, NEW j \in next PROVE i = j
  <2>1. /\ queue[n][i].priority \in Int /\ queue[n][j].priority \in Int
        /\ i \in Int /\ j \in Int
    BY <1>2 DEF A!Rows, A!Priorities
  <2>2. /\ j = i \/ A!Precedes(queue[n], i, j)
        /\ i = j \/ A!Precedes(queue[n], j, i)
    BY DEF A!IsNextRow
  <2> QED BY <2>1, <2>2 DEF A!Precedes
<1>7. A!InHand(n) \subseteq Packets /\ \A i \in next : queue[n][i].pkt \in Packets
  BY <1>2 DEF A!InHand, A!Rows
<1>8. Awaited(n) \subseteq Packets /\ Awaited(n) \subseteq A!Held(n)
  BY <1>4, <1>7 DEF A!Held, A!Queued
<1>9. CASE hand[n] # None
  <2>1. next = {} /\ A!InHand(n) = {hand[n].pkt} /\ main[n] = "posting"
    BY <1>3, <1>5, <1>9 DEF A!InHand
  <2> QED BY <1>4, <1>8, <1>9, <2>1 DEF AwaitedAt
<1>10. CASE hand[n] = None
  <2>1. A!InHand(n) = {} /\ main[n] # "posting"
    BY <1>3, <1>10 DEF A!InHand
  <2>2. main[n] # "draining" => next = {}
    BY <1>3, <1>5
  <2>3. ASSUME NEW i \in next PROVE Awaited(n) = {queue[n][i].pkt}
    BY <1>4, <1>6, <2>1, <2>3
  <2> QED BY <1>4, <1>8, <1>10, <2>1, <2>2, <2>3 DEF AwaitedAt
<1> QED BY <1>9, <1>10

LEMMA InitSwarmTypes == Init => SwarmTypeInv
<1> SUFFICES ASSUME Init PROVE SwarmTypeInv
  OBVIOUS
<1>1. AP!QueueInv
  BY AgentConstants, AgentInitSame, AP!InitQueue DEF Init, AP!InitQueue
<1>2. CP!TypeInv
  BY ControlConstants, ControlInitSame, CP!InitTypes DEF Init, CP!InitTypes
<1> QED BY <1>1, <1>2 DEF Init, SwarmTypeInv

LEMMA NextSwarmTypes == SwarmTypeInv /\ [Next]_vars => SwarmTypeInv'
<1> SUFFICES ASSUME SwarmTypeInv, [Next]_vars PROVE SwarmTypeInv'
  OBVIOUS
<1>1. AP!QueueInv' /\ CP!TypeInv'
  BY AgentInvKept, ControlTypesKept DEF SwarmTypeInv
<1>2. AwaitsOne'
  BY <1>1, AwaitedSample, PTL
<1>3. ASSUME NEW n \in Nodes PROVE NextPost(n) \subseteq Requests
  BY <1>2 DEF AwaitsOne, AwaitedAt, NextPost, Requests
<1> DEFINE Links == /\ wire \subseteq Requests
                    /\ caller \in [Handlers -> Nodes \cup {None}]
                    /\ reply \in [Nodes -> {None, "created", "error"}]
<1>a. Links
  BY DEF SwarmTypeInv
<1>4. ASSUME NEW n \in Nodes, NEW answer, Gets(n, answer) PROVE Links'
  BY <1>a, <1>3, <1>4 DEF Gets
<1>5. ASSUME NEW n \in Nodes, Breaks(n) PROVE Links'
  <2> DEFINE mine == {m \in wire : m.from = n}
             orphans == [from : {None}, pkt : {m.pkt : m \in mine}]
  <2>1. orphans \subseteq Requests
    <3>1. {m.pkt : m \in mine} \subseteq Packets
      BY <1>a DEF Requests
    <3> QED BY <3>1 DEF Requests
  <2>2. wire' \subseteq Requests
    <3>1. wire' \subseteq wire \cup orphans \cup NextPost(n)
      BY <1>5 DEF Breaks
    <3> HIDE DEF orphans
    <3> QED BY <1>a, <1>3, <2>1, <3>1
  <2> QED BY <1>a, <1>5, <2>2 DEF Breaks
<1>6. ASSUME NEW n \in Nodes, Tick(n) PROVE Links'
  BY <1>a, <1>3, <1>6 DEF Tick
<1>7. ASSUME NEW n \in Nodes, NEW p \in Packets, Relay(n, p) PROVE Links'
  BY <1>a, <1>7 DEF Relay, Requests
<1>8. ASSUME NEW n \in Nodes, Local(n) PROVE Links'
  BY <1>a, <1>8 DEF Local, links
<1>9. ASSUME NEW m \in wire, Refuse(m) PROVE Links'
  BY <1>a, <1>9 DEF Refuse, ReplyTo, Requests
<1>10. ASSUME NEW m \in wire, NEW h \in Handlers, Arrive(h, m) PROVE Links'
  BY <1>a, <1>10 DEF Arrive, Requests
<1>11. ASSUME NEW h \in Handlers, Handle(h) PROVE Links'
  BY <1>a, <1>11 DEF Handle, links
<1>12. ASSUME NEW h \in Handlers, Respond(h) PROVE Links'
  BY <1>a, <1>12 DEF Respond, ReplyTo
<1>13. ASSUME Clock \/ UNCHANGED vars PROVE Links'
  BY <1>a, <1>13 DEF Clock, vars, links
<1>14. Links'
  BY <1>4, <1>5, <1>6, <1>7, <1>8, <1>9, <1>10, <1>11, <1>12, <1>13
     DEF Next, PostEnds, DrainPostEnds, Crash
<1> QED BY <1>1, <1>14 DEF SwarmTypeInv

\* Every variable of the swarm keeps its type.
THEOREM TypeCorrect == Spec => []TypeOK
<1>1. SwarmTypeInv => TypeOK
  BY ComponentTypes, ControlTypes DEF SwarmTypeInv, TypeOK
<1> QED BY <1>1, InitSwarmTypes, NextSwarmTypes, PTL DEF Spec

\* Projected to the variables of the agents, each behaviour of the swarm is
\* one that EdgeAgent allows: what is proved of the agents alone holds here.
THEOREM SwarmRunsAgents == Spec => A!Spec
<1>1. Init => A!Init
  BY DEF Init
<1> QED BY <1>1, AgentSteps, PTL DEF Spec, A!Spec

\* So is its projection to the ingestion one that ControlPlane allows.
THEOREM SwarmRunsControl == Spec => C!Spec
<1>1. Init => C!Init
  BY DEF Init
<1>2. SwarmTypeInv /\ [Next]_vars => [C!Next]_C!vars
  BY ControlSteps DEF SwarmTypeInv
<1> QED BY <1>1, <1>2, InitSwarmTypes, NextSwarmTypes, PTL DEF Spec, C!Spec


----------------------------------------------------------------------------
(* The samples the control plane has taken. *)

Writing == {"dedupSet", "history", "setNode", "push"}

TakenAgrees ==
    /\ Taken \subseteq Packets
    /\ \A p \in Packets : p \in Taken <=> CP!IsTaken(p)

LEMMA TakenIs == CP!TypeInv => TakenAgrees
<1>1. CP!TypeInv => stored \subseteq Packets
  BY ControlTypes DEF C!TypeOK
<1> QED BY <1>1 DEF TakenAgrees, Taken, CP!IsTaken, C!Storing, CP!Storing, C!Records, CP!Records

\* Without faults what was taken stays taken.
LEMMA TakenGrows ==
    ASSUME ~Faults, SwarmTypeInv, [Next]_vars
    PROVE  Taken \subseteq Taken'
<1>1. CP!TypeInv /\ CP!TypeInv' /\ [CP!Next]_CP!vars
  BY ControlTypesKept, ControlSteps, ControlNextSame, ControlVarsSame DEF SwarmTypeInv
<1>2. ASSUME NEW p \in Packets, CP!IsTaken(p) PROVE CP!IsTaken(p)'
  BY <1>1, <1>2, ControlConstants, CP!TakenStays DEF CP!TakenStays
<1>3. TakenAgrees /\ TakenAgrees'
  BY <1>1, TakenIs, PTL
<1> QED BY <1>2, <1>3 DEF TakenAgrees

\* The step of one handler that neither begins nor ends its writes changes
\* nothing that is taken.
LEMMA TakenSame ==
    ASSUME NEW h \in Handlers, UNCHANGED stored,
           \A g \in Handlers \ {h} : pc'[g] = pc[g] /\ pkt'[g] = pkt[g],
           \/ pc[h] \in Writing /\ pc'[h] \in Writing /\ pkt'[h] = pkt[h]
           \/ pc[h] \notin Writing /\ pc'[h] \notin Writing
    PROVE  Taken' = Taken
<1>1. ASSUME NEW p \in Packets PROVE C!Storing(p)' <=> C!Storing(p)
  BY DEF C!Storing, C!Records, Writing
<1> QED BY <1>1 DEF Taken

LEMMA TakenUnchanged == ASSUME UNCHANGED <<stored, pc, pkt>> PROVE Taken' = Taken
BY DEF Taken, C!Storing, C!Records


----------------------------------------------------------------------------
(* One POST of a telemetry loop and its way to the control plane and back. *)

\* What n's telemetry loop awaits is in one place: on the wire, with one
\* handler, or on its way back; and an answer 201 is true of it.
PostAt(n) ==
    /\ \A m \in wire : m.from = n =>
         /\ m.pkt \in Awaited(n)
         /\ reply[n] = None
         /\ \A h \in Handlers : caller[h] # n
    /\ \A h \in Handlers : caller[h] = n =>
         /\ pc[h] # "idle" /\ pkt[h] \in Awaited(n)
         /\ reply[n] = None
         /\ \A g \in Handlers : caller[g] = n => g = h
    /\ reply[n] # None => Awaited(n) # {}
    /\ reply[n] = "created" => Awaited(n) \subseteq Taken

PostsInOnePlace == \A n \in Nodes : PostAt(n)

\* What is under way, in work or recorded was measured by some agent.
Measured ==
    /\ \A m \in wire : fate[m.pkt] # "unused"
    /\ \A h \in Handlers : pc[h] # "idle" => fate[pkt[h]] # "unused"
    /\ \A p \in stored : fate[p] # "unused"

SwarmInv ==
    /\ SwarmTypeInv
    /\ AP!FateInv
    /\ CP!AckInv
    /\ PostsInOnePlace
    /\ Measured

\* A step that leaves the POST of k where it is.
LEMMA PostElsewhere ==
    ASSUME NEW k \in Nodes, PostAt(k), Taken \subseteq Taken',
           Awaited(k)' = Awaited(k), reply'[k] = reply[k],
           \A m \in wire' : m.from = k => m \in wire,
           \A h \in Handlers : caller'[h] = k =>
             caller[h] = k /\ (pc[h] # "idle" => pc'[h] # "idle" /\ pkt'[h] = pkt[h])
    PROVE  PostAt(k)'
<1>1. ASSUME NEW m \in wire', m.from = k
      PROVE  /\ m.pkt \in Awaited(k)' /\ reply'[k] = None
             /\ \A h \in Handlers : caller'[h] # k
  BY <1>1 DEF PostAt
<1>2. ASSUME NEW h \in Handlers, caller'[h] = k
      PROVE  /\ pc'[h] # "idle" /\ pkt'[h] \in Awaited(k)' /\ reply'[k] = None
             /\ \A g \in Handlers : caller'[g] = k => g = h
  BY <1>2 DEF PostAt
<1>3. /\ reply'[k] # None => Awaited(k)' # {}
      /\ reply'[k] = "created" => Awaited(k)' \subseteq Taken'
  BY DEF PostAt
<1> QED BY <1>1, <1>2, <1>3 DEF PostAt

\* The loop of n sends what it awaits next, and nothing older is left.
LEMMA PostSent ==
    ASSUME NEW n \in Nodes, None # "created", reply'[n] = None,
           \A m \in wire' : m.from = n => m.pkt \in Awaited(n)',
           \A h \in Handlers : caller'[h] # n
    PROVE  PostAt(n)'
<1>1. /\ \A m \in wire' : m.from = n =>
           /\ m.pkt \in Awaited(n)' /\ reply'[n] = None
           /\ \A h \in Handlers : caller'[h] # n
      /\ \A h \in Handlers : caller'[h] = n => FALSE
      /\ reply'[n] # None => FALSE
      /\ reply'[n] = "created" => FALSE
  OBVIOUS
<1> QED BY <1>1 DEF PostAt

\* A step of the agent n leaves what the others await alone.
LEMMA AwaitedAlone ==
    ASSUME NEW k \in Nodes, hand'[k] = hand[k], queue'[k] = queue[k], batch'[k] = batch[k]
    PROVE  Awaited(k)' = Awaited(k)
BY DEF Awaited, A!InHand, A!IsNextRow, A!Precedes


LEMMA OthersAlone ==
    ASSUME A!TypeOK, NEW n \in Nodes,
           Tick(n) \/ PostEnds(n) \/ DrainPostEnds(n) \/ Crash(n),
           NEW k \in Nodes, k # n
    PROVE  Awaited(k)' = Awaited(k)
<1>1. ASSUME A!Tick(n) PROVE hand'[k] = hand[k] /\ UNCHANGED <<queue, batch>>
  BY <1>1 DEF A!Tick, A!TypeOK
<1>2. ASSUME A!PostAccepted(n) PROVE hand'[k] = hand[k] /\ UNCHANGED queue /\ batch'[k] = batch[k]
  BY <1>2 DEF A!PostAccepted, A!TypeOK
<1>3. ASSUME A!PostRejected(n) \/ A!PostFailed(n)
      PROVE  hand'[k] = hand[k] /\ queue'[k] = queue[k] /\ UNCHANGED batch
  BY <1>3 DEF A!PostRejected, A!PostFailed, A!StoreHand, A!Inserted, A!InsertFailed, A!TypeOK
<1>4. ASSUME A!DrainAnswered(n) \/ A!DrainFailed(n)
      PROVE  UNCHANGED hand /\ queue'[k] = queue[k] /\ batch'[k] = batch[k]
  BY <1>4 DEF A!DrainAnswered, A!DrainFailed, A!Drained, A!TypeOK
<1>5. ASSUME A!Crash(n) PROVE hand'[k] = hand[k] /\ UNCHANGED queue /\ batch'[k] = batch[k]
  BY <1>5 DEF A!Crash, A!TypeOK
<1> QED BY <1>1, <1>2, <1>3, <1>4, <1>5, AwaitedAlone
        DEF Tick, PostEnds, DrainPostEnds, Crash

\* What a step of the agent n does to the connections.
LinksOf(n) ==
    /\ UNCHANGED control
    /\ reply'[n] = None
    /\ \A m \in wire' : m.from = n => m.pkt \in Awaited(n)'
    /\ \A h \in Handlers : caller'[h] # n
    /\ \A k \in Nodes \ {n} :
         /\ reply'[k] = reply[k]
         /\ \A m \in wire' : m.from = k => m \in wire
         /\ \A h \in Handlers : caller'[h] = k => caller[h] = k

LEMMA TickLinks ==
    ASSUME SwarmTypeInv, PostsInOnePlace, NEW n \in Nodes, Tick(n)
    PROVE  LinksOf(n)
<1>1. Awaited(n) = {}
  <2>1. main[n] = "idle"
    BY DEF Tick, A!Tick
  <2> QED BY <2>1, AwaitedSample DEF SwarmTypeInv, AwaitsOne, AwaitedAt
<1>2. reply[n] = None /\ (\A m \in wire : m.from # n) /\ \A h \in Handlers : caller[h] # n
  BY <1>1 DEF PostsInOnePlace, PostAt
<1>3. UNCHANGED <<caller, reply, control>> /\ wire' = wire \cup NextPost(n)
  BY DEF Tick
<1>4. \A m \in NextPost(n) : m.from = n /\ m.pkt \in Awaited(n)'
  BY DEF NextPost
<1> QED BY <1>2, <1>3, <1>4 DEF LinksOf

LEMMA GetsLinks ==
    ASSUME SwarmTypeInv, PostsInOnePlace, NEW n \in Nodes,
           Gets(n, "created") \/ Gets(n, "error")
    PROVE  LinksOf(n)
<1>1. reply[n] # None
  BY SwarmAssumption DEF Gets
<1>2. (\A m \in wire : m.from # n) /\ \A h \in Handlers : caller[h] # n
  BY <1>1 DEF PostsInOnePlace, PostAt
<1>3. /\ UNCHANGED <<caller, control>> /\ wire' = wire \cup NextPost(n)
      /\ reply' = [reply EXCEPT ![n] = None]
  BY DEF Gets
<1>4. \A m \in NextPost(n) : m.from = n /\ m.pkt \in Awaited(n)'
  BY DEF NextPost
<1> QED BY <1>2, <1>3, <1>4 DEF LinksOf, SwarmTypeInv

LEMMA BreaksLinks ==
    ASSUME SwarmTypeInv, NEW n \in Nodes, Breaks(n)
    PROVE  LinksOf(n)
<1> DEFINE mine == {m \in wire : m.from = n}
           orphans == [from : {None}, pkt : {m.pkt : m \in mine}]
<1>1. None \notin Nodes
  BY SwarmAssumption
<1>2. wire' \subseteq (wire \ mine) \cup orphans \cup NextPost(n)
  BY DEF Breaks
<1>3. /\ UNCHANGED control
      /\ caller' = [h \in Handlers |-> IF caller[h] = n THEN None ELSE caller[h]]
      /\ reply' = [reply EXCEPT ![n] = None]
  BY DEF Breaks
<1>4. \A m \in NextPost(n) : m.from = n /\ m.pkt \in Awaited(n)'
  BY DEF NextPost
<1>5. \A m \in orphans : m.from = None
  OBVIOUS
<1>6. \A m \in wire' : (m.from = n => m.pkt \in Awaited(n)')
                       /\ \A k \in Nodes \ {n} : m.from = k => m \in wire
  <2> HIDE DEF orphans
  <2> QED BY <1>1, <1>2, <1>4, <1>5
<1>7. \A h \in Handlers : caller'[h] # n /\ \A k \in Nodes : caller'[h] = k => caller[h] = k
  BY <1>1, <1>3
<1> QED BY <1>3, <1>6, <1>7 DEF LinksOf, SwarmTypeInv


LEMMA NextPosts ==
    ASSUME ~Faults, SwarmInv, [Next]_vars
    PROVE  PostsInOnePlace'
<1>a. /\ SwarmTypeInv /\ A!TypeOK /\ PostsInOnePlace /\ CP!AckInv
      /\ wire \subseteq Requests
      /\ pc \in [Handlers -> C!Steps] /\ pkt \in [Handlers -> Packets \cup {None}]
      /\ caller \in [Handlers -> Nodes \cup {None}]
      /\ reply \in [Nodes -> {None, "created", "error"}]
  BY ComponentTypes, ControlTypes DEF SwarmInv, SwarmTypeInv, C!TypeOK
<1>b. Taken \subseteq Taken' /\ TakenAgrees
  BY <1>a, TakenGrows, TakenIs DEF SwarmTypeInv
<1>c. None # "created" /\ None # "error" /\ None \notin Nodes
  BY SwarmAssumption
<1> SUFFICES ASSUME NEW k \in Nodes PROVE PostAt(k)'
  BY DEF PostsInOnePlace
<1>d. PostAt(k)
  BY <1>a DEF PostsInOnePlace
<1>e. ASSUME UNCHANGED agents PROVE Awaited(k)' = Awaited(k)
  BY <1>e, AwaitedAlone DEF agents
<1>1. ASSUME NEW n \in Nodes, Tick(n) \/ PostEnds(n) \/ DrainPostEnds(n) \/ Crash(n)
      PROVE  PostAt(k)'
  <2>1. LinksOf(n)
    BY <1>1, <1>a, TickLinks, GetsLinks, BreaksLinks DEF PostEnds, DrainPostEnds, Crash
  <2>2. CASE k = n
    BY <1>c, <2>1, <2>2, PostSent DEF LinksOf
  <2>3. CASE k # n
    <3>1. Awaited(k)' = Awaited(k)
      BY <1>1, <1>a, <2>3, OthersAlone
    <3>2. UNCHANGED <<pc, pkt>>
      BY <2>1 DEF LinksOf, control
    <3>3. /\ reply'[k] = reply[k]
          /\ \A m \in wire' : m.from = k => m \in wire
          /\ \A h \in Handlers : caller'[h] = k => caller[h] = k
      BY <2>1, <2>3 DEF LinksOf
    <3> QED BY <1>b, <1>d, <3>1, <3>2, <3>3, PostElsewhere
  <2> QED BY <2>2, <2>3
<1>2. ASSUME NEW n \in Nodes,
             Local(n) \/ \E p \in Packets : Relay(n, p)
      PROVE  PostAt(k)'
  <2>1. UNCHANGED <<hand, queue, batch>>
    BY <1>2 DEF Local, Relay, A!EventLoop, A!ConnAck, A!MqttError, A!HearAndIgnore,
                A!HearAndRelay, A!RelayDone, A!Restart, A!process
  <2>2. Awaited(k)' = Awaited(k)
    BY <2>1, AwaitedAlone
  <2>3. UNCHANGED <<caller, reply, pc, pkt>>
    BY <1>2 DEF Local, Relay, links, control
  <2>4. \A m \in wire' : m.from = k => m \in wire
    BY <1>2, <1>c DEF Local, Relay, links
  <2> QED BY <1>b, <1>d, <2>2, <2>3, <2>4, PostElsewhere
<1>3. ASSUME NEW m \in wire, Refuse(m) PROVE PostAt(k)'
  <2>1. Awaited(k)' = Awaited(k) /\ UNCHANGED <<caller, pc, pkt>>
    BY <1>3, <1>e DEF Refuse, control
  <2>2. /\ wire' = wire \ {m}
        /\ reply' = [j \in Nodes |-> IF j = m.from THEN "error" ELSE reply[j]]
    BY <1>3 DEF Refuse, ReplyTo
  <2>3. CASE k # m.from
    BY <1>b, <1>d, <2>1, <2>2, <2>3, PostElsewhere
  <2>4. CASE k = m.from
    <3>1. m.pkt \in Awaited(k) /\ (\A h \in Handlers : caller[h] # k)
      BY <1>d, <2>4 DEF PostAt
    <3>2. \A w \in wire' : w.from # k
      <4>1. \A p, q \in Awaited(k) : p = q
        BY <1>a, AwaitedSample DEF SwarmTypeInv, AwaitsOne, AwaitedAt
      <4>2. \A w \in wire : w.from = k => w.pkt \in Awaited(k)
        BY <1>d DEF PostAt
      <4>3. \A w \in wire : w.from = k => w = m
        BY <1>a, <2>4, <3>1, <4>1, <4>2 DEF Requests
      <4> QED BY <2>2, <4>3
    <3>3. reply'[k] = "error"
      BY <2>2, <2>4
    <3> QED BY <1>c, <2>1, <3>1, <3>2, <3>3 DEF PostAt
  <2> QED BY <2>3, <2>4
<1>4. ASSUME NEW m \in wire, NEW h \in Handlers, Arrive(h, m) PROVE PostAt(k)'
  <2>1. Awaited(k)' = Awaited(k) /\ UNCHANGED reply
    BY <1>4, <1>e DEF Arrive
  <2>2. /\ wire' = wire \ {m}
        /\ caller' = [caller EXCEPT ![h] = m.from]
        /\ pc[h] = "idle" /\ pc' = [pc EXCEPT ![h] = "dedupGet"]
        /\ pkt' = [pkt EXCEPT ![h] = m.pkt]
    BY <1>4 DEF Arrive, C!Arrive, C!Goto
  <2>3. CASE k # m.from
    <3>1. \A g \in Handlers : caller'[g] = k =>
            caller[g] = k /\ (pc[g] # "idle" => pc'[g] # "idle" /\ pkt'[g] = pkt[g])
      BY <1>a, <2>2, <2>3
    <3> QED BY <1>b, <1>d, <2>1, <2>2, <3>1, PostElsewhere
  <2>4. CASE k = m.from
    <3>1. /\ m.pkt \in Awaited(k) /\ reply[k] = None
          /\ \A g \in Handlers : caller[g] # k
      BY <1>d, <2>4 DEF PostAt
    <3>2. \A w \in wire' : w.from # k
      <4>1. \A p, q \in Awaited(k) : p = q
        BY <1>a, AwaitedSample DEF SwarmTypeInv, AwaitsOne, AwaitedAt
      <4>2. \A w \in wire : w.from = k => w.pkt \in Awaited(k)
        BY <1>d DEF PostAt
      <4>3. \A w \in wire : w.from = k => w = m
        BY <1>a, <2>4, <3>1, <4>1, <4>2 DEF Requests
      <4> QED BY <2>2, <4>3
    <3>3. \A g \in Handlers : caller'[g] = k => g = h
      BY <1>a, <2>2, <3>1
    <3>4. pc'[h] # "idle" /\ pkt'[h] \in Awaited(k)' /\ reply'[k] = None
      BY <1>a, <2>1, <2>2, <3>1
    <3> QED BY <1>c, <3>2, <3>3, <3>4 DEF PostAt
  <2> QED BY <2>3, <2>4
<1>5. ASSUME NEW h \in Handlers, Handle(h) PROVE PostAt(k)'
  <2>1. Awaited(k)' = Awaited(k) /\ UNCHANGED <<wire, caller, reply>>
    BY <1>5, <1>e DEF Handle, links
  <2>2. \A g \in Handlers : pc[g] # "idle" => pc'[g] # "idle" /\ pkt'[g] = pkt[g]
    BY <1>5, <1>a DEF Handle, C!DedupGet, C!DedupSet, C!ReadHistory, C!SetNode,
                      C!PushHealth, C!Goto
  <2> QED BY <1>b, <1>d, <2>1, <2>2, PostElsewhere
<1>6. ASSUME NEW h \in Handlers, Respond(h) PROVE PostAt(k)'
  <2>1. Awaited(k)' = Awaited(k) /\ UNCHANGED wire
    BY <1>6, <1>e DEF Respond
  <2>2. caller' = [caller EXCEPT ![h] = None] /\ C!Finish(h) /\ pc[h] # "idle"
    BY <1>6 DEF Respond, C!DupAnswer, C!Answer, C!Fault
  <2>3. PICK answer \in {"created", "error"} : ReplyTo(caller[h], answer)
    BY <1>6 DEF Respond
  <2>4. CASE caller[h] # k
    <3>1. \A g \in Handlers : caller'[g] = k =>
            caller[g] = k /\ (pc[g] # "idle" => pc'[g] # "idle" /\ pkt'[g] = pkt[g])
      BY <1>a, <1>c, <2>2, <2>4 DEF C!Finish
    <3>2. reply'[k] = reply[k]
      BY <2>3, <2>4 DEF ReplyTo
    <3> QED BY <1>b, <1>d, <2>1, <3>1, <3>2, PostElsewhere
  <2>5. CASE caller[h] = k
    <3>1. /\ pkt[h] \in Awaited(k) /\ reply[k] = None
          /\ \A g \in Handlers : caller[g] = k => g = h
      BY <1>d, <2>5 DEF PostAt
    <3>2. \A w \in wire' : w.from # k
      BY <1>d, <2>1, <2>5 DEF PostAt
    <3>3. \A g \in Handlers : caller'[g] # k
      BY <1>a, <1>c, <2>2, <3>1
    <3>4. reply'[k] = "created" => pkt[h] \in Taken
      <4>1. reply'[k] = answer
        BY <2>3, <2>5 DEF ReplyTo
      <4>2. CASE C!DupAnswer(h)
        BY <1>a, <1>b, <4>2, ControlTypes
           DEF C!DupAnswer, CP!AckInv, TakenAgrees, CP!TypeInv
      <4>3. CASE C!Answer(h)
        BY <1>a, <4>3 DEF C!Answer, CP!AckInv, Taken
      <4> QED BY <1>6, <4>2, <4>3 DEF Respond, C!Fault
    <3>5. \A p, q \in Awaited(k) : p = q
      BY <1>a, AwaitedSample DEF SwarmTypeInv, AwaitsOne, AwaitedAt
    <3>6. Awaited(k)' # {} /\ (reply'[k] = "created" => Awaited(k)' \subseteq Taken')
      BY <1>b, <2>1, <3>1, <3>4, <3>5
    <3> QED BY <3>2, <3>3, <3>6 DEF PostAt
  <2> QED BY <2>4, <2>5
<1>7. ASSUME Clock \/ UNCHANGED vars PROVE PostAt(k)'
  <2>1. Awaited(k)' = Awaited(k)
    BY <1>7, <1>e DEF Clock, vars
  <2>2. UNCHANGED <<wire, caller, reply, pc, pkt>>
    BY <1>7 DEF Clock, C!Clock, vars, links, control
  <2> QED BY <1>b, <1>d, <2>1, <2>2, PostElsewhere
<1> QED BY <1>1, <1>2, <1>3, <1>4, <1>5, <1>6, <1>7 DEF Next


\* The invariant of the agents' samples, in the words of this module.
SamplesKnown ==
    /\ \A n \in Nodes : \A p \in A!Held(n) \cup inbox[n] : fate[p] # "unused"
    /\ \A n \in Nodes : hand[n] # None => fate[hand[n].pkt] = "held"

LEMMA FateKnown == AP!FateInv => AP!QueueInv /\ SamplesKnown
<1> USE DEF AP!FateInv, AP!AllTaken, AP!HandIsOwed, AP!Circulating, AP!OnAir, AP!Held,
            AP!InHand, AP!Queued, A!Held, A!InHand, A!Queued
<1>1. AP!FateInv => \A n \in Nodes : \A p \in A!Held(n) \cup inbox[n] : fate[p] # "unused"
  OBVIOUS
<1>2. AP!FateInv => \A n \in Nodes : hand[n] # None => fate[hand[n].pkt] = "held"
  OBVIOUS
<1> QED BY <1>1, <1>2 DEF SamplesKnown

LEMMA FateKept == AP!FateInv /\ [Next]_vars => AP!FateInv'
BY AgentConstants, AgentSteps, AgentNextSame, AgentVarsSame, AP!NextFate
   DEF AP!NextFate

LEMMA AckKept ==
    ASSUME ~Faults, CP!DistinctKeys
    PROVE  SwarmTypeInv /\ CP!AckInv /\ [Next]_vars => CP!AckInv'
BY ControlConstants, ControlSteps, ControlNextSame, ControlVarsSame, CP!NextAck
   DEF CP!NextAck, SwarmTypeInv

\* A sample that was measured is never forgotten.
LEMMA FateStays ==
    ASSUME AP!QueueInv, [Next]_vars, NEW p \in Packets, fate[p] # "unused"
    PROVE  fate'[p] # "unused"
<1>1. AP!TypeOK /\ [AP!Next]_AP!vars
  BY AgentSteps, AgentNextSame, AgentVarsSame DEF AP!QueueInv, AP!TypeInv
<1> QED BY <1>1, AgentConstants, AP!FateStays DEF AP!FateStays


LEMMA NextMeasured ==
    ASSUME SwarmInv, [Next]_vars
    PROVE  Measured'
<1>a. /\ AP!QueueInv /\ AP!QueueInv' /\ SamplesKnown /\ SamplesKnown' /\ AwaitsOne'
      /\ SwarmTypeInv /\ A!TypeOK /\ Measured
  <2>1. SwarmTypeInv /\ AP!FateInv /\ AP!FateInv' /\ Measured
    BY FateKept DEF SwarmInv
  <2>2. AP!QueueInv /\ AP!QueueInv' /\ SamplesKnown /\ SamplesKnown'
    BY <2>1, FateKnown, PTL
  <2>3. AwaitsOne'
    BY <2>2, AwaitedSample, PTL
  <2> QED BY <2>1, <2>2, <2>3, ComponentTypes
<1>b. /\ wire \subseteq Requests /\ stored \subseteq Packets
      /\ pc \in [Handlers -> C!Steps] /\ pkt \in [Handlers -> Packets \cup {None}]
      /\ \A h \in Handlers : pc[h] # "idle" => pkt[h] \in Packets
  BY <1>a, ControlTypes DEF SwarmTypeInv, C!TypeOK
<1>c. /\ \A m \in wire : m.pkt \in Packets /\ fate'[m.pkt] # "unused"
      /\ \A h \in Handlers : pc[h] # "idle" => fate'[pkt[h]] # "unused"
      /\ \A p \in stored : fate'[p] # "unused"
  BY <1>a, <1>b, FateStays DEF Measured, Requests
<1>1. \A m \in wire' : fate'[m.pkt] # "unused"
  <2>1. ASSUME NEW n \in Nodes, NEW m \in NextPost(n) PROVE fate'[m.pkt] # "unused"
    <3>1. m.pkt \in Awaited(n)'
      BY DEF NextPost
    <3>2. m.pkt \in A!Held(n)'
      BY <1>a, <3>1 DEF AwaitsOne, AwaitedAt
    <3> QED BY <1>a, <3>2 DEF SamplesKnown
  <2>2. ASSUME NEW n \in Nodes, Breaks(n) PROVE \A m \in wire' : fate'[m.pkt] # "unused"
    <3> DEFINE mine == {m \in wire : m.from = n}
               orphans == [from : {None}, pkt : {m.pkt : m \in mine}]
    <3>1. wire' \subseteq wire \cup orphans \cup NextPost(n)
      BY <2>2 DEF Breaks
    <3>2. \A m \in orphans : fate'[m.pkt] # "unused"
      BY <1>c
    <3> HIDE DEF orphans
    <3> QED BY <1>c, <2>1, <3>1, <3>2
  <2>3. ASSUME NEW n \in Nodes,
               Tick(n) \/ Gets(n, "created") \/ Gets(n, "error")
        PROVE  \A m \in wire' : fate'[m.pkt] # "unused"
    BY <1>c, <2>1, <2>3 DEF Tick, Gets
  <2>4. ASSUME NEW n \in Nodes, NEW p \in Packets, Relay(n, p)
        PROVE  \A m \in wire' : fate'[m.pkt] # "unused"
    <3>1. p \in inbox[n] /\ fate' = fate
      BY <2>4 DEF Relay, A!HearAndRelay, A!Receive
    <3>2. fate'[p] # "unused"
      BY <1>a, <3>1 DEF SamplesKnown
    <3> QED BY <1>c, <2>4, <3>2 DEF Relay
  <2>5. ASSUME \/ \E n \in Nodes : Local(n)
               \/ \E m \in wire : Refuse(m) \/ \E h \in Handlers : Arrive(h, m)
               \/ \E h \in Handlers : Handle(h) \/ Respond(h)
               \/ Clock \/ UNCHANGED vars
        PROVE  wire' \subseteq wire
    BY <2>5 DEF Local, Refuse, Arrive, Handle, Respond, Clock, vars, links
  <2> QED BY <1>c, <2>2, <2>3, <2>4, <2>5 DEF Next, PostEnds, DrainPostEnds, Crash
<1>2. /\ \A h \in Handlers : pc'[h] # "idle" => fate'[pkt'[h]] # "unused"
      /\ \A p \in stored' : fate'[p] # "unused"
  <2>1. ASSUME NEW n \in Nodes,
               \/ Tick(n) \/ PostEnds(n) \/ DrainPostEnds(n) \/ Local(n) \/ Crash(n)
               \/ \E p \in Packets : Relay(n, p)
        PROVE  UNCHANGED <<pc, pkt, stored>>
    BY <2>1 DEF Tick, PostEnds, DrainPostEnds, Local, Crash, Relay, Gets, Breaks, control
  <2>2. ASSUME NEW m \in wire, Refuse(m) PROVE UNCHANGED <<pc, pkt, stored>>
    BY <2>2 DEF Refuse, control
  <2>3. CASE Clock \/ UNCHANGED vars
    BY <1>c, <2>3 DEF Clock, C!Clock, vars, control
  <2>4. ASSUME NEW m \in wire, NEW h \in Handlers, Arrive(h, m)
        PROVE  /\ UNCHANGED stored
               /\ \A g \in Handlers : pc'[g] # "idle" => fate'[pkt'[g]] # "unused"
    <3>1. /\ pkt' = [pkt EXCEPT ![h] = m.pkt] /\ pc' = [pc EXCEPT ![h] = "dedupGet"]
          /\ UNCHANGED stored
      BY <2>4 DEF Arrive, C!Arrive, C!Goto, C!observed
    <3>2. \A g \in Handlers : g # h => pc'[g] = pc[g] /\ pkt'[g] = pkt[g]
      BY <1>b, <3>1
    <3>3. pkt'[h] = m.pkt
      BY <1>b, <3>1
    <3> QED BY <1>c, <3>1, <3>2, <3>3
  <2>5. ASSUME NEW h \in Handlers, Handle(h)
        PROVE  /\ stored' \subseteq stored \cup {pkt[h]} /\ pc[h] # "idle"
               /\ UNCHANGED pkt
               /\ \A g \in Handlers : pc[g] = "idle" => pc'[g] = "idle"
    BY <1>b, <2>5 DEF Handle, C!DedupGet, C!DedupSet, C!ReadHistory, C!SetNode,
                      C!PushHealth, C!Goto, C!observed
  <2>6. ASSUME NEW h \in Handlers, Respond(h)
        PROVE  /\ UNCHANGED stored
               /\ \A g \in Handlers : pc'[g] = "idle" \/ (pc'[g] = pc[g] /\ pkt'[g] = pkt[g])
    <3>1. C!Finish(h) /\ UNCHANGED stored
      BY <2>6 DEF Respond, C!DupAnswer, C!Answer, C!Fault, C!observed
    <3> QED BY <1>b, <3>1 DEF C!Finish
  <2> QED BY <1>c, <2>1, <2>2, <2>3, <2>4, <2>5, <2>6 DEF Next
<1> QED BY <1>1, <1>2 DEF Measured

LEMMA InitSwarm == Init => SwarmInv
<1> SUFFICES ASSUME Init PROVE SwarmInv
  OBVIOUS
<1>1. SwarmTypeInv
  BY InitSwarmTypes
<1>2. AP!FateInv
  BY AgentConstants, AgentInitSame, AP!InitFate DEF Init, AP!InitFate
<1>3. CP!AckInv
  BY ControlConstants, ControlInitSame, CP!InitAck DEF Init, CP!InitAck
<1>4. Measured
  BY DEF Init, C!Init, Measured
<1>5. PostsInOnePlace
  BY SwarmAssumption DEF Init, PostsInOnePlace, PostAt
<1> QED BY <1>1, <1>2, <1>3, <1>4, <1>5 DEF SwarmInv

LEMMA NextSwarm ==
    ASSUME ~Faults, CP!DistinctKeys
    PROVE  SwarmInv /\ [Next]_vars => SwarmInv'
<1> SUFFICES ASSUME SwarmInv, [Next]_vars PROVE SwarmInv'
  OBVIOUS
<1>1. SwarmTypeInv' /\ AP!FateInv' /\ CP!AckInv'
  BY NextSwarmTypes, FateKept, AckKept DEF SwarmInv
<1> QED BY <1>1, NextPosts, NextMeasured DEF SwarmInv


----------------------------------------------------------------------------
(* The refinement: each step of the swarm changes what is owed for one     *)
(* sample at most, or what is recorded, and only as TelemetryCustody lets. *)

CustodyStep == [Custody!Next]_Custody!vars

\* What a step may do to the fate of the sample p.
FateStep(p) ==
    \/ fate'[p] = fate[p]
    \/ fate[p] = "unused" /\ fate'[p] = "held"
    \/ fate[p] \in {"held", "refused", "lost"} /\ fate'[p] \in {"refused", "lost"}
    \/ fate[p] \in {"held", "refused", "lost"} /\ fate'[p] = "delivered" /\ p \in Taken

LEMMA DebtStep ==
    ASSUME A!TypeOK, A!TypeOK', Taken' = Taken, NEW p \in Packets, FateStep(p),
           \A q \in Packets \ {p} : fate'[q] = fate[q]
    PROVE  CustodyStep
<1> DEFINE owes == [q \in Packets |-> Debt(q)]
<1>1. \A q \in Packets : fate[q] \in A!Fates /\ fate'[q] \in A!Fates
  BY DEF A!TypeOK
<1>2. \A q \in Packets \ {p} : Debt(q)' = Debt(q)
  BY DEF Debt
<1>3. owes' = [owes EXCEPT ![p] = Debt(p)']
  BY <1>2
<1>4. CASE fate'[p] = fate[p]
  <2>1. Debt(p)' = Debt(p)
    BY <1>4 DEF Debt
  <2> QED BY <1>2, <2>1 DEF CustodyStep, Custody!vars
<1>5. CASE fate[p] = "unused" /\ fate'[p] = "held"
  <2>1. Debt(p) = "none" /\ Debt(p)' = "owed"
    BY <1>5 DEF Debt
  <2>2. Custody!Take(p)
    BY <1>3, <2>1 DEF Custody!Take
  <2> QED BY <2>2 DEF CustodyStep, Custody!Next
<1>6. CASE fate[p] \in {"held", "refused", "lost"} /\ fate'[p] \in {"refused", "lost"}
  <2>1. Debt(p)' = "abandoned" /\ Debt(p) \in {"owed", "abandoned"}
    BY <1>6 DEF Debt
  <2>2. CASE Debt(p) = "abandoned"
    BY <1>2, <2>1, <2>2 DEF CustodyStep, Custody!vars
  <2>3. CASE Debt(p) = "owed"
    <3>1. Custody!Abandon(p)
      BY <1>3, <2>1, <2>3 DEF Custody!Abandon
    <3> QED BY <3>1 DEF CustodyStep, Custody!Next
  <2> QED BY <2>1, <2>2, <2>3
<1>7. CASE fate[p] \in {"held", "refused", "lost"} /\ fate'[p] = "delivered" /\ p \in Taken
  <2>1. Debt(p)' = "settled" /\ Debt(p) \in {"owed", "abandoned"}
    BY <1>7 DEF Debt
  <2>2. Custody!Settle(p)
    BY <1>3, <1>7, <2>1 DEF Custody!Settle
  <2> QED BY <2>2 DEF CustodyStep, Custody!Next
<1> QED BY <1>4, <1>5, <1>6, <1>7 DEF FateStep

LEMMA NoDebtStep ==
    ASSUME UNCHANGED fate, Taken' = Taken
    PROVE  CustodyStep
BY DEF CustodyStep, Custody!vars, Debt

LEMMA RecordStep ==
    ASSUME UNCHANGED fate, NEW p \in Packets, fate[p] # "unused", fate[p] \in A!Fates,
           Taken' = Taken \cup {p}
    PROVE  CustodyStep
<1>1. Debt(p) # "none"
  BY DEF Debt, A!Fates
<1>2. [q \in Packets |-> Debt(q)]' = [q \in Packets |-> Debt(q)]
  BY DEF Debt
<1>3. Custody!Record(p)
  BY <1>1, <1>2 DEF Custody!Record
<1> QED BY <1>3 DEF CustodyStep, Custody!Next


\* The three ways in which a POST that ended changes what its loop knows.
LEMMA AnswerStep ==
    ASSUME A!TypeOK, NEW p \in Packets, fate[p] # "unused",
           \/ fate' = A!Delivered({p}) /\ p \in Taken
           \/ fate' = A!Delivered({p}) /\ NoNews
           \/ fate' = A!GivenUp(p, "lost")
           \/ fate' = A!GivenUp(p, "refused")
    PROVE  FateStep(p) /\ \A q \in Packets \ {p} : fate'[q] = fate[q]
<1>1. fate \in [Packets -> A!Fates] /\ fate[p] \in A!Fates
  BY DEF A!TypeOK
<1>2. CASE fate' = A!Delivered({p})
  <2>1. fate'[p] = "delivered" /\ \A q \in Packets \ {p} : fate'[q] = fate[q]
    BY <1>2 DEF A!Delivered
  <2>2. p \in Taken \/ fate[p] = "delivered"
    <3>1. NoNews => fate[p] = "delivered"
      BY <2>1 DEF NoNews
    <3>2. NoNews \/ p \in Taken
      <4>1. \A f \in {"lost", "refused"} :
              A!GivenUp(p, f)[p] = "delivered" => fate[p] = "delivered"
        BY <1>1 DEF A!GivenUp
      <4>2. \A f \in {"lost", "refused"} : fate' = A!GivenUp(p, f) => fate[p] = "delivered"
        BY <2>1, <4>1
      <4>3. fate' = A!GivenUp(p, "lost") \/ fate' = A!GivenUp(p, "refused") => NoNews
        BY <2>1, <4>2 DEF NoNews
      <4> QED BY <4>3
    <3> QED BY <3>1, <3>2
  <2> QED BY <1>1, <2>1, <2>2 DEF FateStep, A!Fates
<1>3. ASSUME NEW f \in {"lost", "refused"}, fate' = A!GivenUp(p, f)
      PROVE  FateStep(p) /\ \A q \in Packets \ {p} : fate'[q] = fate[q]
  <2>1. fate' = [fate EXCEPT ![p] = IF @ = "delivered" THEN @ ELSE f]
    BY <1>3 DEF A!GivenUp
  <2>2. fate'[p] = (IF fate[p] = "delivered" THEN fate[p] ELSE f)
    BY <1>1, <2>1
  <2>3. \A q \in Packets \ {p} : fate'[q] = fate[q]
    BY <1>1, <2>1
  <2> QED BY <1>1, <2>2, <2>3 DEF FateStep, A!Fates
<1> QED BY <1>2, <1>3

LEMMA AgentCustody ==
    ASSUME SwarmInv, A!TypeOK', NEW n \in Nodes,
           \/ Tick(n) \/ PostEnds(n) \/ DrainPostEnds(n) \/ Local(n) \/ Crash(n)
           \/ \E p \in Packets : Relay(n, p)
    PROVE  CustodyStep
<1>a. A!TypeOK /\ SamplesKnown /\ AwaitedAt(n) /\ PostAt(n) /\ A!QueueCoherent
  BY FateKnown, ComponentTypes, AwaitedSample
     DEF SwarmInv, SwarmTypeInv, AwaitsOne, PostsInOnePlace
<1>b. Taken' = Taken
  <2>1. UNCHANGED control
    BY DEF Tick, PostEnds, DrainPostEnds, Local, Crash, Relay, Gets, Breaks
  <2> QED BY <2>1, TakenUnchanged DEF control
<1>c. \A p \in Awaited(n) : p \in Packets /\ fate[p] # "unused"
  BY <1>a DEF AwaitedAt, SamplesKnown
<1>d. ASSUME NEW answer, Gets(n, answer), answer = "created" PROVE Awaited(n) \subseteq Taken
  BY <1>a, <1>d DEF Gets, PostAt
<1>1. ASSUME Tick(n) PROVE CustodyStep
  <2>1. PICK p \in Packets : fate' = [fate EXCEPT ![p] = "held"]
    BY <1>1 DEF Tick, A!Tick
  <2>2. fate'[p] = "held" /\ \A q \in Packets \ {p} : fate'[q] = fate[q]
    BY <1>a, <2>1 DEF A!TypeOK
  <2>3. FateStep(p)
    BY <1>1, <2>2 DEF Tick, FateStep
  <2> QED BY <1>a, <1>b, <2>2, <2>3, DebtStep
<1>2. ASSUME PostEnds(n) PROVE CustodyStep
  <2>1. main[n] = "posting"
    BY <1>2 DEF PostEnds, A!PostAccepted, A!PostRejected, A!PostFailed
  <2>2. hand[n].pkt \in Awaited(n) /\ Awaited(n) = {hand[n].pkt}
    BY <1>a, <2>1 DEF AwaitedAt
  <2>3. \/ UNCHANGED fate
        \/ fate' = A!Delivered({hand[n].pkt}) /\ Awaited(n) \subseteq Taken
        \/ fate' = A!Delivered({hand[n].pkt}) /\ NoNews
        \/ fate' = A!GivenUp(hand[n].pkt, "lost")
    BY <1>2, <1>d DEF PostEnds, A!PostAccepted, A!PostRejected, A!PostFailed
  <2>4. hand[n].pkt \in Packets /\ fate[hand[n].pkt] # "unused"
    BY <1>c, <2>2
  <2>5. CASE UNCHANGED fate
    BY <1>b, <2>5, NoDebtStep
  <2>6. CASE ~UNCHANGED fate
    <3>1. FateStep(hand[n].pkt)
          /\ \A q \in Packets \ {hand[n].pkt} : fate'[q] = fate[q]
      BY <1>a, <2>2, <2>3, <2>4, <2>6, AnswerStep
    <3> QED BY <1>a, <1>b, <2>4, <3>1, DebtStep
  <2> QED BY <2>5, <2>6
<1>3. ASSUME DrainPostEnds(n) PROVE CustodyStep
  <2>1. PICK i \in DOMAIN queue[n] :
          /\ A!IsNextRow(queue[n], batch[n], i)
          /\ \/ UNCHANGED fate
             \/ fate' = A!Delivered({queue[n][i].pkt})
             \/ fate' = A!GivenUp(queue[n][i].pkt, "refused")
    BY <1>3 DEF DrainPostEnds, A!DrainAnswered, A!DrainFailed, A!Drained
  <2> DEFINE p == queue[n][i].pkt
  <2>2. Awaited(n) = {p}
    BY <1>a, <2>1 DEF AwaitedAt
  <2>3. p \in Packets /\ fate[p] # "unused"
    BY <1>c, <2>2
  <2>4. p \in Taken \/ NoNews
    BY <1>3, <1>d, <2>2 DEF DrainPostEnds
  <2> HIDE DEF p
  <2>5. CASE UNCHANGED fate
    BY <1>b, <2>5, NoDebtStep
  <2>6. CASE ~UNCHANGED fate
    <3>1. FateStep(p) /\ \A q \in Packets \ {p} : fate'[q] = fate[q]
      <4>1. \/ fate' = A!Delivered({p}) /\ p \in Taken
            \/ fate' = A!Delivered({p}) /\ NoNews
            \/ fate' = A!GivenUp(p, "refused")
        BY <2>1, <2>4, <2>6 DEF p
      <4> QED BY <1>a, <2>3, <4>1, AnswerStep
    <3> QED BY <1>a, <1>b, <2>3, <3>1, DebtStep
  <2> QED BY <2>5, <2>6
<1>4. ASSUME Local(n) \/ \E p \in Packets : Relay(n, p) PROVE CustodyStep
  <2>1. CASE A!RelayDone(n) /\ NoNews
    <3>1. fate' \in {fate, A!Delivered({relaying[n]})}
      BY <2>1 DEF A!RelayDone
    <3>2. CASE fate' = fate
      BY <1>b, <3>2, NoDebtStep
    <3>3. CASE fate' = A!Delivered({relaying[n]})
      <4>1. relaying[n] \in Packets
        BY <1>a, <2>1 DEF A!RelayDone, A!TypeOK
      <4>2. fate[relaying[n]] = "delivered"
        BY <2>1, <3>3, <4>1 DEF NoNews, A!Delivered
      <4>3. \A q \in Packets : fate'[q] = fate[q]
        BY <3>3, <4>2 DEF A!Delivered
      <4>4. FateStep(relaying[n])
        BY <4>1, <4>3 DEF FateStep
      <4> QED BY <1>a, <1>b, <4>1, <4>3, <4>4, DebtStep
    <3> QED BY <3>1, <3>2, <3>3
  <2>2. CASE ~(A!RelayDone(n) /\ NoNews)
    <3>1. UNCHANGED fate
      BY <1>4, <2>2 DEF Local, Relay, A!EventLoop, A!ConnAck, A!MqttError,
                        A!HearAndIgnore, A!HearAndRelay, A!Restart
    <3> QED BY <1>b, <3>1, NoDebtStep
  <2> QED BY <2>1, <2>2
<1>5. ASSUME Crash(n) PROVE CustodyStep
  <2>1. PICK reached \in SUBSET A!OnTheWire(n) :
          fate' = [p \in Packets |->
                     IF p \in reached THEN "delivered"
                     ELSE IF p \in A!InHand(n) THEN "lost" ELSE fate[p]]
    BY <1>5 DEF Crash, A!Crash
  <2>2. \A p \in Packets \cap reached : fate[p] = "delivered" /\ fate'[p] = fate[p]
    BY <1>5, <2>1 DEF Crash, NoNews
  <2>3. \A p \in Packets \ A!InHand(n) : fate'[p] = fate[p]
    BY <2>1, <2>2
  <2>4. CASE hand[n] = None
    <3>1. fate' = fate
      <4>1. \A p \in Packets : fate'[p] = fate[p]
        BY <2>3, <2>4 DEF A!InHand
      <4> QED BY <1>a, <2>1, <4>1 DEF A!TypeOK
    <3> QED BY <1>b, <3>1, NoDebtStep
  <2>5. CASE hand[n] # None
    <3>1. A!InHand(n) = {hand[n].pkt} /\ fate[hand[n].pkt] = "held"
      BY <1>a, <2>5 DEF A!InHand, SamplesKnown
    <3>2. hand[n].pkt \in Packets
      BY <1>a, <2>5 DEF A!TypeOK, A!Rows
    <3>3. fate'[hand[n].pkt] = "lost"
      BY <2>1, <2>2, <3>1, <3>2
    <3>4. FateStep(hand[n].pkt)
      BY <3>1, <3>3 DEF FateStep
    <3> QED BY <1>a, <1>b, <2>3, <3>1, <3>2, <3>4, DebtStep
  <2> QED BY <2>4, <2>5
<1> QED BY <1>1, <1>2, <1>3, <1>4, <1>5

LEMMA ControlCustody ==
    ASSUME ~Faults, SwarmInv,
           \/ \E m \in wire : Refuse(m) \/ \E h \in Handlers : Arrive(h, m)
           \/ \E h \in Handlers : Handle(h) \/ Respond(h)
           \/ Clock
    PROVE  CustodyStep
<1>a. /\ A!TypeOK /\ Measured
      /\ stored \subseteq Packets
      /\ pc \in [Handlers -> C!Steps] /\ pkt \in [Handlers -> Packets \cup {None}]
      /\ \A h \in Handlers : pc[h] # "idle" => pkt[h] \in Packets
  BY ComponentTypes, ControlTypes DEF SwarmInv, SwarmTypeInv, C!TypeOK
<1>b. UNCHANGED fate
  BY DEF Refuse, Arrive, Handle, Respond, Clock, agents
<1>1. ASSUME NEW m \in wire, Refuse(m) PROVE CustodyStep
  BY <1>b, <1>1, TakenUnchanged, NoDebtStep DEF Refuse, control
<1>2. CASE Clock
  BY <1>b, <1>2, TakenUnchanged, NoDebtStep DEF Clock, C!Clock
<1>3. ASSUME NEW m \in wire, NEW h \in Handlers, Arrive(h, m) PROVE CustodyStep
  <2>1. /\ pc[h] = "idle" /\ pc' = [pc EXCEPT ![h] = "dedupGet"]
        /\ pkt' = [pkt EXCEPT ![h] = m.pkt] /\ UNCHANGED stored
    BY <1>3 DEF Arrive, C!Arrive, C!Goto, C!observed
  <2>2. Taken' = Taken
    BY <1>a, <2>1, TakenSame DEF Writing
  <2> QED BY <1>b, <2>2, NoDebtStep
<1>4. ASSUME NEW h \in Handlers, Respond(h) PROVE CustodyStep
  <2>1. C!Finish(h) /\ UNCHANGED stored /\ pc[h] \in {"dupHistory", "broadcast"}
    BY <1>4 DEF Respond, C!DupAnswer, C!Answer, C!Fault, C!observed
  <2>2. Taken' = Taken
    BY <1>a, <2>1, TakenSame DEF Writing, C!Finish
  <2> QED BY <1>b, <2>2, NoDebtStep
<1>5. ASSUME NEW h \in Handlers, C!DedupSet(h) \/ C!ReadHistory(h) \/ C!SetNode(h)
      PROVE  CustodyStep
  <2>1. /\ UNCHANGED <<pkt, stored>> /\ pc[h] \in Writing
        /\ \E step \in Writing : pc' = [pc EXCEPT ![h] = step]
    BY <1>5 DEF C!DedupSet, C!ReadHistory, C!SetNode, C!Goto, C!observed, Writing
  <2>2. Taken' = Taken
    BY <1>a, <2>1, TakenSame
  <2> QED BY <1>b, <2>2, NoDebtStep
<1>6. ASSUME NEW h \in Handlers, C!PushHealth(h) PROVE CustodyStep
  <2>1. /\ UNCHANGED pkt /\ pc[h] = "push" /\ pc' = [pc EXCEPT ![h] = "broadcast"]
        /\ stored' = stored \cup {pkt[h]} /\ pkt[h] \in Packets
    BY <1>6, <1>a DEF C!PushHealth, C!Goto
  <2>2. \A p \in Packets \ {pkt[h]} : C!Storing(p)' <=> C!Storing(p)
    BY <1>a, <2>1 DEF C!Storing, C!Records
  <2>3. C!Storing(pkt[h])
    BY <2>1 DEF C!Storing, C!Records
  <2>4. Taken' = Taken
    BY <2>1, <2>2, <2>3 DEF Taken
  <2> QED BY <1>b, <2>4, NoDebtStep
<1>7. ASSUME NEW h \in Handlers, C!DedupGet(h) PROVE CustodyStep
  <2>1. /\ UNCHANGED <<pkt, stored>> /\ pc[h] = "dedupGet" /\ pkt[h] \in Packets
        /\ \E step \in {"dupHistory", "dedupSet"} : pc' = [pc EXCEPT ![h] = step]
    BY <1>7, <1>a DEF C!DedupGet, C!Goto, C!observed
  <2>2. CASE pc' = [pc EXCEPT ![h] = "dupHistory"]
    <3>1. Taken' = Taken
      BY <1>a, <2>1, <2>2, TakenSame DEF Writing
    <3> QED BY <1>b, <3>1, NoDebtStep
  <2>3. CASE pc' = [pc EXCEPT ![h] = "dedupSet"]
    <3>1. \A p \in Packets \ {pkt[h]} : C!Storing(p)' <=> C!Storing(p)
      BY <1>a, <2>1, <2>3 DEF C!Storing, C!Records
    <3>2. C!Storing(pkt[h])'
      BY <1>a, <2>1, <2>3 DEF C!Storing, C!Records
    <3>3. Taken' = Taken \cup {pkt[h]}
      BY <2>1, <3>1, <3>2 DEF Taken
    <3>4. fate[pkt[h]] # "unused" /\ fate[pkt[h]] \in A!Fates
      BY <1>a, <2>1 DEF Measured, A!TypeOK
    <3> QED BY <1>b, <2>1, <3>3, <3>4, RecordStep
  <2> QED BY <2>1, <2>2, <2>3
<1> QED BY <1>1, <1>2, <1>3, <1>4, <1>5, <1>6, <1>7 DEF Handle


LEMMA NextCustody ==
    ASSUME ~Faults
    PROVE  SwarmInv /\ SwarmInv' /\ [Next]_vars => CustodyStep
<1> SUFFICES ASSUME SwarmInv, SwarmInv', [Next]_vars PROVE CustodyStep
  OBVIOUS
<1>1. A!TypeOK'
  <2>1. AP!QueueInv'
    BY DEF SwarmInv, SwarmTypeInv
  <2> QED BY <2>1, ComponentTypes, PTL
<1>2. CASE UNCHANGED vars
  <2>1. UNCHANGED <<fate, stored, pc, pkt>>
    BY <1>2 DEF vars, agents, control
  <2> QED BY <2>1, TakenUnchanged, NoDebtStep
<1>3. CASE Next
  BY <1>1, <1>3, AgentCustody, ControlCustody DEF Next
<1> QED BY <1>2, <1>3

LEMMA InitCustody == Init => Custody!Init
<1> SUFFICES ASSUME Init PROVE Custody!Init
  OBVIOUS
<1>1. \A p \in Packets : Debt(p) = "none"
  BY DEF Init, A!Init, Debt
<1>2. Taken = {}
  BY DEF Init, C!Init, Taken, C!Storing, C!Records
<1> QED BY <1>1, <1>2 DEF Custody!Init

\* The swarm implements TelemetryCustody.  However many agents, samples and
\* requests there are, whatever is lost, repeated, relayed, answered late or
\* crashes: an agent owes a sample until it was recorded, and what an agent
\* abandons never looks settled.
THEOREM SwarmKeepsCustody ==
    ASSUME ~Faults, CP!DistinctKeys PROVE Spec => CustodyImplemented
<1>1. SwarmInv /\ [Next]_vars => SwarmInv'
  BY NextSwarm
<1>2. SwarmInv /\ SwarmInv' /\ [Next]_vars => [Custody!Next]_Custody!vars
  BY NextCustody DEF CustodyStep
<1> QED BY <1>1, <1>2, InitSwarm, InitCustody, PTL
        DEF Spec, CustodyImplemented, Custody!Spec

\* What the agents count as delivered the control plane has recorded, or is
\* recording.
THEOREM DeliveredIsTaken ==
    ASSUME ~Faults, CP!DistinctKeys PROVE Spec => []Custody!SettledIsRecorded
<1> DEFINE owes == [p \in Packets |-> Debt(p)]
           Settled == \A p \in Packets : owes[p] = "settled" => p \in Taken
<1>1. SwarmInv /\ [Next]_vars => SwarmInv'
  BY NextSwarm
<1>2. SwarmInv /\ SwarmInv' /\ [Next]_vars => CustodyStep
  BY NextCustody
<1>3. Settled /\ CustodyStep => Settled'
  <2> SUFFICES ASSUME Settled, CustodyStep PROVE Settled'
    OBVIOUS
  <2> HIDE DEF owes
  <2>1. CASE UNCHANGED Custody!vars
    <3>1. owes' = owes /\ Taken' = Taken
      BY <2>1 DEF Custody!vars, owes
    <3> QED BY <3>1
  <2>2. ASSUME NEW p \in Packets,
               owes' = [owes EXCEPT ![p] = owes'[p]], UNCHANGED Taken,
               owes'[p] = "settled" => p \in Taken
        PROVE  Settled'
    <3>1. \A q \in Packets \ {p} : owes'[q] = owes[q]
      BY <2>2 DEF owes
    <3> QED BY <2>2, <3>1
  <2>3. ASSUME NEW p \in Packets,
               Custody!Take(p) \/ Custody!Settle(p) \/ Custody!Abandon(p)
        PROVE  Settled'
    <3>1. owes \in [Packets -> {Debt(q) : q \in Packets}]
      BY DEF owes
    <3>2. /\ \E d \in {"owed", "settled", "abandoned"} : owes' = [owes EXCEPT ![p] = d]
          /\ Taken' = Taken
          /\ p \in Taken \/ ~Custody!Settle(p)
      BY <2>3 DEF Custody!Take, Custody!Settle, Custody!Abandon, owes
    <3>3. owes'[p] = "settled" => p \in Taken
      BY <2>3, <3>1, <3>2 DEF Custody!Take, Custody!Settle, Custody!Abandon, owes
    <3> QED BY <2>2, <3>1, <3>2, <3>3
  <2>4. ASSUME NEW p \in Packets, Custody!Record(p) PROVE Settled'
    <3>1. owes' = owes /\ Taken \subseteq Taken'
      BY <2>4 DEF Custody!Record, owes
    <3> QED BY <3>1
  <2> QED BY <2>1, <2>3, <2>4 DEF CustodyStep, Custody!Next
<1>4. Init => Settled
  BY InitCustody DEF Custody!Init
<1>5. Settled => Custody!SettledIsRecorded
  BY DEF Custody!SettledIsRecorded
<1> HIDE DEF Settled
<1> QED BY <1>1, <1>2, <1>3, <1>4, <1>5, InitSwarm, PTL DEF Spec

=============================================================================
