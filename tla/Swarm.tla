------------------------------- MODULE Swarm -------------------------------
(***************************************************************************)
(* The agents of EdgeAgent and the ingestion of ControlPlane, joined by    *)
(* the HTTP requests between them.                                         *)
(*                                                                         *)
(* Alone, each component takes any answer or any request from its          *)
(* environment.  Here the agent learns of a sample only what an answer     *)
(* tells it: a request may be lost, stay under way after its sender gave   *)
(* it up or died, or be answered when nobody waits for the answer any      *)
(* more, and the same sample may be posted by its agent, by the drain of   *)
(* its table and by peers, at the same time.                               *)
(***************************************************************************)
EXTENDS Integers, Sequences, FiniteSets

CONSTANTS
    Nodes, Packets, None,
    Listeners, MaxFailures, DrainLimit, RelayWindow, QueueCap, RelayCap,
    DiskFaults,
    StampsPerSecond, Handlers, DedupTTL, NodeTTL, WindowSize, MaxStall, Faults

VARIABLES
    (* EdgeAgent *)
    main, hand, batch, failures, mqtt, relaying, seen, relayed, queue, inbox,
    fate,
    (* ControlPlane *)
    dedup, state, stateTTL, window, windowTTL, pc, pkt, age, acked, stored,
    applied,
    (* the connections *)
    wire,    \* requests on their way to the control plane
    caller,  \* the agent that waits for the handler's answer, or None
    reply    \* the answer on its way to the agent's POST, or None

A == INSTANCE EdgeAgent
C == INSTANCE ControlPlane

ASSUME SwarmAssumption ==
    /\ A!AgentAssumption
    /\ C!ControlPlaneAssumption
    /\ C!DedupOutlivesState
    /\ None \notin Nodes \cup {"created", "error"}

agents  == <<main, hand, batch, failures, mqtt, relaying, seen, relayed, queue,
             inbox, fate>>
control == <<dedup, state, stateTTL, window, windowTTL, pc, pkt, age, acked,
             stored, applied>>
links   == <<wire, caller, reply>>
vars    == <<agents, control, links>>

\* BOUND: of the requests for one sample that nobody waits for, one is on
\* the wire at a time.
Requests == [from : Nodes \cup {None}, pkt : Packets]

TypeOK ==
    /\ A!TypeOK
    /\ C!TypeOK
    /\ wire \subseteq Requests
    /\ caller \in [Handlers -> Nodes \cup {None}]
    /\ reply \in [Nodes -> {None, "created", "error"}]

Init ==
    /\ A!Init
    /\ C!Init
    /\ wire = {}
    /\ caller = [h \in Handlers |-> None]
    /\ reply = [n \in Nodes |-> None]

----------------------------------------------------------------------------
(* The agent's POSTs.  One of the telemetry loop is outstanding at most. *)

\* The sample whose POST the telemetry loop awaits, if it awaits one.
Awaited(n) ==
    A!InHand(n)
    \cup {queue[n][i].pkt : i \in {j \in DOMAIN queue[n] :
                                     A!IsNextRow(queue[n], batch[n], j)}}

\* send() of the next POST, if there is one.
NextPost(n) == [from : {n}, pkt : Awaited(n)']

\* send() returned Ok with this answer.
Gets(n, answer) ==
    /\ reply[n] = answer
    /\ reply' = [reply EXCEPT ![n] = None]
    /\ wire' = wire \cup NextPost(n)
    /\ UNCHANGED <<caller, control>>

\* send() returned Err, or the process died: a request under way is lost
\* or arrives, a handler at work goes on, and the answer reaches nobody.
Breaks(n) ==
    LET mine == {m \in wire : m.from = n} IN
    /\ \E left \in {{}, [from : {None}, pkt : {m.pkt : m \in mine}]} :
         wire' = (wire \ mine) \cup left \cup NextPost(n)
    /\ caller' = [h \in Handlers |-> IF caller[h] = n THEN None ELSE caller[h]]
    /\ reply' = [reply EXCEPT ![n] = None]
    /\ UNCHANGED control

\* The agent learns nothing new of its samples.
NoNews == \A p \in Packets : fate'[p] = "delivered" => fate[p] = "delivered"

\* Identities are not reused here.
Tick(n) ==
    /\ A!Tick(n)
    /\ \A p \in Packets : fate'[p] # fate[p] => fate[p] = "unused"
    /\ wire' = wire \cup NextPost(n)
    /\ UNCHANGED <<caller, reply, control>>

PostEnds(n) ==
    \/ A!PostAccepted(n) /\ Gets(n, "created")
    \/ A!PostRejected(n) /\ Gets(n, "error")
    \/ A!PostFailed(n) /\ NoNews /\ Breaks(n)

DrainPostEnds(n) ==
    \/ A!DrainAnswered(n) /\ fate' = A!Delivered(Awaited(n)) /\ Gets(n, "created")
    \/ A!DrainAnswered(n) /\ NoNews /\ Gets(n, "error")
    \/ A!DrainFailed(n) /\ NoNews /\ Breaks(n)

\* The proxy POST of a peer's sample: its answer is discarded.
Relay(n, p) ==
    /\ A!HearAndRelay(n, p)
    /\ wire' \in {wire, wire \cup {[from |-> None, pkt |-> p]}}
    /\ UNCHANGED <<caller, reply, control>>

\* Steps of the agent the control plane has no part in.
Local(n) ==
    /\ \/ A!EventLoop(n)
       \/ \E p \in Packets : A!HearAndIgnore(n, p)
       \/ A!RelayDone(n) /\ NoNews
       \/ A!Restart(n)
    /\ UNCHANGED <<links, control>>

Crash(n) == A!Crash(n) /\ NoNews /\ Breaks(n)

----------------------------------------------------------------------------
(* The control plane's end of a request. *)

Arrive(h, m) ==
    /\ m \in wire
    /\ C!Arrive(h, m.pkt)
    /\ wire' = wire \ {m}
    /\ caller' = [caller EXCEPT ![h] = m.from]
    /\ UNCHANGED <<reply, agents>>

\* The answer for node n; nobody reads it when n is None.
ReplyTo(n, answer) ==
    reply' = [k \in Nodes |-> IF k = n THEN answer ELSE reply[k]]

\* get_client_identity_and_key or the validation of the payload raises
\* before the handler begins.
Refuse(m) ==
    /\ m \in wire
    /\ wire' = wire \ {m}
    /\ ReplyTo(m.from, "error")
    /\ UNCHANGED <<caller, agents, control>>

Handle(h) ==
    /\ C!DedupGet(h) \/ C!DedupSet(h) \/ C!ReadHistory(h) \/ C!SetNode(h)
          \/ C!PushHealth(h)
    /\ UNCHANGED <<links, agents>>

\* The handler returns a decision, or raises, and the answer goes out.
Respond(h) ==
    /\ \/ C!DupAnswer(h) /\ ReplyTo(caller[h], "created")
       \/ C!Answer(h) /\ pkt[h] \in acked' /\ ReplyTo(caller[h], "created")
       \/ C!Answer(h) /\ acked' = acked /\ ReplyTo(caller[h], "error")
       \/ C!Fault(h) /\ ReplyTo(caller[h], "error")
    /\ caller' = [caller EXCEPT ![h] = None]
    /\ UNCHANGED <<wire, agents>>

Clock == C!Clock /\ UNCHANGED <<links, agents>>

----------------------------------------------------------------------------
Next ==
    \/ \E n \in Nodes :
         \/ Tick(n)
         \/ PostEnds(n)
         \/ DrainPostEnds(n)
         \/ \E p \in Packets : Relay(n, p)
         \/ Local(n)
         \/ Crash(n)
    \/ \E m \in wire : Refuse(m) \/ \E h \in Handlers : Arrive(h, m)
    \/ \E h \in Handlers : Handle(h) \/ Respond(h)
    \/ Clock

Spec == Init /\ [][Next]_vars

----------------------------------------------------------------------------
(* The promise. *)

\* A held sample is owed; a drained row that got an error status and a
\* sample that a crash or a full disk took are abandoned.
Debt(p) ==
    CASE fate[p] = "unused"           -> "none"
      [] fate[p] = "held"             -> "owed"
      [] fate[p] = "delivered"        -> "settled"
      [] fate[p] \in {"refused", "lost"} -> "abandoned"

\* A sample counts as taken from the duplicate check on: from there the
\* request stores it, and a duplicate is answered 201.
Taken == stored \cup {p \in Packets : C!Storing(p)}

Custody == INSTANCE TelemetryCustody
             WITH debt <- [p \in Packets |-> Debt(p)], recorded <- Taken

\* Without faults of the control plane the swarm keeps the promise: whatever
\* is lost, repeated, relayed, overlaps or crashes, an agent is told that a
\* sample was accepted, and may drop its copy, only when it was recorded.
CustodyImplemented == Custody!Spec

=============================================================================
