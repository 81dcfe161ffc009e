----------------------------- MODULE EdgeAgent -----------------------------
(***************************************************************************)
(* The edge agent daemon (agent/src/main.rs), one instance per node.       *)
(*                                                                         *)
(* An agent is three tokio tasks that share two atomics:                   *)
(*   - the main telemetry loop: probe, POST the sample, and on the result  *)
(*     either drain the SQLite queue or append the sample to it;           *)
(*   - the MQTT event loop, which sets mqtt_connected and RESETS the       *)
(*     failure counter of the main loop on every ConnAck;                  *)
(*   - the mesh listener, which reads that counter to decide whether to    *)
(*     proxy a peer's sample to the control plane.                         *)
(* Every POST is two steps, sent and answered, because both loops await    *)
(* it and everything else may happen in between.                           *)
(*                                                                         *)
(* A packet is one telemetry sample.  Its identity is recycled once nobody *)
(* refers to it any more, which keeps the state space finite without ever  *)
(* stopping the telemetry loop.                                            *)
(***************************************************************************)
EXTENDS Integers, Sequences, FiniteSets

CONSTANTS
    Nodes,        \* the agents on one subnet
    Packets,      \* sample identities, pairs of the agent and a name
    Listeners,    \* agents whose mesh listener could bind UDP port 9876
    MaxFailures,  \* MAX_MQTT_FAILURES
    DrainLimit,   \* LIMIT of drain_queue's SELECT
    RelayWindow,  \* length the recently_relayed vector is cut to
    QueueCap,     \* BOUND: rows the table may hold
    RelayCap,     \* BOUND: relayed_count saturates here
    DiskFaults,   \* whether SQLite statements may fail
    None          \* no packet

Origin(p)  == p[1]
Priorities == {0, 5}
Rows       == [pkt : Packets, priority : Priorities]

ASSUME AgentAssumption ==
    /\ \A p \in Packets : Origin(p) \in Nodes
    /\ Listeners \subseteq Nodes
    /\ MaxFailures \in Nat \ {0}
    /\ DrainLimit \in Nat
    /\ RelayWindow \in Nat
    /\ QueueCap \in Nat
    /\ RelayCap \in Nat
    /\ DiskFaults \in BOOLEAN
    /\ None \notin Packets \cup Rows

VARIABLES
    (* one agent process *)
    main,       \* control point of the telemetry loop, or "stopped"
    hand,       \* the sample the loop is publishing, with its priority
    batch,      \* packets of the current drain that were not sent yet
    failures,   \* consecutive_failures, exact up to MaxFailures
    mqtt,       \* mqtt_connected
    relaying,   \* the peer's packet the mesh listener is posting, or None
    seen,       \* recently_relayed, oldest first
    relayed,    \* relayed_count, exact up to RelayCap
    (* the disk *)
    queue,      \* table telemetry_queue, in id order
    (* the network *)
    inbox,      \* datagrams waiting in each listener's socket
    (* observation only *)
    fate        \* what became of each packet

listener == <<relaying, seen, relayed>>
process  == <<main, hand, batch, failures, mqtt, listener>>
vars     == <<process, queue, inbox, fate>>

\* "held": the agent still owes the sample to the control plane.
Fates == {"unused", "held", "delivered", "refused", "lost"}

TypeOK ==
    /\ main \in [Nodes -> {"stopped", "idle", "posting", "draining"}]
    /\ hand \in [Nodes -> Rows \cup {None}]
    /\ batch \in [Nodes -> SUBSET Packets]
    /\ failures \in [Nodes -> 0 .. MaxFailures]
    /\ mqtt \in [Nodes -> BOOLEAN]
    /\ relaying \in [Nodes -> Packets \cup {None}]
    /\ seen \in [Nodes -> Seq(Packets)]
    /\ relayed \in [Nodes -> 0 .. RelayCap]
    /\ queue \in [Nodes -> Seq(Rows)]
    /\ inbox \in [Nodes -> SUBSET Packets]
    /\ fate \in [Packets -> Fates]

----------------------------------------------------------------------------
(* The SQLite queue, the relay window and the fates. *)

Least(a, b) == IF a < b THEN a ELSE b

Queued(n) == {queue[n][i].pkt : i \in DOMAIN queue[n]}

\* ORDER BY priority DESC, id ASC
Precedes(q, i, j) ==
    \/ q[i].priority > q[j].priority
    \/ q[i].priority = q[j].priority /\ i < j

\* Mutant: the drain takes the urgent rows only.
SelectedUrgent(q) ==
    {q[i].pkt : i \in {k \in DOMAIN q :
        /\ q[k].priority > 0
        /\ Cardinality({j \in DOMAIN q : Precedes(q, j, k)}) < DrainLimit}}

\* The packets drain_queue returns: the first DrainLimit rows in that order.
Selected(q) ==
    {q[i].pkt : i \in {k \in DOMAIN q :
        Cardinality({j \in DOMAIN q : Precedes(q, j, k)}) < DrainLimit}}

\* The row at position i is the one the drain sends next.
IsNextRow(q, todo, i) ==
    /\ q[i].pkt \in todo
    /\ \A j \in DOMAIN q : q[j].pkt \in todo => j = i \/ Precedes(q, i, j)

\* DELETE ... WHERE id = ?
RemoveRow(q, i) ==
    [j \in 1 .. Len(q) - 1 |-> IF j < i THEN q[j] ELSE q[j + 1]]

\* push, then remove(0) when the window is too long.
Remember(window, p) ==
    IF Len(window) < RelayWindow THEN Append(window, p)
    ELSE Tail(Append(window, p))

Remembered(n) == {seen[n][i] : i \in DOMAIN seen[n]}

InHand(n) == IF hand[n] = None THEN {} ELSE {hand[n].pkt}

Held(n) == InHand(n) \cup Queued(n)

\* Packets somebody still refers to: their identity is taken.
InUse == UNION {Held(n) \cup inbox[n] \cup Remembered(n) \cup {relaying[n]}
                : n \in Nodes}

Delivered(S) == [p \in Packets |-> IF p \in S THEN "delivered" ELSE fate[p]]

\* The agent gives p up; the control plane may have it all the same.
GivenUp(p, f) == [fate EXCEPT ![p] = IF @ = "delivered" THEN @ ELSE f]

----------------------------------------------------------------------------
Init ==
    /\ main = [n \in Nodes |-> "idle"]
    /\ hand = [n \in Nodes |-> None]
    /\ batch = [n \in Nodes |-> {}]
    /\ failures = [n \in Nodes |-> 0]
    /\ mqtt = [n \in Nodes |-> FALSE]
    /\ relaying = [n \in Nodes |-> None]
    /\ seen = [n \in Nodes |-> <<>>]
    /\ relayed = [n \in Nodes |-> 0]
    /\ queue = [n \in Nodes |-> <<>>]
    /\ inbox = [n \in Nodes |-> {}]
    /\ fate = [p \in Packets |-> "unused"]

----------------------------------------------------------------------------
(* The telemetry loop. *)

\* interval.tick(), the probe, and the POST of the new sample.  The
\* priority is fixed here, before the outcome of the POST is known.
Tick(n) ==
    /\ main[n] = "idle"
    /\ \E p \in Packets \ InUse :
         /\ Origin(p) = n
         /\ hand' = [hand EXCEPT ![n] =
              [pkt |-> p, priority |-> IF failures[n] > 0 THEN 5 ELSE 0]]
         /\ fate' = [fate EXCEPT ![p] = "held"]
    /\ main' = [main EXCEPT ![n] = "posting"]
    /\ UNCHANGED <<batch, failures, mqtt, listener, queue, inbox>>

\* Mutant: the reset is forgotten.
ResetForgotten(n) == UNCHANGED failures

ResetFailures(n) == failures' = [failures EXCEPT ![n] = 0]

\* The rows drain_queue yields; a SELECT that fails skips the drain.
DrainResults(n) == {Selected(queue[n])} \cup (IF DiskFaults THEN {{}} ELSE {})

\* The POST returned 2xx: reset the counter and load one batch of rows.
PostAccepted(n) ==
    /\ main[n] = "posting"
    /\ \E rows \in DrainResults(n) :
         /\ batch' = [batch EXCEPT ![n] = rows]
         /\ main' = [main EXCEPT ![n] = IF rows = {} THEN "idle" ELSE "draining"]
    /\ ResetFailures(n)
    /\ fate' = Delivered({hand[n].pkt})
    /\ hand' = [hand EXCEPT ![n] = None]
    /\ UNCHANGED <<mqtt, listener, queue, inbox>>

\* Mutant: the loop retries the sample it has just queued.
StoreAndRetry(n) == Len(queue[n]) < QueueCap /\ UNCHANGED <<hand, main>>

\* queue_telemetry(&payload) stores the sample.  The result is discarded,
\* so an INSERT that fails drops it.
StoreHand(n) ==
    /\ Len(queue[n]) < QueueCap
    /\ hand' = [hand EXCEPT ![n] = None]
    /\ main' = [main EXCEPT ![n] = "idle"]

\* Mutant: the failure count is stored as the priority.
InsertedRawCount(n) ==
    queue' = [queue EXCEPT ![n] =
                Append(@, [pkt |-> hand[n].pkt, priority |-> failures[n]])]

Inserted(n) == queue' = [queue EXCEPT ![n] = Append(@, hand[n])]

InsertFailed == DiskFaults /\ UNCHANGED queue

\* The POST returned another status: queue it, the counter stays.
PostRejected(n) ==
    /\ main[n] = "posting"
    /\ StoreHand(n)
    /\ \/ Inserted(n) /\ UNCHANGED fate
       \/ InsertFailed /\ fate' = GivenUp(hand[n].pkt, "lost")
    /\ UNCHANGED <<batch, failures, mqtt, listener, inbox>>

\* broadcast_mesh_fallback: the datagram reaches any set of the listeners
\* that are up, the sender's own socket included.
Broadcast(p) ==
    \E reached \in SUBSET {m \in Listeners : main[m] # "stopped"} :
        inbox' = [m \in Nodes |-> IF m \in reached THEN inbox[m] \cup {p}
                                  ELSE inbox[m]]

\* The POST failed in transport, though the control plane may have taken
\* it: queue it, count the failure, and from the third on broadcast it.
PostFailed(n) ==
    /\ main[n] = "posting"
    /\ StoreHand(n)
    /\ \/ Inserted(n) /\ UNCHANGED fate
       \/ Inserted(n) /\ fate' = Delivered({hand[n].pkt})
       \/ InsertFailed /\ fate' = GivenUp(hand[n].pkt, "lost")
       \/ InsertFailed /\ fate' = Delivered({hand[n].pkt})
    /\ failures' = [failures EXCEPT ![n] = Least(@ + 1, MaxFailures)]
    /\ IF failures[n] + 1 >= MaxFailures
       THEN Broadcast(hand[n].pkt)
       ELSE UNCHANGED inbox
    /\ UNCHANGED <<batch, mqtt, listener>>

\* The loop posted p, the next row of its batch; it idles after the last.
Drained(n, i) ==
    LET p == queue[n][i].pkt IN
    /\ main[n] = "draining"
    /\ IsNextRow(queue[n], batch[n], i)
    /\ batch' = [batch EXCEPT ![n] = @ \ {p}]
    /\ main' = [main EXCEPT ![n] = IF batch[n] = {p} THEN "idle" ELSE "draining"]
    /\ UNCHANGED <<hand, failures, mqtt, listener, inbox>>

\* The POST of a queued row got an answer.  .is_ok() holds for every HTTP
\* status, so the row is deleted whether or not the sample was accepted.
DrainAnswered(n) ==
    \E i \in DOMAIN queue[n] :
        /\ Drained(n, i)
        /\ \/ fate' = Delivered({queue[n][i].pkt})
           \/ fate' = GivenUp(queue[n][i].pkt, "refused")
        /\ \/ queue' = [queue EXCEPT ![n] = RemoveRow(@, i)]
           \/ DiskFaults /\ UNCHANGED queue

\* Mutant: the row is deleted whatever became of its POST.
DrainFailedDeletes(n) ==
    \E i \in DOMAIN queue[n] :
        /\ Drained(n, i)
        /\ queue' = [queue EXCEPT ![n] = RemoveRow(@, i)]
        /\ UNCHANGED fate

\* The POST of a queued row failed in transport: the row stays, and the
\* loop goes on with the next one.
DrainFailed(n) ==
    \E i \in DOMAIN queue[n] :
        /\ Drained(n, i)
        /\ fate' \in {fate, Delivered({queue[n][i].pkt})}
        /\ UNCHANGED queue

----------------------------------------------------------------------------
(* The MQTT event loop. *)

ConnAck(n) ==
    /\ main[n] # "stopped"
    /\ ~mqtt[n]
    /\ mqtt' = [mqtt EXCEPT ![n] = TRUE]
    /\ ResetFailures(n)
    /\ UNCHANGED <<main, hand, batch, listener, queue, inbox, fate>>

MqttError(n) ==
    /\ mqtt[n]
    /\ mqtt' = [mqtt EXCEPT ![n] = FALSE]
    /\ UNCHANGED <<main, hand, batch, failures, listener, queue, inbox, fate>>

----------------------------------------------------------------------------
(* The mesh listener. *)

\* recv_from returns a datagram; UDP may have duplicated it.
Receive(n, p) ==
    /\ main[n] # "stopped"
    /\ relaying[n] = None
    /\ p \in inbox[n]
    /\ inbox' \in {inbox, [inbox EXCEPT ![n] = @ \ {p}]}

\* Mutant: the recently relayed samples are not looked at.
HearAndRelayAgain(n, p) ==
    /\ Receive(n, p)
    /\ failures[n] < MaxFailures
    /\ relaying' = [relaying EXCEPT ![n] = p]
    /\ UNCHANGED <<main, hand, batch, failures, mqtt, seen, relayed, queue, fate>>

\* Not relayed lately and "cloud connectivity": start the proxy POST.
HearAndRelay(n, p) ==
    /\ Receive(n, p)
    /\ p \notin Remembered(n)
    /\ failures[n] < MaxFailures
    /\ relaying' = [relaying EXCEPT ![n] = p]
    /\ UNCHANGED <<main, hand, batch, failures, mqtt, seen, relayed, queue, fate>>

\* Otherwise the datagram is dropped.
HearAndIgnore(n, p) ==
    /\ Receive(n, p)
    /\ p \in Remembered(n) \/ failures[n] >= MaxFailures
    /\ UNCHANGED <<process, queue, fate>>

\* The proxy POST ended, one way or another: the result is discarded, the
\* relay is counted and the packet remembered.
RelayDone(n) ==
    /\ relaying[n] # None
    /\ fate' \in {fate, Delivered({relaying[n]})}
    /\ relayed' = [relayed EXCEPT ![n] = Least(@ + 1, RelayCap)]
    /\ seen' = [seen EXCEPT ![n] = Remember(@, relaying[n])]
    /\ relaying' = [relaying EXCEPT ![n] = None]
    /\ UNCHANGED <<main, hand, batch, failures, mqtt, queue, inbox>>

----------------------------------------------------------------------------
(* Crash and restart of the process. *)

\* Packets a POST of n is carrying right now.
OnTheWire(n) ==
    InHand(n)
    \cup {queue[n][i].pkt : i \in {j \in DOMAIN queue[n] :
                                     IsNextRow(queue[n], batch[n], j)}}
    \cup ({relaying[n]} \ {None})

\* Memory and the socket buffer go, the database stays.  A request on the
\* wire may still have reached the control plane.
Crash(n) ==
    /\ main[n] # "stopped"
    /\ \E reached \in SUBSET OnTheWire(n) :
         fate' = [p \in Packets |->
                    IF p \in reached THEN "delivered"
                    ELSE IF p \in InHand(n) THEN "lost" ELSE fate[p]]
    /\ main' = [main EXCEPT ![n] = "stopped"]
    /\ hand' = [hand EXCEPT ![n] = None]
    /\ batch' = [batch EXCEPT ![n] = {}]
    /\ failures' = [failures EXCEPT ![n] = 0]
    /\ mqtt' = [mqtt EXCEPT ![n] = FALSE]
    /\ relaying' = [relaying EXCEPT ![n] = None]
    /\ seen' = [seen EXCEPT ![n] = <<>>]
    /\ relayed' = [relayed EXCEPT ![n] = 0]
    /\ inbox' = [inbox EXCEPT ![n] = {}]
    /\ UNCHANGED queue

\* main() runs again; PersistenceManager::new opens the existing table.
Restart(n) ==
    /\ main[n] = "stopped"
    /\ main' = [main EXCEPT ![n] = "idle"]
    /\ UNCHANGED <<hand, batch, failures, mqtt, listener, queue, inbox, fate>>

----------------------------------------------------------------------------
MainLoop(n) ==
    \/ Tick(n)
    \/ PostAccepted(n)
    \/ PostRejected(n)
    \/ PostFailed(n)
    \/ DrainAnswered(n)
    \/ DrainFailed(n)

EventLoop(n) == ConnAck(n) \/ MqttError(n)

MeshListener(n) ==
    \/ \E p \in Packets : HearAndRelay(n, p)
    \/ \E p \in Packets : HearAndIgnore(n, p)
    \/ RelayDone(n)

Next ==
    \E n \in Nodes :
        MainLoop(n) \/ EventLoop(n) \/ MeshListener(n) \/ Crash(n) \/ Restart(n)

Spec == Init /\ [][Next]_vars

\* The telemetry loop and the listener are tasks of a live process: tokio
\* keeps polling them, and the transport ends every POST.  Nothing is
\* assumed about crashes, restarts, the broker or how a POST ends.
FairSpec ==
    /\ Spec
    /\ \A n \in Nodes : WF_vars(MainLoop(n)) /\ WF_vars(MeshListener(n))

----------------------------------------------------------------------------
(* Safety. *)

\* Custody: a sample the agent still owes to the control plane is in the
\* loop's hand or in its table.  A sample stops being owed when it was
\* accepted, when a drain got an error status for it, or when a crash or
\* an INSERT error took it out of the agent's hand; no interleaving of
\* drain, failure, crash and restart makes one vanish in any other way.
PacketsAccounted ==
    \A p \in Packets : fate[p] = "held" => p \in Held(Origin(p))

\* The loop's control point, its hand, its batch and the table agree: the
\* table holds each sample once and only the agent's own, the sample in
\* hand is not in it, and a drain sends only rows still in the table.
QueueCoherent ==
    \A n \in Nodes :
        /\ main[n] = "posting" <=> hand[n] # None
        /\ main[n] = "draining" <=> batch[n] # {}
        /\ batch[n] \subseteq Queued(n)
        /\ InHand(n) \cap Queued(n) = {}
        /\ \A i, j \in DOMAIN queue[n] :
              queue[n][i].pkt = queue[n][j].pkt => i = j
        /\ \A p \in Held(n) : Origin(p) = n

\* Every failure the counter still reports has its sample in the table,
\* although the broker's task resets the counter and the drain empties the
\* table at times of their own.
FailuresAreQueued ==
    DiskFaults \/ \A n \in Nodes : failures[n] <= Len(queue[n])

\* The mesh is an extra path, never a substitute for the table: a sample
\* on the air, or being proxied by a peer, and still owed is at that very
\* moment in its origin's table, also across the origin's crash.
MeshCopyIsBackedUp ==
    \A m \in Nodes : \A p \in inbox[m] \cup ({relaying[m]} \ {None}) :
        fate[p] = "held" => p \in Queued(Origin(p))

\* A listener proxies a sample once while it remembers it, although it
\* remembers it only after the POST it awaits has ended.
RelayedOnce ==
    \A m \in Nodes :
        /\ relaying[m] \notin Remembered(m)
        /\ \A i, j \in DOMAIN seen[m] : seen[m][i] = seen[m][j] => i = j

(* Liveness. *)

\* A step in which a POST of n fails or is refused, the SELECT of a drain
\* or a DELETE fails (which the table cannot tell from a failed POST), or n
\* crashes.
Disturbance(n) ==
    \/ PostRejected(n) \/ PostFailed(n) \/ DrainFailed(n) \/ Crash(n)
    \/ PostAccepted(n) /\ batch'[n] # Selected(queue[n])
    \/ \E p \in Packets : fate[p] # "refused" /\ fate'[p] = "refused"

\* Once the agent is up and disturbances stop, the backlog of the outage is
\* flushed and stays flushed, however many batches it takes.
BacklogFlushed ==
    \A n \in Nodes :
        (<>[](main[n] # "stopped") /\ <>[][~Disturbance(n)]_vars)
            => <>[](queue[n] = <<>>)

----------------------------------------------------------------------------
(* What the documents say of the agent and the code does not do. *)

\* "No data is ever permanently lost": no sample is taken out of the table
\* that the control plane did not accept.
DrainedMeansDelivered == \A p \in Packets : fate[p] # "refused"

=============================================================================
