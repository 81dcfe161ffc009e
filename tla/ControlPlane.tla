---------------------------- MODULE ControlPlane ----------------------------
(***************************************************************************)
(* Ingestion in the control plane (api/app/main.py, ingest_telemetry) with *)
(* the Redis keys it works on (api/app/redis_client.py).                   *)
(*                                                                         *)
(* Any number of requests is in progress at once; a request gives up the   *)
(* event loop at every await, so each Redis round trip is an action of its *)
(* own.  A sample may be posted any number of times: by its origin, again  *)
(* when the origin drains its table, and by every peer that relays it.     *)
(*                                                                         *)
(* Time is a countdown in every key that expires.  Which route a request   *)
(* decides on is left to RoutingEngine and RouteHysteresis: here a window  *)
(* is the sequence of the samples whose scores it holds.                   *)
(***************************************************************************)
EXTENDS Integers, Sequences

CONSTANTS
    Nodes,            \* node ids
    Packets,          \* samples, pairs of the origin and the timestamp
    StampsPerSecond,  \* resolution of a timestamp against int(timestamp())
    Handlers,         \* request tasks of the API process
    DedupTTL,         \* ex=60 of a dedup key
    NodeTTL,          \* REDIS_NODE_TTL_SECONDS
    WindowSize,       \* HISTORY_WINDOW_SIZE
    MaxStall,         \* BOUND: the longest a request stays in progress
    Faults,           \* whether Redis calls fail and the API restarts
    None              \* no sample

Origin(p) == p[1]
Stamp(p)  == p[2]

\* Mutant: the key names the node only.
DedupKeyOfNode(p) == <<Origin(p), 0>>

\* f"dedup:{payload.node_id}:{packet_ts}" with the timestamp cut to seconds
DedupKey(p) == <<Origin(p), Stamp(p) \div StampsPerSecond>>
DedupKeys   == {DedupKey(p) : p \in Packets}

ASSUME ControlPlaneAssumption ==
    /\ \A p \in Packets : Origin(p) \in Nodes /\ Stamp(p) \in Nat
    /\ StampsPerSecond \in Nat \ {0}
    /\ DedupTTL \in Nat \ {0}
    /\ NodeTTL \in Nat \ {0}
    /\ MaxStall \in Nat
    /\ WindowSize \in Nat \ {0}
    /\ Faults \in BOOLEAN
    /\ None \notin Packets

\* A request that ends within MaxStall writes a state that expires before
\* its dedup key: 30 + MaxStall <= 60 with the defaults.
ASSUME DedupOutlivesState == NodeTTL + MaxStall <= DedupTTL

VARIABLES
    (* Redis; a key with no seconds left does not exist *)
    dedup,      \* seconds left of each dedup key
    state,      \* node:<id>: the sample it was written from, or None
    stateTTL,   \* seconds left of node:<id>
    window,     \* health:<id>, newest sample first
    windowTTL,  \* seconds left of health:<id>
    (* the API process, per handler *)
    pc,         \* the await it is about to make, or "idle"
    pkt,        \* the sample of the request, or None
    age,        \* time since the request arrived
    (* observation only *)
    acked,      \* samples some sender got a 201 for
    stored,     \* samples whose state and score were written
    applied     \* those stored since their dedup key last expired

requests == <<pc, pkt, age>>
expiring == <<state, stateTTL, window, windowTTL>>
observed == <<acked, stored, applied>>
vars     == <<dedup, expiring, requests, observed>>

Steps == {"idle", "dedupGet", "dupHistory", "dedupSet", "history", "setNode",
          "push", "broadcast"}

TypeOK ==
    /\ dedup \in [DedupKeys -> 0 .. DedupTTL]
    /\ state \in [Nodes -> Packets \cup {None}]
    /\ stateTTL \in [Nodes -> 0 .. NodeTTL]
    /\ window \in [Nodes -> Seq(Packets)]
    /\ windowTTL \in [Nodes -> 0 .. NodeTTL]
    /\ pc \in [Handlers -> Steps]
    /\ pkt \in [Handlers -> Packets \cup {None}]
    /\ age \in [Handlers -> 0 .. MaxStall]
    /\ acked \in SUBSET Packets
    /\ stored \in SUBSET Packets
    /\ applied \in SUBSET Packets

Init ==
    /\ dedup = [k \in DedupKeys |-> 0]
    /\ state = [n \in Nodes |-> None]
    /\ stateTTL = [n \in Nodes |-> 0]
    /\ window = [n \in Nodes |-> <<>>]
    /\ windowTTL = [n \in Nodes |-> 0]
    /\ pc = [h \in Handlers |-> "idle"]
    /\ pkt = [h \in Handlers |-> None]
    /\ age = [h \in Handlers |-> 0]
    /\ acked = {} /\ stored = {} /\ applied = {}

----------------------------------------------------------------------------
(* One POST /telemetry. *)

\* lpush, ltrim
Pushed(w, p) ==
    [i \in 1 .. (IF Len(w) < WindowSize THEN Len(w) + 1 ELSE WindowSize)
       |-> IF i = 1 THEN p ELSE w[i - 1]]

Goto(h, step) == pc' = [pc EXCEPT ![h] = step]

\* The handler returned or raised; the task is free for another request.
Finish(h) ==
    /\ pc' = [pc EXCEPT ![h] = "idle"]
    /\ pkt' = [pkt EXCEPT ![h] = None]
    /\ age' = [age EXCEPT ![h] = 0]

\* A request arrives.  The identity and the signature are checked without
\* an await, up to the first call to Redis.
Arrive(h, p) ==
    /\ pc[h] = "idle"
    /\ Goto(h, "dedupGet")
    /\ pkt' = [pkt EXCEPT ![h] = p]
    /\ UNCHANGED <<dedup, expiring, age, observed>>

\* Mutant: the answer of get is ignored.
DedupGetIgnored(h) ==
    /\ pc[h] = "dedupGet"
    /\ Goto(h, "dedupSet")
    /\ UNCHANGED <<dedup, expiring, pkt, age, observed>>

\* get(dedup_key)
DedupGet(h) ==
    /\ pc[h] = "dedupGet"
    /\ Goto(h, IF dedup[DedupKey(pkt[h])] > 0 THEN "dupHistory" ELSE "dedupSet")
    /\ UNCHANGED <<dedup, expiring, pkt, age, observed>>

\* Mutant: the score of a duplicate is pushed again.
DupPushed(h) ==
    LET n == Origin(pkt[h]) IN
    /\ pc[h] = "dupHistory"
    /\ window' = [window EXCEPT ![n] = Pushed(@, pkt[h])]
    /\ windowTTL' = [windowTTL EXCEPT ![n] = NodeTTL]
    /\ acked' = acked \cup {pkt[h]}
    /\ Finish(h)
    /\ UNCHANGED <<dedup, state, stateTTL, stored, applied>>

\* A duplicate: read the window, recompute the route, 201.
DupAnswer(h) ==
    /\ pc[h] = "dupHistory"
    /\ acked' = acked \cup {pkt[h]}
    /\ Finish(h)
    /\ UNCHANGED <<dedup, expiring, stored, applied>>

\* Mutant: the key lives as long as the node state.
DedupSetShort(h) ==
    /\ pc[h] = "dedupSet"
    /\ dedup' = [dedup EXCEPT ![DedupKey(pkt[h])] = NodeTTL]
    /\ Goto(h, "history")
    /\ UNCHANGED <<expiring, pkt, age, observed>>

\* set(dedup_key, "1", ex=60)
DedupSet(h) ==
    /\ pc[h] = "dedupSet"
    /\ dedup' = [dedup EXCEPT ![DedupKey(pkt[h])] = DedupTTL]
    /\ Goto(h, "history")
    /\ UNCHANGED <<expiring, pkt, age, observed>>

\* lrange(health:<id>), and the decision on what it returned
ReadHistory(h) ==
    /\ pc[h] = "history"
    /\ Goto(h, "setNode")
    /\ UNCHANGED <<dedup, expiring, pkt, age, observed>>

\* update_node_state, first await: set(node:<id>, ..., ex=NodeTTL)
SetNode(h) ==
    LET n == Origin(pkt[h]) IN
    /\ pc[h] = "setNode"
    /\ state' = [state EXCEPT ![n] = pkt[h]]
    /\ stateTTL' = [stateTTL EXCEPT ![n] = NodeTTL]
    /\ Goto(h, "push")
    /\ UNCHANGED <<dedup, window, windowTTL, pkt, age, observed>>

\* Mutant: expire only where no expiry is set.
PushExpireNX(h) ==
    LET n == Origin(pkt[h]) IN
    /\ pc[h] = "push"
    /\ window' = [window EXCEPT ![n] = Pushed(@, pkt[h])]
    /\ windowTTL' = [windowTTL EXCEPT ![n] = IF @ = 0 THEN NodeTTL ELSE @]
    /\ stored' = stored \cup {pkt[h]}
    /\ applied' = applied \cup {pkt[h]}
    /\ Goto(h, "broadcast")
    /\ UNCHANGED <<dedup, state, stateTTL, pkt, age, acked>>

\* update_node_state, second await: lpush, ltrim and expire in one MULTI
PushHealth(h) ==
    LET n == Origin(pkt[h]) IN
    /\ pc[h] = "push"
    /\ window' = [window EXCEPT ![n] = Pushed(@, pkt[h])]
    /\ windowTTL' = [windowTTL EXCEPT ![n] = NodeTTL]
    /\ stored' = stored \cup {pkt[h]}
    /\ applied' = applied \cup {pkt[h]}
    /\ Goto(h, "broadcast")
    /\ UNCHANGED <<dedup, state, stateTTL, pkt, age, acked>>

\* _broadcast_topology_update(), then the 201; iterating a set of clients
\* that changed meanwhile raises, which makes it a 500.
Answer(h) ==
    /\ pc[h] = "broadcast"
    /\ acked' \in {acked, acked \cup {pkt[h]}}
    /\ Finish(h)
    /\ UNCHANGED <<dedup, expiring, stored, applied>>

\* A Redis call raises, or the API restarts: what the request wrote so far
\* stays, the sender gets a 500 or a broken connection.
Fault(h) ==
    /\ Faults
    /\ pc[h] # "idle"
    /\ Finish(h)
    /\ UNCHANGED <<dedup, expiring, observed>>

----------------------------------------------------------------------------
\* Mutant: a key without seconds counts on.
CountdownOn(ttl) == ttl - 1

Countdown(ttl) == IF ttl > 0 THEN ttl - 1 ELSE 0

\* One unit of time: keys that run out disappear.
Clock ==
    /\ \A h \in Handlers : pc[h] # "idle" => age[h] < MaxStall
    /\ dedup' = [k \in DedupKeys |-> Countdown(dedup[k])]
    /\ stateTTL' = [n \in Nodes |-> Countdown(stateTTL[n])]
    /\ windowTTL' = [n \in Nodes |-> Countdown(windowTTL[n])]
    /\ state' = [n \in Nodes |-> IF stateTTL[n] > 1 THEN state[n] ELSE None]
    /\ window' = [n \in Nodes |-> IF windowTTL[n] > 1 THEN window[n] ELSE <<>>]
    /\ age' = [h \in Handlers |-> IF pc[h] = "idle" THEN 0 ELSE age[h] + 1]
    /\ applied' = {p \in applied : dedup[DedupKey(p)] > 1}
    /\ UNCHANGED <<pc, pkt, acked, stored>>

----------------------------------------------------------------------------
Next ==
    \/ \E h \in Handlers :
         \/ \E p \in Packets : Arrive(h, p)
         \/ DedupGet(h)
         \/ DupAnswer(h)
         \/ DedupSet(h)
         \/ ReadHistory(h)
         \/ SetNode(h)
         \/ PushHealth(h)
         \/ Answer(h)
         \/ Fault(h)
    \/ Clock

Spec == Init /\ [][Next]_vars

\* A request in progress goes on, and time passes.
FairSpec ==
    /\ Spec
    /\ WF_vars(Clock)
    /\ \A h \in Handlers :
         WF_vars(\/ DedupGet(h) \/ DupAnswer(h) \/ DedupSet(h) \/ ReadHistory(h)
                 \/ SetNode(h) \/ PushHealth(h) \/ Answer(h))

----------------------------------------------------------------------------
(* Safety. *)

\* As long as the topology shows a state, its sample is still recognised
\* as a duplicate: a replay, by a drain or by a relay, cannot be recorded a
\* second time on top of the state it caused.  Requests overlap, stall and
\* fail meanwhile.
LiveStateIsDeduplicated ==
    \A n \in Nodes : stateTTL[n] > 0 => dedup[DedupKey(state[n])] > 0

\* A handler past the duplicate check for p is going to store p.
Records(h, p) ==
    pkt[h] = p /\ pc[h] \in {"dedupSet", "history", "setNode", "push"}

Storing(p) == \E h \in Handlers : Records(h, p)

IsTaken(p) == p \in stored \/ Storing(p)

SameSecond(p, q) ==
    /\ Origin(p) = Origin(q)
    /\ Stamp(p) \div StampsPerSecond = Stamp(q) \div StampsPerSecond

\* Without faults, a node the topology shows has a window that lives at
\* least as long, except while the request that refreshed the state is
\* between its two writes.
StateHasWindow ==
    Faults \/ \A n \in Nodes :
        stateTTL[n] > 0 =>
            \/ windowTTL[n] >= stateTTL[n] /\ window[n] # <<>>
            \/ \E h \in Handlers : pc[h] = "push" /\ Origin(pkt[h]) = n

\* A sender that was told 201 may delete its copy: its sample was recorded,
\* or another request is recording it right now.
AckedIsRecorded == \A p \in acked : IsTaken(p)

\* What remains of it when a node sends two samples in one second, as its
\* ticker does after a stall: the second is a duplicate of the first, and is
\* acknowledged and dropped, but never unless a sample of that second is kept.
AckedSecondIsRecorded ==
    \A p \in acked : \E q \in Packets : SameSecond(p, q) /\ IsTaken(q)

\* "Deduplication (60s window)", as far as it goes with a GET and a SET that
\* are two awaits: once a sample was recorded, and until its dedup key
\* expires, no request sets out to record it again.  Only those that had
\* passed the check by then may still do so, however many senders replay it,
\* stall or fail.
NoReplayAdmitted ==
    [][\A p \in applied, h \in Handlers : Records(h, p)' => Records(h, p)]_vars

\* "Retrieve the current state of a single node": the state of a node is
\* never replaced by an older sample of that node.
StateNeverGoesBack ==
    [][\A n \in Nodes :
          (state[n] # None /\ state'[n] # None)
            => Stamp(state'[n]) >= Stamp(state[n])]_vars

(* Liveness. *)

\* "stale nodes are automatically evicted": a node whose samples are no
\* longer stored leaves the topology, however often senders are still
\* answered for old ones.
StaleNodeEvicted ==
    \A n \in Nodes :
        <>[][\A h \in Handlers : ~(SetNode(h) /\ Origin(pkt[h]) = n)]_vars
            => <>[](state[n] = None /\ window[n] = <<>>)

=============================================================================
