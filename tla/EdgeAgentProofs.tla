-------------------------- MODULE EdgeAgentProofs --------------------------
(***************************************************************************)
(* Proofs about EdgeAgent, for any number of agents, samples, listeners    *)
(* and rows, any drain limit and relay window, with and without disk       *)
(* faults.                                                                 *)
(***************************************************************************)
EXTENDS EdgeAgent, TLAPS

----------------------------------------------------------------------------
(* The table and the relay window. *)

\* Deleting a row leaves a table, one row shorter, with the rows around the
\* deleted one.
LEMMA RemoveRowIsTable ==
    ASSUME NEW q \in Seq(Rows), NEW i \in DOMAIN q
    PROVE  /\ RemoveRow(q, i) \in Seq(Rows)
           /\ Len(RemoveRow(q, i)) = Len(q) - 1
           /\ \A j \in DOMAIN q : j # i =>
                \E k \in DOMAIN RemoveRow(q, i) : RemoveRow(q, i)[k] = q[j]
<1> DEFINE r == RemoveRow(q, i)
<1>1. /\ Len(q) \in Nat /\ i \in 1 .. Len(q) /\ Len(q) - 1 \in Nat
      /\ \A j \in 1 .. Len(q) : q[j] \in Rows
  OBVIOUS
<1>2. r \in [1 .. Len(q) - 1 -> Rows]
  BY <1>1 DEF RemoveRow
<1>3. r \in Seq(Rows) /\ Len(r) = Len(q) - 1 /\ DOMAIN r = 1 .. Len(q) - 1
  BY <1>1, <1>2
<1>4. ASSUME NEW j \in DOMAIN q, j # i
      PROVE  \E k \in DOMAIN r : r[k] = q[j]
  <2>1. CASE j < i
    <3>1. j \in 1 .. Len(q) - 1 /\ r[j] = q[j]
      BY <1>1, <2>1 DEF RemoveRow
    <3> QED BY <1>3, <3>1
  <2>2. CASE j > i
    <3>1. j - 1 \in 1 .. Len(q) - 1 /\ r[j - 1] = q[j]
      BY <1>1, <2>2 DEF RemoveRow
    <3> QED BY <1>3, <3>1
  <2> QED BY <1>1, <1>4, <2>1, <2>2
<1> QED BY <1>3, <1>4

\* The relay window stays a sequence of packets.
LEMMA RememberIsWindow ==
    ASSUME NEW w \in Seq(Packets), NEW p \in Packets
    PROVE  Remember(w, p) \in Seq(Packets)
<1>1. Append(w, p) \in Seq(Packets)
  OBVIOUS
<1>2. Len(Append(w, p)) = Len(w) + 1 /\ Len(w) \in Nat
  OBVIOUS
<1>3. Append(w, p) # <<>>
  BY <1>1, <1>2
<1>4. Tail(Append(w, p)) \in Seq(Packets)
  BY <1>1, <1>3
<1> QED BY <1>1, <1>4 DEF Remember

\* A drain selects packets of the table.
LEMMA SelectedAreQueued ==
    ASSUME NEW q \in Seq(Rows)
    PROVE  Selected(q) \subseteq {q[i].pkt : i \in DOMAIN q}
BY DEF Selected

\* The fates an action assigns are fates.
LEMMA FateTypes ==
    ASSUME fate \in [Packets -> Fates]
    PROVE  /\ \A S : Delivered(S) \in [Packets -> Fates]
           /\ \A p \in Packets : \A f \in Fates : GivenUp(p, f) \in [Packets -> Fates]
BY DEF Delivered, GivenUp, Fates

----------------------------------------------------------------------------
(* Types. *)

\* What a sample in hand is.
LEMMA HandIsRow ==
    ASSUME TypeOK, NEW n \in Nodes, hand[n] # None
    PROVE  hand[n] \in Rows /\ hand[n].pkt \in Packets
BY DEF TypeOK, Rows

\* A row of a table.
LEMMA QueueRows ==
    ASSUME TypeOK, NEW n \in Nodes
    PROVE  /\ queue[n] \in Seq(Rows)
           /\ \A i \in DOMAIN queue[n] :
                queue[n][i] \in Rows /\ queue[n][i].pkt \in Packets
<1>1. queue[n] \in Seq(Rows)
  BY DEF TypeOK
<1>2. \A i \in DOMAIN queue[n] : queue[n][i] \in Rows
  BY <1>1
<1> QED BY <1>1, <1>2 DEF Rows

\* Taking a datagram leaves datagrams.
LEMMA ReceiveTypes ==
    ASSUME TypeOK, NEW n \in Nodes, NEW p \in Packets, Receive(n, p)
    PROVE  inbox' \in [Nodes -> SUBSET Packets]
<1>1. CASE inbox' = inbox
  BY <1>1 DEF TypeOK
<1>2. CASE inbox' = [inbox EXCEPT ![n] = @ \ {p}]
  BY <1>2 DEF TypeOK
<1> QED BY <1>1, <1>2 DEF Receive

\* The loop has a sample in hand exactly while it is posting one.
HandMatchesLoop == \A n \in Nodes : main[n] = "posting" <=> hand[n] # None

TypeInv == TypeOK /\ HandMatchesLoop

LEMMA InitTypes == Init => TypeInv
BY AgentAssumption DEF Init, TypeInv, TypeOK, HandMatchesLoop, Fates

LEMMA NextTypes == TypeInv /\ [Next]_vars => TypeInv'
<1> SUFFICES ASSUME TypeInv, [Next]_vars PROVE TypeInv'
  OBVIOUS
<1> USE AgentAssumption DEF TypeInv
<1>1. ASSUME NEW n \in Nodes, Tick(n) PROVE TypeInv'
  <2>1. PICK p \in Packets \ InUse :
          /\ hand' = [hand EXCEPT ![n] =
               [pkt |-> p, priority |-> IF failures[n] > 0 THEN 5 ELSE 0]]
          /\ fate' = [fate EXCEPT ![p] = "held"]
    BY <1>1 DEF Tick
  <2>2. [pkt |-> p, priority |-> IF failures[n] > 0 THEN 5 ELSE 0] \in Rows
    BY DEF Rows, Priorities
  <2> QED BY <1>1, <2>1, <2>2 DEF Tick, listener, TypeOK, HandMatchesLoop, Fates
<1>2. ASSUME NEW n \in Nodes, PostAccepted(n) PROVE TypeInv'
  <2>1. PICK rows \in DrainResults(n) :
          /\ batch' = [batch EXCEPT ![n] = rows]
          /\ main' = [main EXCEPT ![n] = IF rows = {} THEN "idle" ELSE "draining"]
    BY <1>2 DEF PostAccepted, ResetFailures
  <2>2. rows \subseteq Packets
    BY SelectedAreQueued, QueueRows DEF DrainResults
  <2>3. fate' \in [Packets -> Fates]
    BY <1>2, FateTypes DEF PostAccepted, ResetFailures, TypeOK
  <2>4. TypeOK'
    <3>1. batch' \in [Nodes -> SUBSET Packets]
      BY <2>1, <2>2 DEF TypeOK
    <3>2. main' \in [Nodes -> {"stopped", "idle", "posting", "draining"}]
      BY <2>1 DEF TypeOK
    <3>3. /\ failures' = [failures EXCEPT ![n] = 0]
          /\ hand' = [hand EXCEPT ![n] = None]
          /\ UNCHANGED <<mqtt, listener, queue, inbox>>
      BY <1>2 DEF PostAccepted, ResetFailures
    <3> QED BY <2>3, <3>1, <3>2, <3>3 DEF listener, TypeOK
  <2>5. HandMatchesLoop'
    BY <1>2, <2>1 DEF PostAccepted, ResetFailures, TypeOK, HandMatchesLoop
  <2> QED BY <2>4, <2>5
<1>3. ASSUME NEW n \in Nodes, PostRejected(n) PROVE TypeInv'
  <2>1. hand[n] \in Rows /\ hand[n].pkt \in Packets
    BY <1>3, HandIsRow DEF PostRejected, HandMatchesLoop
  <2>2. queue' \in [Nodes -> Seq(Rows)]
    <3>1. Append(queue[n], hand[n]) \in Seq(Rows)
      BY <2>1, QueueRows
    <3> QED BY <1>3, <3>1 DEF PostRejected, Inserted, InsertFailed, TypeOK
  <2>3. fate' \in [Packets -> Fates]
    BY <1>3, <2>1, FateTypes DEF PostRejected, TypeOK, Fates
  <2> QED BY <1>3, <2>2, <2>3
         DEF PostRejected, StoreHand, listener, TypeOK, HandMatchesLoop
<1>4. ASSUME NEW n \in Nodes, PostFailed(n) PROVE TypeInv'
  <2>1. hand[n] \in Rows /\ hand[n].pkt \in Packets
    BY <1>4, HandIsRow DEF PostFailed, HandMatchesLoop
  <2>2. queue' \in [Nodes -> Seq(Rows)]
    <3>1. Append(queue[n], hand[n]) \in Seq(Rows)
      BY <2>1, QueueRows
    <3> QED BY <1>4, <3>1 DEF PostFailed, Inserted, InsertFailed, TypeOK
  <2>3. fate' \in [Packets -> Fates]
    BY <1>4, <2>1, FateTypes DEF PostFailed, TypeOK, Fates
  <2>4. inbox' \in [Nodes -> SUBSET Packets]
    <3>1. CASE UNCHANGED inbox
      BY <3>1 DEF TypeOK
    <3>2. CASE Broadcast(hand[n].pkt)
      <4>1. PICK reached \in SUBSET {m \in Listeners : main[m] # "stopped"} :
              inbox' = [m \in Nodes |-> IF m \in reached
                                         THEN inbox[m] \cup {hand[n].pkt}
                                         ELSE inbox[m]]
        BY <3>2 DEF Broadcast
      <4>2. \A m \in Nodes : inbox[m] \subseteq Packets
        BY DEF TypeOK
      <4> QED BY <2>1, <4>1, <4>2
    <3> QED BY <1>4, <3>1, <3>2 DEF PostFailed
  <2>5. failures' \in [Nodes -> 0 .. MaxFailures]
    BY <1>4 DEF PostFailed, Least, TypeOK
  <2> QED BY <1>4, <2>2, <2>3, <2>4, <2>5
         DEF PostFailed, StoreHand, listener, TypeOK, HandMatchesLoop
<1>5. ASSUME NEW n \in Nodes, DrainAnswered(n) PROVE TypeInv'
  <2>1. PICK i \in DOMAIN queue[n] :
          /\ Drained(n, i)
          /\ \/ fate' = Delivered({queue[n][i].pkt})
             \/ fate' = GivenUp(queue[n][i].pkt, "refused")
          /\ \/ queue' = [queue EXCEPT ![n] = RemoveRow(@, i)]
             \/ DiskFaults /\ UNCHANGED queue
    BY <1>5 DEF DrainAnswered
  <2>2. queue[n] \in Seq(Rows) /\ queue[n][i].pkt \in Packets
    BY QueueRows
  <2>3. queue' \in [Nodes -> Seq(Rows)]
    <3>1. RemoveRow(queue[n], i) \in Seq(Rows)
      BY <2>2, RemoveRowIsTable
    <3> QED BY <2>1, <3>1 DEF TypeOK
  <2>4. fate' \in [Packets -> Fates]
    BY <2>1, <2>2, FateTypes DEF TypeOK, Fates
  <2> QED BY <2>1, <2>3, <2>4 DEF Drained, listener, TypeOK, HandMatchesLoop
<1>6. ASSUME NEW n \in Nodes, DrainFailed(n) PROVE TypeInv'
  <2>1. PICK i \in DOMAIN queue[n] :
          /\ Drained(n, i)
          /\ fate' \in {fate, Delivered({queue[n][i].pkt})}
          /\ UNCHANGED queue
    BY <1>6 DEF DrainFailed
  <2>2. fate' \in [Packets -> Fates]
    BY <2>1, FateTypes DEF TypeOK
  <2> QED BY <2>1, <2>2 DEF Drained, listener, TypeOK, HandMatchesLoop
<1>7. ASSUME NEW n \in Nodes, EventLoop(n) PROVE TypeInv'
  <2>1. CASE ConnAck(n)
    BY <2>1 DEF ConnAck, ResetFailures, listener, TypeOK, HandMatchesLoop
  <2>2. CASE MqttError(n)
    BY <2>2 DEF MqttError, listener, TypeOK, HandMatchesLoop
  <2> QED BY <1>7, <2>1, <2>2 DEF EventLoop
<1>8. ASSUME NEW n \in Nodes, NEW p \in Packets, HearAndRelay(n, p) PROVE TypeInv'
  <2>1. inbox' \in [Nodes -> SUBSET Packets]
    BY <1>8, ReceiveTypes DEF HearAndRelay
  <2> QED BY <1>8, <2>1 DEF HearAndRelay, TypeOK, HandMatchesLoop
<1>9. ASSUME NEW n \in Nodes, NEW p \in Packets, HearAndIgnore(n, p) PROVE TypeInv'
  <2>1. inbox' \in [Nodes -> SUBSET Packets]
    BY <1>9, ReceiveTypes DEF HearAndIgnore
  <2> QED BY <1>9, <2>1 DEF HearAndIgnore, process, listener, TypeOK, HandMatchesLoop
<1>10. ASSUME NEW n \in Nodes, RelayDone(n) PROVE TypeInv'
  <2>1. relaying[n] \in Packets /\ seen[n] \in Seq(Packets)
    BY <1>10 DEF RelayDone, TypeOK
  <2>2. seen' \in [Nodes -> Seq(Packets)]
    BY <1>10, <2>1, RememberIsWindow DEF RelayDone, TypeOK
  <2>3. fate' \in [Packets -> Fates]
    BY <1>10, FateTypes DEF RelayDone, TypeOK
  <2>4. relayed' \in [Nodes -> 0 .. RelayCap]
    BY <1>10 DEF RelayDone, Least, TypeOK
  <2> QED BY <1>10, <2>2, <2>3, <2>4 DEF RelayDone, TypeOK, HandMatchesLoop
<1>11. ASSUME NEW n \in Nodes, Crash(n) PROVE TypeInv'
  <2>1. fate' \in [Packets -> Fates]
    BY <1>11 DEF Crash, TypeOK, Fates
  <2>2. << >> \in Seq(Packets)
    OBVIOUS
  <2> QED BY <1>11, <2>1, <2>2 DEF Crash, TypeOK, HandMatchesLoop
<1>12. ASSUME NEW n \in Nodes, Restart(n) PROVE TypeInv'
  BY <1>12 DEF Restart, listener, TypeOK, HandMatchesLoop
<1>13. CASE UNCHANGED vars
  BY <1>13 DEF vars, process, listener, TypeOK, HandMatchesLoop
<1> QED
  BY <1>1, <1>2, <1>3, <1>4, <1>5, <1>6, <1>7, <1>8, <1>9, <1>10, <1>11,
     <1>12, <1>13 DEF Next, MainLoop, MeshListener

\* Every variable keeps its type, for any number of agents and samples.
THEOREM TypeCorrect == Spec => []TypeOK
<1>1. TypeInv => TypeOK
  BY DEF TypeInv
<1> QED BY <1>1, InitTypes, NextTypes, PTL DEF Spec

----------------------------------------------------------------------------
(* Custody. *)

\* Appending the sample in hand keeps every row and adds the sample.
LEMMA AppendKeepsRows ==
    ASSUME NEW q \in Seq(Rows), NEW r \in Rows
    PROVE  {Append(q, r)[i].pkt : i \in DOMAIN Append(q, r)}
             = {q[i].pkt : i \in DOMAIN q} \cup {r.pkt}
<1>1. /\ Len(q) \in Nat /\ DOMAIN q = 1 .. Len(q)
      /\ DOMAIN Append(q, r) = 1 .. Len(q) + 1
      /\ Append(q, r)[Len(q) + 1] = r
      /\ \A i \in 1 .. Len(q) : Append(q, r)[i] = q[i]
  OBVIOUS
<1>2. ASSUME NEW x \in {Append(q, r)[i].pkt : i \in DOMAIN Append(q, r)}
      PROVE  x \in {q[i].pkt : i \in DOMAIN q} \cup {r.pkt}
  <2>1. PICK i \in 1 .. Len(q) + 1 : x = Append(q, r)[i].pkt
    BY <1>1, <1>2
  <2>2. i \in 1 .. Len(q) \/ i = Len(q) + 1
    BY <1>1
  <2> QED BY <1>1, <2>1, <2>2
<1>3. ASSUME NEW x \in {q[i].pkt : i \in DOMAIN q} \cup {r.pkt}
      PROVE  x \in {Append(q, r)[i].pkt : i \in DOMAIN Append(q, r)}
  <2>1. CASE x = r.pkt
    <3>1. Len(q) + 1 \in DOMAIN Append(q, r)
      BY <1>1
    <3> QED BY <1>1, <2>1, <3>1
  <2>2. CASE x \in {q[i].pkt : i \in DOMAIN q}
    <3>1. PICK i \in 1 .. Len(q) : x = q[i].pkt
      BY <1>1, <2>2
    <3>2. i \in DOMAIN Append(q, r) /\ Append(q, r)[i] = q[i]
      BY <1>1
    <3> QED BY <3>1, <3>2
  <2> QED BY <1>3, <2>1, <2>2
<1> QED BY <1>2, <1>3

\* Nothing about the sample changes when neither hands, tables nor fates do.
LEMMA HeldUnchanged ==
    ASSUME UNCHANGED <<hand, queue>>, NEW n \in Nodes
    PROVE  InHand(n)' = InHand(n) /\ Queued(n)' = Queued(n) /\ Held(n)' = Held(n)
BY DEF Held, InHand, Queued

\* The sample in hand moves into the table, or out of the agent's custody.
LEMMA StoreHandKeeps ==
    ASSUME TypeInv, NEW n \in Nodes, main[n] = "posting", StoreHand(n),
           NEW p \in Packets, p \in Held(Origin(p)),
           \/ Inserted(n)
           \/ UNCHANGED queue /\ p # hand[n].pkt
    PROVE  p \in Held(Origin(p))'
<1> DEFINE o == Origin(p)
<1>1. o \in Nodes /\ hand[n] \in Rows /\ queue[n] \in Seq(Rows)
  BY AgentAssumption, HandIsRow, QueueRows DEF TypeInv, HandMatchesLoop
<1>2. CASE o # n
  BY <1>1, <1>2 DEF StoreHand, Inserted, Held, InHand, Queued, TypeInv, TypeOK
<1>3. CASE o = n /\ Inserted(n)
  <2>1. Queued(n)' = Queued(n) \cup {hand[n].pkt}
    <3>1. queue'[n] = Append(queue[n], hand[n])
      BY <1>3 DEF Inserted, TypeInv, TypeOK
    <3> QED BY <1>1, <3>1, AppendKeepsRows DEF Queued
  <2> QED BY <1>3, <2>1 DEF Held, InHand
<1>4. CASE o = n /\ UNCHANGED queue /\ p # hand[n].pkt
  BY <1>1, <1>4 DEF Held, InHand, Queued
<1> QED BY <1>2, <1>3, <1>4

CustodyInv == TypeInv /\ PacketsAccounted

LEMMA InitCustody == Init => CustodyInv
BY InitTypes DEF Init, CustodyInv, PacketsAccounted

LEMMA NextCustody == CustodyInv /\ [Next]_vars => CustodyInv'
<1> SUFFICES ASSUME CustodyInv, [Next]_vars, NEW p \in Packets, fate'[p] = "held"
             PROVE  p \in Held(Origin(p))'
  BY NextTypes DEF CustodyInv, PacketsAccounted
<1> DEFINE o == Origin(p)
<1>a. o \in Nodes /\ TypeInv /\ TypeOK /\ HandMatchesLoop
  BY AgentAssumption DEF CustodyInv, TypeInv
<1>b. fate[p] = "held" => p \in Held(o)
  BY DEF CustodyInv, PacketsAccounted
<1>c. ASSUME UNCHANGED <<hand, queue>>, fate[p] = "held" PROVE p \in Held(o)'
  BY <1>a, <1>b, <1>c, HeldUnchanged
<1>1. ASSUME NEW n \in Nodes, Tick(n) PROVE p \in Held(o)'
  <2>1. PICK q \in Packets \ InUse :
          /\ Origin(q) = n
          /\ hand' = [hand EXCEPT ![n] =
               [pkt |-> q, priority |-> IF failures[n] > 0 THEN 5 ELSE 0]]
          /\ fate' = [fate EXCEPT ![q] = "held"]
    BY <1>1 DEF Tick
  <2>2. hand'[n].pkt = q /\ hand'[n] \in Rows
    BY <1>a, <2>1 DEF TypeOK, Rows, Priorities
  <2>3. CASE p = q
    <3>1. hand'[n] # None
      BY <2>2, AgentAssumption
    <3> QED BY <2>1, <2>2, <2>3, <3>1 DEF Held, InHand
  <2>4. CASE p # q
    <3>1. fate[p] = "held"
      BY <1>a, <2>1, <2>4 DEF TypeOK
    <3>2. hand[n] = None /\ UNCHANGED queue
      BY <1>1, <1>a DEF Tick, HandMatchesLoop
    <3>3. Queued(o)' = Queued(o) /\ InHand(o) \subseteq InHand(o)'
      BY <1>a, <2>1, <3>2 DEF Queued, InHand, TypeOK
    <3> QED BY <1>b, <3>1, <3>3 DEF Held
  <2> QED BY <2>3, <2>4
<1>2. ASSUME NEW n \in Nodes, PostAccepted(n) PROVE p \in Held(o)'
  <2>1. p # hand[n].pkt /\ fate[p] = "held"
    BY <1>2 DEF PostAccepted, ResetFailures, Delivered
  <2>2. hand' = [hand EXCEPT ![n] = None] /\ UNCHANGED queue
    BY <1>2 DEF PostAccepted, ResetFailures
  <2> QED BY <1>a, <1>b, <2>1, <2>2 DEF Held, InHand, Queued, TypeOK
<1>3. ASSUME NEW n \in Nodes, PostRejected(n) PROVE p \in Held(o)'
  <2>1. hand[n].pkt \in Packets
    BY <1>3, <1>a, HandIsRow DEF PostRejected, HandMatchesLoop
  <2>2. CASE Inserted(n) /\ UNCHANGED fate
    BY <1>3, <1>a, <1>b, <2>2, StoreHandKeeps DEF PostRejected
  <2>3. CASE InsertFailed /\ fate' = GivenUp(hand[n].pkt, "lost")
    <3>1. p # hand[n].pkt /\ fate[p] = "held"
      BY <1>a, <2>1, <2>3 DEF GivenUp, TypeOK
    <3> QED BY <1>3, <1>a, <1>b, <2>3, <3>1, StoreHandKeeps
           DEF PostRejected, InsertFailed
  <2> QED BY <1>3, <2>2, <2>3 DEF PostRejected
<1>4. ASSUME NEW n \in Nodes, PostFailed(n) PROVE p \in Held(o)'
  <2>1. hand[n].pkt \in Packets
    BY <1>4, <1>a, HandIsRow DEF PostFailed, HandMatchesLoop
  <2>2. CASE Inserted(n) /\ UNCHANGED fate
    BY <1>4, <1>a, <1>b, <2>2, StoreHandKeeps DEF PostFailed
  <2>3. CASE Inserted(n) /\ fate' = Delivered({hand[n].pkt})
    <3>1. fate[p] = "held"
      BY <2>3 DEF Delivered
    <3> QED BY <1>4, <1>a, <1>b, <2>3, <3>1, StoreHandKeeps DEF PostFailed
  <2>4. CASE InsertFailed /\ fate' = GivenUp(hand[n].pkt, "lost")
    <3>1. p # hand[n].pkt /\ fate[p] = "held"
      BY <1>a, <2>1, <2>4 DEF GivenUp, TypeOK
    <3> QED BY <1>4, <1>a, <1>b, <2>4, <3>1, StoreHandKeeps
           DEF PostFailed, InsertFailed
  <2>5. CASE InsertFailed /\ fate' = Delivered({hand[n].pkt})
    <3>1. p # hand[n].pkt /\ fate[p] = "held"
      BY <2>5 DEF Delivered
    <3> QED BY <1>4, <1>a, <1>b, <2>5, <3>1, StoreHandKeeps
           DEF PostFailed, InsertFailed
  <2> QED BY <1>4, <2>2, <2>3, <2>4, <2>5 DEF PostFailed
<1>5. ASSUME NEW n \in Nodes, DrainAnswered(n) PROVE p \in Held(o)'
  <2>1. PICK i \in DOMAIN queue[n] :
          /\ Drained(n, i)
          /\ \/ fate' = Delivered({queue[n][i].pkt})
             \/ fate' = GivenUp(queue[n][i].pkt, "refused")
          /\ \/ queue' = [queue EXCEPT ![n] = RemoveRow(@, i)]
             \/ DiskFaults /\ UNCHANGED queue
    BY <1>5 DEF DrainAnswered
  <2>2. queue[n] \in Seq(Rows) /\ queue[n][i].pkt \in Packets
    BY <1>a, QueueRows
  <2>3. p # queue[n][i].pkt /\ fate[p] = "held"
    BY <1>a, <2>1, <2>2 DEF Delivered, GivenUp, TypeOK
  <2>4. InHand(o)' = InHand(o)
    BY <2>1 DEF Drained, InHand
  <2>5. p \in Queued(o) => p \in Queued(o)'
    <3>1. CASE o = n /\ queue' = [queue EXCEPT ![n] = RemoveRow(@, i)]
      <4>1. queue'[n] = RemoveRow(queue[n], i)
        BY <1>a, <3>1 DEF TypeOK
      <4>2. \A j \in DOMAIN queue[n] : j # i =>
              \E k \in DOMAIN queue'[n] : queue'[n][k] = queue[n][j]
        BY <2>2, <4>1, RemoveRowIsTable
      <4> QED BY <2>3, <3>1, <4>2 DEF Queued
    <3>2. CASE o # n
      BY <1>a, <2>1, <3>2 DEF Queued, TypeOK
    <3> QED BY <2>1, <3>1, <3>2 DEF Queued
  <2> QED BY <1>b, <2>3, <2>4, <2>5 DEF Held
<1>6. ASSUME NEW n \in Nodes, DrainFailed(n) PROVE p \in Held(o)'
  <2>1. UNCHANGED <<hand, queue>> /\ fate[p] = "held"
    BY <1>6 DEF DrainFailed, Drained, Delivered
  <2> QED BY <2>1, <1>c
<1>7. ASSUME NEW n \in Nodes, EventLoop(n) PROVE p \in Held(o)'
  BY <1>7, <1>c DEF EventLoop, ConnAck, ResetFailures, MqttError
<1>8. ASSUME NEW n \in Nodes, MeshListener(n) PROVE p \in Held(o)'
  <2>1. UNCHANGED <<hand, queue>> /\ fate[p] = "held"
    BY <1>8 DEF MeshListener, HearAndRelay, HearAndIgnore, RelayDone, process,
                Delivered
  <2> QED BY <2>1, <1>c
<1>9. ASSUME NEW n \in Nodes, Crash(n) PROVE p \in Held(o)'
  <2>1. p \notin InHand(n) /\ fate[p] = "held"
    BY <1>9 DEF Crash
  <2>2. hand' = [hand EXCEPT ![n] = None] /\ UNCHANGED queue
    BY <1>9 DEF Crash
  <2> QED BY <1>a, <1>b, <2>1, <2>2 DEF Held, InHand, Queued, TypeOK
<1>10. ASSUME NEW n \in Nodes, Restart(n) PROVE p \in Held(o)'
  BY <1>10, <1>c DEF Restart
<1>11. CASE UNCHANGED vars
  BY <1>11, <1>c DEF vars, process
<1> QED
  BY <1>1, <1>2, <1>3, <1>4, <1>5, <1>6, <1>7, <1>8, <1>9, <1>10, <1>11
     DEF Next, MainLoop

\* No sample vanishes: whatever the agent still owes to the control plane
\* it holds, through drains, failures, relays, disk errors and crashes.
THEOREM Custody == Spec => []PacketsAccounted
<1>1. CustodyInv => PacketsAccounted
  BY DEF CustodyInv
<1> QED BY <1>1, InitCustody, NextCustody, PTL DEF Spec

----------------------------------------------------------------------------
(* The table and the control point. *)

\* The packets of a table, and that it holds each of them once.
PktsOf(q)   == {q[i].pkt : i \in DOMAIN q}
EachOnce(q) == \A i, j \in DOMAIN q : q[i].pkt = q[j].pkt => i = j

\* Deleting a row takes its packet, and no other, out of the table.
LEMMA RemovedRow ==
    ASSUME NEW q \in Seq(Rows), NEW i \in DOMAIN q, EachOnce(q)
    PROVE  /\ EachOnce(RemoveRow(q, i))
           /\ PktsOf(RemoveRow(q, i)) = PktsOf(q) \ {q[i].pkt}
<1> DEFINE r == RemoveRow(q, i)
           at(k) == IF k < i THEN k ELSE k + 1
<1>1. /\ Len(q) \in Nat /\ DOMAIN q = 1 .. Len(q) /\ i \in 1 .. Len(q)
      /\ DOMAIN r = 1 .. Len(q) - 1
  BY RemoveRowIsTable DEF RemoveRow
<1>2. ASSUME NEW k \in DOMAIN r
      PROVE  at(k) \in DOMAIN q /\ at(k) # i /\ r[k] = q[at(k)]
  <2>1. k \in 1 .. Len(q) - 1
    BY <1>1
  <2>2. r[k] = q[at(k)]
    BY <2>1 DEF RemoveRow
  <2>3. at(k) \in 1 .. Len(q) /\ at(k) # i
    BY <1>1, <2>1
  <2> QED BY <1>1, <2>2, <2>3
<1>3. \A j, k \in DOMAIN r : at(j) = at(k) => j = k
  BY <1>1
<1>4. EachOnce(r)
  <2> SUFFICES ASSUME NEW j \in DOMAIN r, NEW k \in DOMAIN r, r[j].pkt = r[k].pkt
               PROVE  j = k
    BY DEF EachOnce
  <2>1. q[at(j)].pkt = q[at(k)].pkt /\ at(j) \in DOMAIN q /\ at(k) \in DOMAIN q
    BY <1>2
  <2>2. at(j) = at(k)
    BY <2>1 DEF EachOnce
  <2> QED BY <1>3, <2>2
<1>5. ASSUME NEW x \in PktsOf(r) PROVE x \in PktsOf(q) /\ x # q[i].pkt
  <2>1. PICK k \in DOMAIN r : x = r[k].pkt
    BY <1>5 DEF PktsOf
  <2>2. x = q[at(k)].pkt /\ at(k) \in DOMAIN q /\ at(k) # i
    BY <1>2, <2>1
  <2> QED BY <2>2 DEF PktsOf, EachOnce
<1>6. ASSUME NEW x \in PktsOf(q), x # q[i].pkt PROVE x \in PktsOf(r)
  <2>1. PICK j \in DOMAIN q : x = q[j].pkt
    BY <1>6 DEF PktsOf
  <2>2. PICK k \in DOMAIN r : r[k] = q[j]
    BY <1>6, <2>1, RemoveRowIsTable
  <2> QED BY <2>1, <2>2 DEF PktsOf
<1> QED BY <1>4, <1>5, <1>6

\* Appending a row whose packet is new keeps each packet once.
LEMMA AppendEachOnce ==
    ASSUME NEW q \in Seq(Rows), NEW r \in Rows, EachOnce(q), r.pkt \notin PktsOf(q)
    PROVE  EachOnce(Append(q, r))
<1> DEFINE a == Append(q, r)
<1>1. /\ Len(q) \in Nat /\ DOMAIN q = 1 .. Len(q)
      /\ DOMAIN a = 1 .. Len(q) + 1
      /\ a[Len(q) + 1] = r
      /\ \A i \in 1 .. Len(q) : a[i] = q[i]
  OBVIOUS
<1> SUFFICES ASSUME NEW i \in DOMAIN a, NEW j \in DOMAIN a, a[i].pkt = a[j].pkt
             PROVE  i = j
  BY DEF EachOnce
<1>2. \A k \in DOMAIN a : k = Len(q) + 1 \/ k \in DOMAIN q
  BY <1>1
<1>3. \A k \in DOMAIN q : a[k].pkt # r.pkt
  BY <1>1 DEF PktsOf
<1>4. CASE i \in DOMAIN q /\ j \in DOMAIN q
  BY <1>1, <1>4 DEF EachOnce
<1>5. CASE i \notin DOMAIN q \/ j \notin DOMAIN q
  BY <1>1, <1>2, <1>3, <1>5
<1> QED BY <1>4, <1>5

\* What QueueCoherent says of one agent.
CoherentAt(m) ==
    /\ main[m] = "posting" <=> hand[m] # None
    /\ main[m] = "draining" <=> batch[m] # {}
    /\ batch[m] \subseteq Queued(m)
    /\ InHand(m) \cap Queued(m) = {}
    /\ EachOnce(queue[m])
    /\ \A p \in Held(m) : Origin(p) = m

LEMMA CoherentPointwise == QueueCoherent <=> \A m \in Nodes : CoherentAt(m)
BY DEF QueueCoherent, CoherentAt, EachOnce

\* An agent whose loop and table do not move stays coherent.
LEMMA CoherentUnchanged ==
    ASSUME NEW m \in Nodes, CoherentAt(m),
           main'[m] = main[m], hand'[m] = hand[m],
           batch'[m] = batch[m], queue'[m] = queue[m]
    PROVE  CoherentAt(m)'
BY DEF CoherentAt, EachOnce, Held, InHand, Queued

QueueInv == TypeInv /\ QueueCoherent

\* Storing the sample in hand keeps the table coherent.
LEMMA StoreCoherent ==
    ASSUME QueueInv, NEW n \in Nodes, main[n] = "posting", StoreHand(n),
           Inserted(n) \/ UNCHANGED queue, UNCHANGED batch
    PROVE  CoherentAt(n)'
<1>1. /\ TypeOK /\ CoherentAt(n) /\ hand[n] \in Rows /\ queue[n] \in Seq(Rows)
      /\ hand[n] # None
  BY CoherentPointwise, HandIsRow, QueueRows DEF QueueInv, TypeInv, HandMatchesLoop
<1>2. hand'[n] = None /\ main'[n] = "idle" /\ batch'[n] = batch[n] /\ batch[n] = {}
  BY <1>1 DEF StoreHand, TypeOK, CoherentAt
<1>3. EachOnce(queue[n]) /\ hand[n].pkt \notin Queued(n) /\ Origin(hand[n].pkt) = n
      /\ \A p \in Queued(n) : Origin(p) = n
  BY <1>1 DEF CoherentAt, InHand, Held
<1>4. EachOnce(queue'[n]) /\ \A p \in PktsOf(queue'[n]) : Origin(p) = n
  <2>1. CASE Inserted(n)
    <3>1. queue'[n] = Append(queue[n], hand[n])
      BY <1>1, <2>1 DEF Inserted, TypeOK
    <3>2. PktsOf(queue'[n]) = Queued(n) \cup {hand[n].pkt}
      BY <1>1, <3>1, AppendKeepsRows DEF PktsOf, Queued
    <3>3. EachOnce(queue'[n])
      BY <1>1, <1>3, <3>1, AppendEachOnce DEF PktsOf, Queued
    <3> QED BY <1>3, <3>2, <3>3
  <2>2. CASE UNCHANGED queue
    BY <1>3, <2>2 DEF PktsOf, Queued
  <2> QED BY <2>1, <2>2
<1> QED BY <1>2, <1>4 DEF CoherentAt, InHand, Held, Queued, PktsOf

\* So does a step of the drain that deletes the row it sent, or leaves it.
LEMMA DrainCoherent ==
    ASSUME QueueInv, NEW n \in Nodes, NEW i \in DOMAIN queue[n], Drained(n, i),
           queue' = [queue EXCEPT ![n] = RemoveRow(@, i)] \/ UNCHANGED queue
    PROVE  CoherentAt(n)'
<1> DEFINE p == queue[n][i].pkt
<1>1. TypeOK /\ CoherentAt(n) /\ queue[n] \in Seq(Rows)
  BY CoherentPointwise, QueueRows DEF QueueInv, TypeInv
<1>2. /\ main[n] = "draining" /\ hand'[n] = hand[n] /\ hand[n] = None
      /\ batch'[n] = batch[n] \ {p} /\ p \in batch[n]
      /\ main'[n] = IF batch[n] = {p} THEN "idle" ELSE "draining"
  BY <1>1 DEF Drained, IsNextRow, TypeOK, CoherentAt
<1>3. EachOnce(queue[n]) /\ batch[n] \subseteq PktsOf(queue[n])
      /\ \A x \in PktsOf(queue[n]) : Origin(x) = n
  BY <1>1 DEF CoherentAt, Held, Queued, PktsOf
<1>4. /\ EachOnce(queue'[n]) /\ batch'[n] \subseteq PktsOf(queue'[n])
      /\ \A x \in PktsOf(queue'[n]) : Origin(x) = n
  <2>1. CASE queue' = [queue EXCEPT ![n] = RemoveRow(@, i)]
    <3>1. queue'[n] = RemoveRow(queue[n], i)
      BY <1>1, <2>1 DEF TypeOK
    <3>2. EachOnce(queue'[n]) /\ PktsOf(queue'[n]) = PktsOf(queue[n]) \ {p}
      BY <1>1, <1>3, <3>1, RemovedRow
    <3> QED BY <1>2, <1>3, <3>2
  <2>2. CASE UNCHANGED queue
    BY <1>2, <1>3, <2>2
  <2> QED BY <2>1, <2>2
<1>5. main'[n] = "draining" <=> batch'[n] # {}
  BY <1>2
<1>6. main'[n] = "posting" <=> hand'[n] # None
  BY <1>2
<1> QED BY <1>2, <1>4, <1>5, <1>6 DEF CoherentAt, InHand, Held, Queued, PktsOf

LEMMA InitQueue == Init => QueueInv
BY InitTypes DEF Init, QueueInv, QueueCoherent, Held, InHand, Queued

LEMMA NextQueue == QueueInv /\ [Next]_vars => QueueInv'
<1> SUFFICES ASSUME QueueInv, [Next]_vars, NEW m \in Nodes PROVE CoherentAt(m)'
  BY NextTypes, CoherentPointwise DEF QueueInv, QueueCoherent, CoherentAt, EachOnce
<1>a. TypeOK /\ HandMatchesLoop /\ CoherentAt(m)
  BY CoherentPointwise DEF QueueInv, TypeInv
<1>1. ASSUME NEW n \in Nodes, Tick(n) PROVE CoherentAt(m)'
  <2>1. PICK p \in Packets \ InUse :
          /\ Origin(p) = n
          /\ hand' = [hand EXCEPT ![n] =
               [pkt |-> p, priority |-> IF failures[n] > 0 THEN 5 ELSE 0]]
    BY <1>1 DEF Tick
  <2>2. CASE m = n
    <3>1. hand'[n].pkt = p /\ hand'[n] \in Rows
      BY <1>a, <2>1 DEF TypeOK, Rows, Priorities
    <3>2. hand'[n] # None
      BY <3>1, AgentAssumption
    <3>3. main'[n] = "posting" /\ batch'[n] = {} /\ queue'[n] = queue[n]
      BY <1>1, <1>a, <2>2 DEF Tick, TypeOK, CoherentAt
    <3>4. p \notin Queued(n)
      BY <2>1 DEF InUse, Held
    <3>5. InHand(n)' = {p} /\ Queued(n)' = Queued(n)
      BY <3>1, <3>2, <3>3 DEF InHand, Queued
    <3> QED BY <1>a, <2>1, <2>2, <3>2, <3>3, <3>4, <3>5
           DEF CoherentAt, EachOnce, Held
  <2>3. CASE m # n
    BY <1>1, <1>a, <2>1, <2>3, CoherentUnchanged DEF Tick, TypeOK
  <2> QED BY <2>2, <2>3
<1>2. ASSUME NEW n \in Nodes, PostAccepted(n) PROVE CoherentAt(m)'
  <2>1. PICK rows \in DrainResults(n) :
          /\ batch' = [batch EXCEPT ![n] = rows]
          /\ main' = [main EXCEPT ![n] = IF rows = {} THEN "idle" ELSE "draining"]
    BY <1>2 DEF PostAccepted, ResetFailures
  <2>2. hand' = [hand EXCEPT ![n] = None] /\ UNCHANGED queue
    BY <1>2 DEF PostAccepted, ResetFailures
  <2>3. CASE m = n
    <3>1. rows \subseteq Queued(n)
      BY <1>a, QueueRows, SelectedAreQueued DEF DrainResults, Queued
    <3>2. /\ batch'[n] = rows /\ hand'[n] = None /\ queue'[n] = queue[n]
          /\ main'[n] = IF rows = {} THEN "idle" ELSE "draining"
      BY <1>a, <2>1, <2>2 DEF TypeOK
    <3>3. InHand(n)' = {} /\ Queued(n)' = Queued(n)
      BY <3>2 DEF InHand, Queued
    <3> QED BY <1>a, <2>3, <3>1, <3>2, <3>3 DEF CoherentAt, EachOnce, Held
  <2>4. CASE m # n
    BY <1>a, <2>1, <2>2, <2>4, CoherentUnchanged DEF TypeOK
  <2> QED BY <2>3, <2>4
<1>3. ASSUME NEW n \in Nodes, PostRejected(n) PROVE CoherentAt(m)'
  <2>1. CASE m = n
    BY <1>3, <2>1, StoreCoherent DEF PostRejected, InsertFailed
  <2>2. CASE m # n
    BY <1>3, <1>a, <2>2, CoherentUnchanged
       DEF PostRejected, StoreHand, Inserted, InsertFailed, TypeOK
  <2> QED BY <2>1, <2>2
<1>4. ASSUME NEW n \in Nodes, PostFailed(n) PROVE CoherentAt(m)'
  <2>1. CASE m = n
    BY <1>4, <2>1, StoreCoherent DEF PostFailed, InsertFailed
  <2>2. CASE m # n
    BY <1>4, <1>a, <2>2, CoherentUnchanged
       DEF PostFailed, StoreHand, Inserted, InsertFailed, TypeOK
  <2> QED BY <2>1, <2>2
<1>5. ASSUME NEW n \in Nodes, NEW i \in DOMAIN queue[n], Drained(n, i),
             queue' = [queue EXCEPT ![n] = RemoveRow(@, i)] \/ UNCHANGED queue
      PROVE  CoherentAt(m)'
  <2>1. CASE m = n
    BY <1>5, <2>1, DrainCoherent
  <2>2. CASE m # n
    BY <1>5, <1>a, <2>2, CoherentUnchanged DEF Drained, TypeOK
  <2> QED BY <2>1, <2>2
<1>6. ASSUME NEW n \in Nodes, DrainAnswered(n) PROVE CoherentAt(m)'
  BY <1>5, <1>6 DEF DrainAnswered
<1>7. ASSUME NEW n \in Nodes, DrainFailed(n) PROVE CoherentAt(m)'
  BY <1>5, <1>7 DEF DrainFailed
<1>8. ASSUME NEW n \in Nodes, EventLoop(n) \/ MeshListener(n) PROVE CoherentAt(m)'
  <2>1. UNCHANGED <<main, hand, batch, queue>>
    BY <1>8 DEF EventLoop, ConnAck, MqttError, MeshListener, HearAndRelay,
                HearAndIgnore, RelayDone, process
  <2> QED BY <1>a, <2>1, CoherentUnchanged
<1>9. ASSUME NEW n \in Nodes, Crash(n) PROVE CoherentAt(m)'
  <2>1. CASE m = n
    <3>1. main'[n] = "stopped" /\ hand'[n] = None /\ batch'[n] = {}
          /\ queue'[n] = queue[n]
      BY <1>9, <1>a DEF Crash, TypeOK
    <3> QED BY <1>a, <2>1, <3>1 DEF CoherentAt, EachOnce, Held, InHand, Queued
  <2>2. CASE m # n
    BY <1>9, <1>a, <2>2, CoherentUnchanged DEF Crash, TypeOK
  <2> QED BY <2>1, <2>2
<1>10. ASSUME NEW n \in Nodes, Restart(n) PROVE CoherentAt(m)'
  <2>1. CASE m = n
    <3>1. main[n] = "stopped" /\ main'[n] = "idle" /\ UNCHANGED <<hand, batch, queue>>
      BY <1>10, <1>a DEF Restart, TypeOK
    <3> QED BY <1>a, <2>1, <3>1 DEF CoherentAt, EachOnce, Held, InHand, Queued
  <2>2. CASE m # n
    BY <1>10, <1>a, <2>2, CoherentUnchanged DEF Restart, TypeOK
  <2> QED BY <2>1, <2>2
<1>11. CASE UNCHANGED vars
  BY <1>11, <1>a, CoherentUnchanged DEF vars, process
<1> QED
  BY <1>1, <1>2, <1>3, <1>4, <1>6, <1>7, <1>8, <1>9, <1>10, <1>11
     DEF Next, MainLoop

\* Control point, hand, batch and table of an agent agree in every state: no
\* sample is stored twice, and a drain never sends a row that is gone.
THEOREM TableCoherent == Spec => []QueueCoherent
<1>1. QueueInv => QueueCoherent
  BY DEF QueueInv
<1> QED BY <1>1, InitQueue, NextQueue, PTL DEF Spec

----------------------------------------------------------------------------
(* The failure counter. *)

\* A drain runs on a counter it has just reset, and no failure is counted
\* without a row, so the rows a drain deletes are owed to no failure.
DrainsAtZero == \A n \in Nodes : main[n] = "draining" => failures[n] = 0

FailuresInv == TypeInv /\ (DiskFaults \/ (DrainsAtZero /\ FailuresAreQueued))

LEMMA InitFailures == Init => FailuresInv
BY InitTypes DEF Init, FailuresInv, DrainsAtZero, FailuresAreQueued

\* A step that keeps the tables and counts no failure.
LEMMA CounterKept ==
    ASSUME FailuresInv, ~DiskFaults, UNCHANGED queue, NEW n \in Nodes,
           \A m \in Nodes \ {n} : main'[m] = main[m] /\ failures'[m] = failures[m],
           \/ failures'[n] = 0
           \/ failures'[n] = failures[n] /\ main'[n] # "draining"
    PROVE  DrainsAtZero' /\ FailuresAreQueued'
<1>1. /\ TypeOK /\ DrainsAtZero
      /\ \A m \in Nodes : failures[m] <= Len(queue[m])
  BY DEF FailuresInv, TypeInv, FailuresAreQueued
<1>2. DrainsAtZero'
  BY <1>1 DEF DrainsAtZero
<1>3. ASSUME NEW m \in Nodes PROVE failures'[m] <= Len(queue'[m])
  <2>1. Len(queue[m]) \in Nat
    BY <1>1, QueueRows
  <2> QED BY <1>1, <2>1
<1> QED BY <1>2, <1>3 DEF FailuresAreQueued

\* A step that adds a row may count a failure.
LEMMA CounterWithRow ==
    ASSUME FailuresInv, ~DiskFaults, NEW n \in Nodes, hand[n] # None,
           Inserted(n), StoreHand(n),
           \/ UNCHANGED failures
           \/ failures' = [failures EXCEPT ![n] = Least(@ + 1, MaxFailures)]
    PROVE  DrainsAtZero' /\ FailuresAreQueued'
<1>1. /\ TypeOK /\ DrainsAtZero
      /\ \A m \in Nodes : failures[m] <= Len(queue[m])
  BY DEF FailuresInv, TypeInv, FailuresAreQueued
<1>2. hand[n] \in Rows
  BY <1>1, HandIsRow
<1>3. /\ \A m \in Nodes \ {n} : /\ failures'[m] = failures[m]
                                /\ main'[m] = main[m]
                                /\ queue'[m] = queue[m]
      /\ main'[n] = "idle" /\ queue'[n] = Append(queue[n], hand[n])
  BY <1>1 DEF Inserted, StoreHand, TypeOK
<1>4. DrainsAtZero'
  BY <1>1, <1>3 DEF DrainsAtZero
<1>5. failures'[n] <= Len(queue'[n])
  <2>1. Len(queue'[n]) = Len(queue[n]) + 1 /\ Len(queue[n]) \in Nat
    BY <1>1, <1>2, <1>3, QueueRows
  <2>2. failures[n] \in Nat /\ failures[n] <= Len(queue[n])
    BY <1>1, AgentAssumption DEF TypeOK
  <2>3. failures'[n] = failures[n] \/ failures'[n] = Least(failures[n] + 1, MaxFailures)
    BY <1>1 DEF TypeOK
  <2> QED BY <2>1, <2>2, <2>3, AgentAssumption DEF Least
<1> QED BY <1>1, <1>3, <1>4, <1>5 DEF FailuresAreQueued

LEMMA NextFailures == FailuresInv /\ [Next]_vars => FailuresInv'
<1> SUFFICES ASSUME FailuresInv, [Next]_vars, ~DiskFaults
             PROVE  DrainsAtZero' /\ FailuresAreQueued'
  BY NextTypes DEF FailuresInv
<1>a. TypeOK /\ HandMatchesLoop /\ DrainsAtZero
      /\ \A m \in Nodes : failures[m] <= Len(queue[m])
  BY DEF FailuresInv, TypeInv, FailuresAreQueued
<1>1. ASSUME NEW n \in Nodes, Tick(n) PROVE DrainsAtZero' /\ FailuresAreQueued'
  BY <1>1, <1>a, CounterKept DEF Tick, TypeOK
<1>2. ASSUME NEW n \in Nodes, PostAccepted(n)
      PROVE  DrainsAtZero' /\ FailuresAreQueued'
  BY <1>2, <1>a, CounterKept DEF PostAccepted, ResetFailures, TypeOK
<1>3. ASSUME NEW n \in Nodes, PostRejected(n) \/ PostFailed(n)
      PROVE  DrainsAtZero' /\ FailuresAreQueued'
  <2>1. hand[n] # None
    BY <1>3, <1>a DEF PostRejected, PostFailed, HandMatchesLoop
  <2> QED BY <1>3, <2>1, CounterWithRow DEF PostRejected, PostFailed, InsertFailed
<1>4. ASSUME NEW n \in Nodes, DrainAnswered(n) \/ DrainFailed(n)
      PROVE  DrainsAtZero' /\ FailuresAreQueued'
  <2>1. PICK i \in DOMAIN queue[n] :
          /\ Drained(n, i)
          /\ \/ queue' = [queue EXCEPT ![n] = RemoveRow(@, i)]
             \/ UNCHANGED queue
    BY <1>4 DEF DrainAnswered, DrainFailed
  <2>2. /\ main[n] = "draining" /\ failures[n] = 0 /\ UNCHANGED failures
        /\ \A m \in Nodes \ {n} : main'[m] = main[m] /\ queue'[m] = queue[m]
    BY <1>a, <2>1 DEF Drained, DrainsAtZero, TypeOK
  <2>3. DrainsAtZero'
    BY <1>a, <2>2 DEF DrainsAtZero
  <2>4. failures'[n] <= Len(queue'[n])
    <3>a. queue[n] \in Seq(Rows)
      BY <1>a, QueueRows
    <3>b. Len(RemoveRow(queue[n], i)) = Len(queue[n]) - 1
      BY <3>a, RemoveRowIsTable
    <3>1. Len(queue[n]) \in Nat /\ i \in 1 .. Len(queue[n])
      BY <3>a
    <3>2. queue'[n] = RemoveRow(queue[n], i) \/ queue'[n] = queue[n]
      BY <1>a, <2>1 DEF TypeOK
    <3> QED BY <2>2, <3>b, <3>1, <3>2
  <2> QED BY <1>a, <2>2, <2>3, <2>4 DEF FailuresAreQueued
<1>5. ASSUME NEW n \in Nodes, EventLoop(n) PROVE DrainsAtZero' /\ FailuresAreQueued'
  <2>1. CASE ConnAck(n)
    BY <1>a, <2>1, CounterKept DEF ConnAck, ResetFailures, TypeOK
  <2>2. CASE MqttError(n)
    BY <1>a, <2>2 DEF MqttError, DrainsAtZero, FailuresAreQueued
  <2> QED BY <1>5, <2>1, <2>2 DEF EventLoop
<1>6. ASSUME NEW n \in Nodes, MeshListener(n)
      PROVE  DrainsAtZero' /\ FailuresAreQueued'
  <2>1. UNCHANGED <<main, failures, queue>>
    BY <1>6 DEF MeshListener, HearAndRelay, HearAndIgnore, RelayDone, process
  <2> QED BY <1>a, <2>1 DEF DrainsAtZero, FailuresAreQueued
<1>7. ASSUME NEW n \in Nodes, Crash(n) PROVE DrainsAtZero' /\ FailuresAreQueued'
  BY <1>7, <1>a, CounterKept DEF Crash, TypeOK
<1>8. ASSUME NEW n \in Nodes, Restart(n) PROVE DrainsAtZero' /\ FailuresAreQueued'
  BY <1>8, <1>a, CounterKept DEF Restart, TypeOK
<1>9. CASE UNCHANGED vars
  BY <1>9, <1>a DEF vars, process, DrainsAtZero, FailuresAreQueued
<1> QED
  BY <1>1, <1>2, <1>3, <1>4, <1>5, <1>6, <1>7, <1>8, <1>9 DEF Next, MainLoop

\* Without disk errors each failure the counter reports has its row, however
\* ConnAcks, drains and failed POSTs interleave.
THEOREM CountedFailuresQueued == Spec => []FailuresAreQueued
<1>1. FailuresInv => FailuresAreQueued
  BY DEF FailuresInv, FailuresAreQueued
<1> QED BY <1>1, InitFailures, NextFailures, PTL DEF Spec

----------------------------------------------------------------------------
(* The mesh. *)

\* The samples of others that are on their way through listener m.
OnAir(m) == inbox[m] \cup ({relaying[m]} \ {None})

MeshInv == QueueInv /\ MeshCopyIsBackedUp

LEMMA InitMesh == Init => MeshInv
BY InitQueue DEF Init, MeshInv, MeshCopyIsBackedUp

\* Nothing enters the air, and the sample stays in the tables.
LEMMA BackupKept ==
    ASSUME MeshInv, NEW m \in Nodes, NEW p \in OnAir(m)', fate'[p] = "held",
           OnAir(m)' \subseteq OnAir(m), fate[p] = "held",
           \A n \in Nodes : p \in Queued(n) => p \in Queued(n)'
    PROVE  p \in Queued(Origin(p))'
<1>1. p \in Packets /\ Origin(p) \in Nodes
  BY AgentAssumption DEF MeshInv, QueueInv, TypeInv, TypeOK, OnAir
<1> QED BY <1>1 DEF MeshInv, MeshCopyIsBackedUp, OnAir

\* Storing the sample in hand leaves every other row, and adds the sample
\* when the INSERT succeeds.
LEMMA StoreKeepsQueued ==
    ASSUME QueueInv, NEW n \in Nodes, hand[n] # None,
           Inserted(n) \/ UNCHANGED queue
    PROVE  /\ \A m \in Nodes : Queued(m) \subseteq Queued(m)'
           /\ Inserted(n) => hand[n].pkt \in Queued(n)'
<1>1. TypeOK /\ hand[n] \in Rows /\ queue[n] \in Seq(Rows)
  BY HandIsRow, QueueRows DEF QueueInv, TypeInv
<1>2. CASE Inserted(n)
  <2>1. queue'[n] = Append(queue[n], hand[n])
    BY <1>1, <1>2 DEF Inserted, TypeOK
  <2>2. Queued(n)' = Queued(n) \cup {hand[n].pkt}
    BY <1>1, <2>1, AppendKeepsRows DEF Queued
  <2>3. \A m \in Nodes \ {n} : Queued(m)' = Queued(m)
    BY <1>1, <1>2 DEF Inserted, Queued, TypeOK
  <2> QED BY <2>2, <2>3
<1>3. CASE UNCHANGED queue /\ ~Inserted(n)
  BY <1>3 DEF Queued
<1> QED BY <1>2, <1>3

LEMMA NextMesh == MeshInv /\ [Next]_vars => MeshInv'
<1> SUFFICES ASSUME MeshInv, [Next]_vars, NEW m \in Nodes, NEW p \in OnAir(m)',
                    fate'[p] = "held"
             PROVE  p \in Queued(Origin(p))'
  BY NextQueue DEF MeshInv, MeshCopyIsBackedUp, OnAir
<1>a. QueueInv /\ TypeOK /\ HandMatchesLoop
  BY DEF MeshInv, QueueInv, TypeInv
<1>b. p \in Packets
  BY <1>a, NextQueue DEF QueueInv, TypeInv, TypeOK, OnAir
<1>c. ASSUME UNCHANGED queue, OnAir(m)' \subseteq OnAir(m), fate[p] = "held"
      PROVE  p \in Queued(Origin(p))'
  BY <1>c, BackupKept DEF Queued
<1>1. ASSUME NEW n \in Nodes, Tick(n) PROVE p \in Queued(Origin(p))'
  <2>1. PICK q \in Packets \ InUse : fate' = [fate EXCEPT ![q] = "held"]
    BY <1>1 DEF Tick
  <2>2. OnAir(m)' = OnAir(m) /\ UNCHANGED queue
    BY <1>1 DEF Tick, OnAir, listener
  <2>3. q # p
    BY <2>1, <2>2 DEF OnAir, InUse
  <2> QED BY <1>a, <1>c, <2>1, <2>2, <2>3 DEF TypeOK
<1>2. ASSUME NEW n \in Nodes, PostAccepted(n) PROVE p \in Queued(Origin(p))'
  BY <1>2, <1>b, <1>c DEF PostAccepted, ResetFailures, Delivered, OnAir, listener
<1>3. ASSUME NEW n \in Nodes, PostRejected(n) PROVE p \in Queued(Origin(p))'
  <2>1. hand[n] # None /\ OnAir(m)' = OnAir(m) /\ (Inserted(n) \/ UNCHANGED queue)
    BY <1>3, <1>a DEF PostRejected, HandMatchesLoop, InsertFailed, OnAir, listener
  <2>2. hand[n].pkt \in Packets
    BY <1>a, <2>1, HandIsRow
  <2>3. fate[p] = "held"
    BY <1>3, <1>a, <1>b, <2>2 DEF PostRejected, GivenUp, TypeOK
  <2> QED BY <1>a, <2>1, <2>3, BackupKept, StoreKeepsQueued
<1>4. ASSUME NEW n \in Nodes, PostFailed(n) PROVE p \in Queued(Origin(p))'
  <2>1. hand[n] # None /\ (Inserted(n) \/ UNCHANGED queue)
    BY <1>4, <1>a DEF PostFailed, HandMatchesLoop, InsertFailed
  <2>2. hand[n].pkt \in Packets
    BY <1>a, <2>1, HandIsRow
  <2>3. fate[p] = "held" /\ (p = hand[n].pkt => Inserted(n))
    BY <1>4, <1>a, <1>b, <2>2 DEF PostFailed, Delivered, GivenUp, TypeOK
  <2>4. OnAir(m)' \subseteq OnAir(m) \cup {hand[n].pkt}
    BY <1>4 DEF PostFailed, Broadcast, OnAir, listener
  <2>5. CASE p = hand[n].pkt
    <3>1. Origin(p) = n
      BY <1>a, <2>1, <2>5, CoherentPointwise DEF QueueInv, CoherentAt, Held, InHand
    <3> QED BY <1>a, <2>1, <2>3, <2>5, <3>1, StoreKeepsQueued
  <2>6. CASE p # hand[n].pkt
    <3>1. p \in OnAir(m) /\ Origin(p) \in Nodes
      BY <1>b, <2>4, <2>6, AgentAssumption
    <3>2. p \in Queued(Origin(p))
      BY <2>3, <3>1 DEF MeshInv, MeshCopyIsBackedUp, OnAir
    <3> QED BY <1>a, <2>1, <3>1, <3>2, StoreKeepsQueued
  <2> QED BY <2>5, <2>6
<1>5. ASSUME NEW n \in Nodes, DrainAnswered(n) PROVE p \in Queued(Origin(p))'
  <2>1. PICK i \in DOMAIN queue[n] :
          /\ Drained(n, i)
          /\ \/ fate' = Delivered({queue[n][i].pkt})
             \/ fate' = GivenUp(queue[n][i].pkt, "refused")
          /\ \/ queue' = [queue EXCEPT ![n] = RemoveRow(@, i)]
             \/ DiskFaults /\ UNCHANGED queue
    BY <1>5 DEF DrainAnswered
  <2>2. queue[n] \in Seq(Rows) /\ queue[n][i].pkt \in Packets
    BY <1>a, QueueRows
  <2>3. p # queue[n][i].pkt /\ fate[p] = "held"
    BY <1>a, <1>b, <2>1, <2>2 DEF Delivered, GivenUp, TypeOK
  <2>4. ASSUME NEW k \in Nodes, p \in Queued(k) PROVE p \in Queued(k)'
    <3>1. CASE k = n /\ queue' = [queue EXCEPT ![n] = RemoveRow(@, i)]
      <4>1. queue'[n] = RemoveRow(queue[n], i)
        BY <1>a, <3>1 DEF TypeOK
      <4>2. EachOnce(queue[n])
        BY <1>a, CoherentPointwise DEF QueueInv, CoherentAt
      <4>3. PktsOf(queue'[n]) = PktsOf(queue[n]) \ {queue[n][i].pkt}
        BY <2>2, <4>1, <4>2, RemovedRow
      <4> QED BY <2>3, <2>4, <3>1, <4>3 DEF Queued, PktsOf
    <3>2. CASE k # n \/ UNCHANGED queue
      BY <1>a, <2>1, <2>4, <3>2 DEF Queued, TypeOK
    <3> QED BY <2>1, <3>1, <3>2
  <2>5. OnAir(m)' = OnAir(m)
    BY <2>1 DEF Drained, OnAir, listener
  <2> QED BY <2>3, <2>4, <2>5, BackupKept
<1>6. ASSUME NEW n \in Nodes, DrainFailed(n) PROVE p \in Queued(Origin(p))'
  BY <1>6, <1>b, <1>c DEF DrainFailed, Drained, Delivered, OnAir, listener
<1>7. ASSUME NEW n \in Nodes, EventLoop(n) PROVE p \in Queued(Origin(p))'
  BY <1>7, <1>c DEF EventLoop, ConnAck, ResetFailures, MqttError, OnAir, listener
<1>8. ASSUME NEW n \in Nodes, MeshListener(n) PROVE p \in Queued(Origin(p))'
  <2>1. UNCHANGED queue /\ fate[p] = "held"
    BY <1>8, <1>b DEF MeshListener, HearAndRelay, HearAndIgnore, RelayDone, process,
                      Delivered
  <2>2. OnAir(m)' \subseteq OnAir(m)
    <3>1. CASE \E q \in Packets : HearAndRelay(n, q)
      <4>1. PICK q \in Packets : HearAndRelay(n, q)
        BY <3>1
      <4>2. /\ q \in inbox[n] /\ relaying' = [relaying EXCEPT ![n] = q]
            /\ inbox' \in {inbox, [inbox EXCEPT ![n] = @ \ {q}]}
        BY <4>1 DEF HearAndRelay, Receive
      <4> QED BY <1>a, <4>2 DEF OnAir, TypeOK
    <3>2. CASE \E q \in Packets : HearAndIgnore(n, q)
      BY <1>a, <3>2 DEF HearAndIgnore, Receive, process, listener, OnAir, TypeOK
    <3>3. CASE RelayDone(n)
      BY <1>a, <3>3 DEF RelayDone, OnAir, TypeOK
    <3> QED BY <1>8, <3>1, <3>2, <3>3 DEF MeshListener
  <2> QED BY <1>c, <2>1, <2>2
<1>9. ASSUME NEW n \in Nodes, Crash(n) PROVE p \in Queued(Origin(p))'
  <2>1. UNCHANGED queue /\ fate[p] = "held"
    BY <1>9, <1>b DEF Crash
  <2>2. OnAir(m)' \subseteq OnAir(m)
    BY <1>9, <1>a DEF Crash, OnAir, TypeOK
  <2> QED BY <1>c, <2>1, <2>2
<1>10. ASSUME NEW n \in Nodes, Restart(n) PROVE p \in Queued(Origin(p))'
  BY <1>10, <1>c DEF Restart, OnAir, listener
<1>11. CASE UNCHANGED vars
  BY <1>11, <1>c DEF vars, process, listener, OnAir
<1> QED
  BY <1>1, <1>2, <1>3, <1>4, <1>5, <1>6, <1>7, <1>8, <1>9, <1>10, <1>11
     DEF Next, MainLoop

\* The air never carries the only copy of a sample that is still owed, with
\* disk errors and crashes of its origin and of the peers that relay it.
THEOREM MeshNeverAlone == Spec => []MeshCopyIsBackedUp
<1>1. MeshInv => MeshCopyIsBackedUp
  BY DEF MeshInv
<1> QED BY <1>1, InitMesh, NextMesh, PTL DEF Spec

----------------------------------------------------------------------------
(* The relay window. *)

AllDiffer(w) == \A i, j \in DOMAIN w : w[i] = w[j] => i = j

\* Remembering a packet the window lacks keeps its packets different, and
\* adds at most that packet.
LEMMA RememberAllDiffer ==
    ASSUME NEW w \in Seq(Packets), NEW p \in Packets, AllDiffer(w),
           \A i \in DOMAIN w : w[i] # p
    PROVE  AllDiffer(Remember(w, p))
<1> DEFINE a == Append(w, p)
<1>1. /\ Len(w) \in Nat /\ DOMAIN w = 1 .. Len(w)
      /\ a \in Seq(Packets) /\ Len(a) = Len(w) + 1 /\ DOMAIN a = 1 .. Len(w) + 1
      /\ a[Len(w) + 1] = p
      /\ \A i \in 1 .. Len(w) : a[i] = w[i]
  OBVIOUS
<1>2. ASSUME NEW i \in DOMAIN a, NEW j \in DOMAIN a, a[i] = a[j] PROVE i = j
  <2>1. \A k \in DOMAIN a : k = Len(w) + 1 \/ k \in DOMAIN w
    BY <1>1
  <2> QED BY <1>1, <1>2, <2>1 DEF AllDiffer
<1>3. AllDiffer(a)
  BY <1>2 DEF AllDiffer
<1>4. a # << >>
  BY <1>1
<1>5. /\ DOMAIN Tail(a) = 1 .. Len(w)
      /\ \A i \in 1 .. Len(w) : Tail(a)[i] = a[i + 1]
  BY <1>1, <1>4
<1>6. AllDiffer(Tail(a))
  <2> SUFFICES ASSUME NEW i \in 1 .. Len(w), NEW j \in 1 .. Len(w),
                      Tail(a)[i] = Tail(a)[j]
               PROVE  i = j
    BY <1>5 DEF AllDiffer
  <2>1. a[i + 1] = a[j + 1] /\ i + 1 \in DOMAIN a /\ j + 1 \in DOMAIN a
    BY <1>1, <1>5
  <2>2. i + 1 = j + 1
    BY <2>1, <1>2
  <2> QED BY <1>1, <2>2
<1> QED BY <1>3, <1>6 DEF Remember

RelayInv == TypeInv /\ RelayedOnce

LEMMA InitRelay == Init => RelayInv
BY InitTypes DEF Init, RelayInv, RelayedOnce, Remembered

LEMMA NextRelay == RelayInv /\ [Next]_vars => RelayInv'
<1> SUFFICES ASSUME RelayInv, [Next]_vars, NEW m \in Nodes
             PROVE  (relaying[m] \notin Remembered(m) /\ AllDiffer(seen[m]))'
  BY NextTypes DEF RelayInv, RelayedOnce, AllDiffer
<1> DEFINE Fine == relaying[m] \notin Remembered(m) /\ AllDiffer(seen[m])
<1>a. TypeOK /\ TypeOK' /\ Fine
  BY NextTypes DEF RelayInv, RelayedOnce, TypeInv, AllDiffer
<1>b. ASSUME relaying'[m] = relaying[m], seen'[m] = seen[m] PROVE Fine'
  BY <1>a, <1>b DEF Remembered, AllDiffer
<1>1. ASSUME NEW n \in Nodes, MainLoop(n) \/ EventLoop(n) \/ Restart(n) PROVE Fine'
  <2>1. UNCHANGED listener
    BY <1>1 DEF MainLoop, Tick, PostAccepted, PostRejected, PostFailed, DrainAnswered,
                DrainFailed, Drained, EventLoop, ConnAck, MqttError, Restart
  <2> QED BY <1>b, <2>1 DEF listener
<1>2. ASSUME NEW n \in Nodes, NEW p \in Packets, HearAndRelay(n, p) PROVE Fine'
  BY <1>2, <1>a, <1>b DEF HearAndRelay, Remembered, AllDiffer, TypeOK
<1>3. ASSUME NEW n \in Nodes, NEW p \in Packets, HearAndIgnore(n, p) PROVE Fine'
  BY <1>3, <1>b DEF HearAndIgnore, process, listener
<1>4. ASSUME NEW n \in Nodes, RelayDone(n) PROVE Fine'
  <2>1. CASE m = n
    <3>1. relaying[n] \in Packets /\ seen[n] \in Seq(Packets) /\ AllDiffer(seen[n])
          /\ \A i \in DOMAIN seen[n] : seen[n][i] # relaying[n]
      BY <1>4, <1>a, <2>1 DEF RelayDone, Remembered, TypeOK
    <3>2. relaying'[n] = None /\ seen'[n] = Remember(seen[n], relaying[n])
      BY <1>4, <1>a DEF RelayDone, TypeOK
    <3>3. AllDiffer(seen'[n])
      BY <3>1, <3>2, RememberAllDiffer
    <3>4. None \notin Remembered(n)'
      <4>1. seen'[n] \in Seq(Packets)
        BY <1>a DEF TypeOK
      <4>2. \A i \in DOMAIN seen'[n] : seen'[n][i] \in Packets
        BY <4>1
      <4> QED BY <4>2, AgentAssumption DEF Remembered
    <3> QED BY <2>1, <3>2, <3>3, <3>4
  <2>2. CASE m # n
    BY <1>4, <1>a, <1>b, <2>2 DEF RelayDone, TypeOK
  <2> QED BY <2>1, <2>2
<1>5. ASSUME NEW n \in Nodes, Crash(n) PROVE Fine'
  <2>1. CASE m = n
    BY <1>5, <1>a, <2>1 DEF Crash, Remembered, AllDiffer, TypeOK
  <2>2. CASE m # n
    BY <1>5, <1>a, <1>b, <2>2 DEF Crash, TypeOK
  <2> QED BY <2>1, <2>2
<1>6. CASE UNCHANGED vars
  BY <1>6, <1>b DEF vars, process, listener
<1> QED BY <1>1, <1>2, <1>3, <1>4, <1>5, <1>6 DEF Next, MeshListener

\* A packet is not proxied while the listener remembers it, though it is
\* remembered only after its POST, and the window stays free of repetitions
\* for every length it is cut to.
THEOREM RememberedNotRelayed == Spec => []RelayedOnce
<1>1. RelayInv => RelayedOnce
  BY DEF RelayInv
<1> QED BY <1>1, InitRelay, NextRelay, PTL DEF Spec

----------------------------------------------------------------------------
(* What is known of the samples in circulation. *)

\* A sample that was taken stays taken.
LEMMA FateStays ==
    ASSUME TypeOK, [Next]_vars, NEW p \in Packets, fate[p] # "unused"
    PROVE  fate'[p] # "unused"
<1>1. ASSUME NEW n \in Nodes, Tick(n) PROVE fate'[p] # "unused"
  BY <1>1 DEF Tick, TypeOK
<1>2. ASSUME NEW n \in Nodes,
             \/ PostAccepted(n) \/ PostRejected(n) \/ PostFailed(n)
             \/ DrainAnswered(n) \/ DrainFailed(n)
      PROVE  fate'[p] # "unused"
  <2>1. \A q : \A f \in {"lost", "refused"} : GivenUp(q, f)[p] # "unused"
    BY DEF GivenUp, TypeOK
  <2>2. \A S : Delivered(S)[p] # "unused"
    BY DEF Delivered
  <2> QED BY <1>2, <2>1, <2>2
         DEF PostAccepted, ResetFailures, PostRejected, PostFailed, DrainAnswered,
             DrainFailed
<1>3. ASSUME NEW n \in Nodes, EventLoop(n) \/ MeshListener(n) \/ Restart(n)
      PROVE  fate'[p] # "unused"
  BY <1>3 DEF EventLoop, ConnAck, MqttError, MeshListener, HearAndRelay, HearAndIgnore,
              RelayDone, Delivered, Restart
<1>4. ASSUME NEW n \in Nodes, Crash(n) PROVE fate'[p] # "unused"
  BY <1>4 DEF Crash
<1>5. CASE UNCHANGED vars
  BY <1>5 DEF vars
<1> QED BY <1>1, <1>2, <1>3, <1>4, <1>5 DEF Next, MainLoop

\* Whatever an agent holds or hears was taken by some agent.
Circulating(n) == Held(n) \cup OnAir(n)

AllTaken == \A n \in Nodes : \A p \in Circulating(n) : fate[p] # "unused"

\* The sample in hand is still owed, and on nobody's air.
HandIsOwed ==
    \A n \in Nodes : \A p \in InHand(n) :
        fate[p] = "held" /\ \A m \in Nodes : p \notin OnAir(m)

FateInv == QueueInv /\ AllTaken /\ HandIsOwed

LEMMA InitFate == Init => FateInv
<1> SUFFICES ASSUME Init PROVE FateInv
  OBVIOUS
<1>1. \A n \in Nodes : InHand(n) = {} /\ Circulating(n) = {}
  BY DEF Init, Circulating, Held, InHand, Queued, OnAir
<1> QED BY <1>1, InitQueue DEF FateInv, AllTaken, HandIsOwed

\* The only step that puts a sample on the air is the failure of its POST.
LEMMA AirKept ==
    ASSUME TypeInv, [Next]_vars, NEW m \in Nodes, NEW p \in OnAir(m)', p \notin OnAir(m)
    PROVE  \E n \in Nodes : PostFailed(n) /\ p \in InHand(n)
<1>a. TypeOK /\ HandMatchesLoop
  BY DEF TypeInv
<1>1. ASSUME NEW n \in Nodes,
             \/ Tick(n) \/ PostAccepted(n) \/ PostRejected(n) \/ DrainAnswered(n)
             \/ DrainFailed(n) \/ EventLoop(n) \/ Restart(n)
      PROVE  OnAir(m)' = OnAir(m)
  BY <1>1 DEF Tick, PostAccepted, PostRejected, DrainAnswered, DrainFailed, Drained,
              EventLoop, ConnAck, MqttError, Restart, listener, OnAir
<1>2. ASSUME NEW n \in Nodes, PostFailed(n) PROVE p \in InHand(n)
  <2>1. OnAir(m)' \subseteq OnAir(m) \cup {hand[n].pkt} /\ hand[n] # None
    BY <1>2, <1>a DEF PostFailed, Broadcast, OnAir, listener, HandMatchesLoop
  <2> QED BY <2>1 DEF InHand
<1>3. ASSUME NEW n \in Nodes, NEW q \in Packets, HearAndRelay(n, q)
      PROVE  OnAir(m)' \subseteq OnAir(m)
  <2>1. /\ q \in inbox[n] /\ relaying' = [relaying EXCEPT ![n] = q]
        /\ inbox' \in {inbox, [inbox EXCEPT ![n] = @ \ {q}]}
    BY <1>3 DEF HearAndRelay, Receive
  <2> QED BY <1>a, <2>1 DEF OnAir, TypeOK
<1>4. ASSUME NEW n \in Nodes, NEW q \in Packets, HearAndIgnore(n, q)
      PROVE  OnAir(m)' \subseteq OnAir(m)
  <2>1. UNCHANGED relaying /\ inbox' \in {inbox, [inbox EXCEPT ![n] = @ \ {q}]}
    BY <1>4 DEF HearAndIgnore, Receive, process, listener
  <2>2. inbox'[m] \subseteq inbox[m]
    BY <1>a, <2>1 DEF TypeOK
  <2> QED BY <2>1, <2>2 DEF OnAir
<1>5. ASSUME NEW n \in Nodes, RelayDone(n) \/ Crash(n)
      PROVE  OnAir(m)' \subseteq OnAir(m)
  <2>1. relaying' = [relaying EXCEPT ![n] = None]
    BY <1>5 DEF RelayDone, Crash
  <2>2. UNCHANGED inbox \/ inbox' = [inbox EXCEPT ![n] = {}]
    BY <1>5 DEF RelayDone, Crash
  <2>3. relaying'[m] \in {relaying[m], None} /\ inbox'[m] \subseteq inbox[m]
    BY <1>a, <2>1, <2>2 DEF TypeOK
  <2> QED BY <2>3 DEF OnAir
<1>6. UNCHANGED vars => OnAir(m)' = OnAir(m)
  BY DEF vars, process, listener, OnAir
<1> QED
  BY <1>1, <1>2, <1>3, <1>4, <1>5, <1>6 DEF Next, MainLoop, MeshListener

\* The only step that gives an agent a sample it did not hold is the one that
\* measures it.
LEMMA HeldKept ==
    ASSUME QueueInv, [Next]_vars, NEW m \in Nodes, NEW p \in Held(m)', p \notin Held(m)
    PROVE  Tick(m) /\ p \in InHand(m)'
<1>a. TypeOK /\ HandMatchesLoop /\ \A n \in Nodes : CoherentAt(n)
  BY CoherentPointwise DEF QueueInv, TypeInv
<1>1. ASSUME NEW n \in Nodes, Tick(n)
      PROVE  Tick(m) /\ p \in InHand(m)'
  <2>1. Queued(m)' = Queued(m)
    BY <1>1 DEF Tick, Queued
  <2>2. m # n => InHand(m)' = InHand(m)
    BY <1>1, <1>a DEF Tick, InHand, TypeOK
  <2> QED BY <1>1, <2>1, <2>2 DEF Held
<1>2. ASSUME NEW n \in Nodes, PostAccepted(n) \/ Crash(n) PROVE FALSE
  <2>1. hand' = [hand EXCEPT ![n] = None] /\ UNCHANGED queue
    BY <1>2 DEF PostAccepted, Crash
  <2>2. InHand(m)' \subseteq InHand(m)
    BY <2>1, <1>a DEF InHand, TypeOK
  <2> QED BY <2>1, <2>2 DEF Held, Queued
<1>3. ASSUME NEW n \in Nodes, main[n] = "posting", StoreHand(n),
             Inserted(n) \/ UNCHANGED queue
      PROVE  FALSE
  <2>1. InHand(m)' \subseteq InHand(m)
    BY <1>3, <1>a DEF StoreHand, InHand, TypeOK
  <2>2. Queued(m)' \subseteq Held(m)
    <3>1. CASE m = n /\ Inserted(n)
      <4>1. hand[n] # None /\ hand[n] \in Rows /\ queue[n] \in Seq(Rows)
        BY <1>3, <1>a, HandIsRow, QueueRows DEF HandMatchesLoop
      <4>2. queue'[n] = Append(queue[n], hand[n])
        BY <1>a, <3>1 DEF Inserted, TypeOK
      <4>3. Queued(n)' = Queued(n) \cup {hand[n].pkt}
        BY <4>1, <4>2, AppendKeepsRows DEF Queued
      <4> QED BY <3>1, <4>1, <4>3 DEF Held, InHand
    <3>2. CASE m # n \/ UNCHANGED queue
      BY <1>3, <1>a, <3>2 DEF Inserted, Queued, Held, TypeOK
    <3> QED BY <1>3, <3>1, <3>2
  <2> QED BY <2>1, <2>2 DEF Held
<1>4. ASSUME NEW n \in Nodes, PostRejected(n) \/ PostFailed(n) PROVE FALSE
  BY <1>3, <1>4 DEF PostRejected, PostFailed, InsertFailed
<1>5. ASSUME NEW n \in Nodes, DrainAnswered(n) \/ DrainFailed(n) PROVE FALSE
  <2>1. PICK i \in DOMAIN queue[n] :
          /\ Drained(n, i)
          /\ \/ queue' = [queue EXCEPT ![n] = RemoveRow(@, i)]
             \/ UNCHANGED queue
    BY <1>5 DEF DrainAnswered, DrainFailed
  <2>2. InHand(m)' = InHand(m)
    BY <2>1 DEF Drained, InHand
  <2>3. Queued(m)' \subseteq Queued(m)
    <3>1. CASE m = n /\ queue' = [queue EXCEPT ![n] = RemoveRow(@, i)]
      <4>1. queue'[n] = RemoveRow(queue[n], i) /\ queue[n] \in Seq(Rows)
            /\ EachOnce(queue[n])
        BY <1>a, <3>1, QueueRows DEF TypeOK, CoherentAt
      <4>2. PktsOf(queue'[n]) = PktsOf(queue[n]) \ {queue[n][i].pkt}
        BY <4>1, RemovedRow
      <4> QED BY <3>1, <4>2 DEF Queued, PktsOf
    <3>2. CASE m # n \/ UNCHANGED queue
      BY <1>a, <2>1, <3>2 DEF Queued, TypeOK
    <3> QED BY <2>1, <3>1, <3>2
  <2> QED BY <2>2, <2>3 DEF Held
<1>6. ASSUME NEW n \in Nodes, EventLoop(n) \/ MeshListener(n) \/ Restart(n) PROVE FALSE
  <2>1. UNCHANGED <<hand, queue>>
    BY <1>6 DEF EventLoop, ConnAck, MqttError, MeshListener, HearAndRelay,
                HearAndIgnore, RelayDone, process, Restart
  <2> QED BY <2>1, HeldUnchanged
<1>7. CASE UNCHANGED vars
  BY <1>7, HeldUnchanged DEF vars, process
<1> QED BY <1>1, <1>2, <1>4, <1>5, <1>6, <1>7 DEF Next, MainLoop

\* Only the measurement puts a sample in the loop's hand.
LEMMA HandKept ==
    ASSUME TypeOK, [Next]_vars, NEW m \in Nodes, NEW p \in InHand(m)', p \notin InHand(m)
    PROVE  Tick(m)
<1>1. ASSUME NEW n \in Nodes, Tick(n) PROVE n = m
  BY <1>1 DEF Tick, InHand, TypeOK
<1>2. ASSUME NEW n \in Nodes,
             PostAccepted(n) \/ PostRejected(n) \/ PostFailed(n) \/ Crash(n)
      PROVE  FALSE
  BY <1>2 DEF PostAccepted, PostRejected, PostFailed, StoreHand, Crash, InHand, TypeOK
<1>3. ASSUME NEW n \in Nodes,
             \/ DrainAnswered(n) \/ DrainFailed(n) \/ EventLoop(n)
             \/ MeshListener(n) \/ Restart(n)
      PROVE  FALSE
  BY <1>3 DEF DrainAnswered, DrainFailed, Drained, EventLoop, ConnAck, MqttError,
              MeshListener, HearAndRelay, HearAndIgnore, RelayDone, process, Restart,
              InHand
<1>4. CASE UNCHANGED vars
  BY <1>4 DEF vars, process, InHand
<1> QED BY <1>1, <1>2, <1>3, <1>4 DEF Next, MainLoop

LEMMA NextFate == FateInv /\ [Next]_vars => FateInv'
<1> SUFFICES ASSUME FateInv, [Next]_vars PROVE FateInv'
  OBVIOUS
<1>a. QueueInv /\ QueueInv' /\ TypeInv /\ TypeOK /\ HandMatchesLoop
      /\ \A n \in Nodes : CoherentAt(n)
  BY NextQueue, CoherentPointwise DEF FateInv, QueueInv, TypeInv
<1>b. \A n \in Nodes : Circulating(n) \subseteq Packets
  BY <1>a, QueueRows, HandIsRow
     DEF Circulating, Held, InHand, Queued, OnAir, TypeOK
<1>c. ASSUME NEW n \in Nodes, Tick(n)
      PROVE  \E q \in Packets \ InUse :
               InHand(n)' = {q} /\ fate' = [fate EXCEPT ![q] = "held"]
  <2>1. PICK q \in Packets \ InUse :
          /\ hand' = [hand EXCEPT ![n] =
               [pkt |-> q, priority |-> IF failures[n] > 0 THEN 5 ELSE 0]]
          /\ fate' = [fate EXCEPT ![q] = "held"]
    BY <1>c DEF Tick
  <2>2. hand'[n].pkt = q /\ hand'[n] \in Rows
    BY <1>a, <2>1 DEF TypeOK, Rows, Priorities
  <2>3. hand'[n] # None
    BY <2>2, AgentAssumption
  <2> QED BY <2>1, <2>2, <2>3 DEF InHand
<1>1. ASSUME NEW m \in Nodes, NEW p \in Circulating(m)' PROVE fate'[p] # "unused"
  <2>1. CASE \E n \in Nodes : p \in Circulating(n)
    BY <1>a, <1>b, <2>1, FateStays DEF FateInv, AllTaken
  <2>2. CASE \A n \in Nodes : p \notin Circulating(n)
    <3>1. p \notin OnAir(m)'
      BY <1>a, <2>2, AirKept DEF Circulating, Held
    <3>2. Tick(m) /\ p \in InHand(m)'
      BY <1>a, <1>1, <2>2, <3>1, HeldKept DEF Circulating
    <3> QED BY <1>a, <1>c, <3>2 DEF TypeOK
  <2> QED BY <2>1, <2>2
<1>2. ASSUME NEW n \in Nodes, NEW p \in InHand(n)', p \in InHand(n)
      PROVE  fate'[p] = "held" /\ \A m \in Nodes : p \notin OnAir(m)'
  <2>1. /\ fate[p] = "held" /\ \A m \in Nodes : p \notin OnAir(m)
        /\ p \in Packets /\ Origin(p) = n /\ p \notin Queued(n)
        /\ main[n] = "posting"
    BY <1>a, <1>b, <1>2
       DEF FateInv, HandIsOwed, CoherentAt, Held, InHand, Circulating
  <2>2. ASSUME NEW k \in Nodes
        PROVE  /\ k # n => p \notin Held(k)
               /\ \A i \in DOMAIN queue[k] : queue[k][i].pkt # p
    BY <1>a, <2>1 DEF CoherentAt, Held, Queued
  <2>3. ASSUME NEW k \in Nodes,
               \/ PostAccepted(k) \/ PostRejected(k) \/ PostFailed(k) \/ Crash(k)
        PROVE  k # n
    BY <1>2, <1>a, <2>3
       DEF PostAccepted, PostRejected, PostFailed, StoreHand, Crash, InHand, TypeOK
  <2>4. \A m \in Nodes : p \notin OnAir(m)'
    BY <1>a, <2>1, <2>2, <2>3, AirKept DEF Held
  <2>5. ASSUME NEW k \in Nodes, Tick(k) PROVE fate'[p] = "held"
    BY <1>a, <1>c, <2>1, <2>5 DEF TypeOK
  <2>6. ASSUME NEW k \in Nodes, PostAccepted(k) \/ PostRejected(k) \/ PostFailed(k)
        PROVE  fate'[p] = "held"
    <3>1. hand[k] # None /\ hand[k].pkt # p
      BY <1>a, <2>2, <2>3, <2>6
         DEF PostAccepted, PostRejected, PostFailed, HandMatchesLoop, Held, InHand
    <3>2. hand[k].pkt \in Packets
      BY <1>a, <3>1, HandIsRow
    <3>3. Delivered({hand[k].pkt})[p] = "held" /\ GivenUp(hand[k].pkt, "lost")[p] = "held"
      BY <1>a, <2>1, <3>1, <3>2 DEF Delivered, GivenUp, TypeOK
    <3> QED BY <2>1, <2>6, <3>3
           DEF PostAccepted, ResetFailures, PostRejected, PostFailed
  <2>7. ASSUME NEW k \in Nodes, DrainAnswered(k) \/ DrainFailed(k)
        PROVE  fate'[p] = "held"
    <3>1. PICK i \in DOMAIN queue[k] :
            \/ fate' = Delivered({queue[k][i].pkt})
            \/ fate' = GivenUp(queue[k][i].pkt, "refused")
            \/ fate' = fate
      BY <2>7 DEF DrainAnswered, DrainFailed
    <3>2. queue[k][i].pkt \in Packets /\ queue[k][i].pkt # p
      BY <1>a, <2>2, QueueRows
    <3> QED BY <1>a, <2>1, <3>1, <3>2 DEF Delivered, GivenUp, TypeOK
  <2>8. ASSUME NEW k \in Nodes, EventLoop(k) \/ MeshListener(k) \/ Restart(k)
        PROVE  fate'[p] = "held"
    <3>1. CASE RelayDone(k)
      <4>1. relaying[k] # p
        BY <2>1, <3>1 DEF RelayDone, OnAir
      <4> QED BY <2>1, <3>1, <4>1 DEF RelayDone, Delivered
    <3>2. CASE ~RelayDone(k)
      BY <2>1, <2>8, <3>2 DEF EventLoop, ConnAck, MqttError, MeshListener,
                              HearAndRelay, HearAndIgnore, Restart
    <3> QED BY <3>1, <3>2
  <2>9. ASSUME NEW k \in Nodes, Crash(k) PROVE fate'[p] = "held"
    <3>1. p \notin OnTheWire(k) /\ p \notin InHand(k)
      BY <2>1, <2>2, <2>3, <2>9 DEF OnTheWire, Held, OnAir
    <3> QED BY <2>1, <2>9, <3>1 DEF Crash
  <2>10. ASSUME UNCHANGED vars PROVE fate'[p] = "held"
    BY <2>1, <2>10 DEF vars
  <2>11. fate'[p] = "held"
    BY <2>1, <2>5, <2>6, <2>7, <2>8, <2>9, <2>10 DEF Next, MainLoop, vars
  <2> QED BY <2>4, <2>11
<1>3. ASSUME NEW n \in Nodes, NEW p \in InHand(n)', p \notin InHand(n)
      PROVE  fate'[p] = "held" /\ \A m \in Nodes : p \notin OnAir(m)'
  <2>1. Tick(n)
    BY <1>a, <1>3, HandKept
  <2>2. PICK q \in Packets \ InUse :
          InHand(n)' = {q} /\ fate' = [fate EXCEPT ![q] = "held"]
    BY <1>c, <2>1
  <2>3. p = q
    BY <1>3, <2>2
  <2>4. fate'[p] = "held"
    BY <1>a, <2>2, <2>3 DEF TypeOK
  <2>5. \A m \in Nodes : p \notin OnAir(m)
    BY <2>2, <2>3 DEF InUse, OnAir
  <2>6. \A m \in Nodes : OnAir(m)' = OnAir(m)
    BY <2>1 DEF Tick, listener, OnAir
  <2> QED BY <2>4, <2>5, <2>6
<1> QED BY <1>a, <1>1, <1>2, <1>3 DEF FateInv, AllTaken, HandIsOwed

\* Whatever an agent holds or hears was measured by some agent, and the
\* sample whose POST the loop awaits is still owed: neither a relay nor an
\* older POST, answered late, can have settled it already.
THEOREM OwedInHand == Spec => [](AllTaken /\ HandIsOwed)
<1>1. FateInv => AllTaken /\ HandIsOwed
  BY DEF FateInv
<1> QED BY <1>1, InitFate, NextFate, PTL DEF Spec

=============================================================================
