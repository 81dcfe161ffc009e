---------------------------- MODULE TopologyHub ----------------------------
(***************************************************************************)
(* The dashboard hub of the control plane: the set _ws_clients, the tasks  *)
(* that serve the WebSockets, and _broadcast_topology_update, with which   *)
(* every recorded sample ends (api/app/main.py), over get_topology's SCAN  *)
(* and MGET (api/app/redis_client.py).                                     *)
(*                                                                         *)
(* All of it runs on one event loop, so the set changes only while a       *)
(* broadcast awaits: a round trip to Redis or the send to one client.      *)
(* The writes of node states are numbered; a snapshot is the set of pairs  *)
(* of a node and the number of the write that its entry shows.             *)
(***************************************************************************)
EXTENDS Integers, FiniteSets

CONSTANTS
    Nodes,      \* node ids
    Handlers,   \* requests that broadcast
    Clients,    \* WebSocket objects
    ScanPages,  \* BOUND: calls one SCAN of the key space takes
    MaxWrites,  \* BOUND: node states written
    LongSends,  \* BOUND: whether a broadcast may outlast the state it sends
    None        \* no node, no client

ASSUME TopologyHubAssumption ==
    /\ ScanPages \in Nat \ {0}
    /\ MaxWrites \in Nat
    /\ LongSends \in BOOLEAN
    /\ IsFiniteSet(Clients)
    /\ None \notin Nodes \cup Clients

VARIABLES
    (* Redis *)
    writes,   \* writes of a node state so far
    stored,   \* number of the write that node:<id> holds, 0 without a key
    (* the control plane *)
    req,      \* the local variables of each request
    clients,  \* _ws_clients
    (* the dashboards *)
    conn,     \* state of each client's connection
    (* observation only *)
    shown     \* the entries sent to the client on this connection

vars == <<writes, stored, req, clients, conn, shown>>

Versions == 0 .. MaxWrites
Entry    == Nodes \X (1 .. MaxWrites)  \* a node and the write shown

Request ==
    [pc       : {"idle", "saved", "scan", "mget", "render", "send", "sent"},
     node     : Nodes \cup {None},    \* the node it stored
     ver      : Versions,             \* the number of its write
     page     : 0 .. ScanPages,       \* SCAN calls made
     must     : SUBSET Nodes,         \* there since the SCAN began, not returned yet
     keys     : SUBSET Nodes,         \* to MGET
     snapshot : SUBSET Entry,
     members  : SUBSET Clients,       \* _ws_clients when the loop over it began
     visited  : SUBSET Clients,       \* those the loop has reached
     target   : Clients \cup {None},  \* the one whose send_text it awaits
     dead     : SUBSET Clients]       \* those whose send_text raised

Idle ==
    [pc |-> "idle", node |-> None, ver |-> 0, page |-> 0, must |-> {},
     keys |-> {}, snapshot |-> {}, members |-> {}, visited |-> {},
     target |-> None, dead |-> {}]

TypeOK ==
    /\ writes \in Versions
    /\ stored \in [Nodes -> Versions]
    /\ req \in [Handlers -> Request]
    /\ clients \subseteq Clients
    /\ conn \in [Clients -> {"away", "open", "stalled", "broken"}]
    /\ shown \in [Clients -> SUBSET Entry]

Init ==
    /\ writes = 0
    /\ stored = [n \in Nodes |-> 0]
    /\ req = [h \in Handlers |-> Idle]
    /\ clients = {}
    /\ conn = [c \in Clients |-> "away"]
    /\ shown = [c \in Clients |-> {}]

Present == {n \in Nodes : stored[n] > 0}

\* The request goes on with these values of its local variables.
Becomes(h, r) == req' = [req EXCEPT ![h] = r]

\* The request returned or raised.
Finish(h) == Becomes(h, Idle)

----------------------------------------------------------------------------
(* From the write of the state to the snapshot. *)

\* update_node_state wrote node:<id>.
Save(h, n) ==
    /\ req[h].pc = "idle"
    /\ writes < MaxWrites
    /\ writes' = writes + 1
    /\ stored' = [stored EXCEPT ![n] = writes + 1]
    /\ Becomes(h, [Idle EXCEPT !.pc = "saved", !.node = n, !.ver = writes + 1])
    /\ UNCHANGED <<clients, conn, shown>>

\* if not _ws_clients: return.  Otherwise get_topology begins, and SCAN has
\* to return each key that is there now and stays until the SCAN ends.
StartScan(h) ==
    /\ req[h].pc = "saved"
    /\ IF clients = {} THEN Finish(h)
       ELSE Becomes(h, [req[h] EXCEPT !.pc = "scan", !.must = Present])
    /\ UNCHANGED <<writes, stored, clients, conn, shown>>

AfterPage(page) == IF page = ScanPages THEN "render" ELSE "scan"

\* Mutant: one call of SCAN is taken for the whole key space.
ScanOnce(h) ==
    /\ req[h].pc = "scan"
    /\ \E found \in SUBSET Present :
         Becomes(h, [req[h] EXCEPT
                       !.pc = IF found = {} THEN "render" ELSE "mget",
                       !.page = ScanPages,
                       !.keys = found,
                       !.must = @ \ found])
    /\ UNCHANGED <<writes, stored, clients, conn, shown>>

\* One call of SCAN.  A page may be empty and may repeat keys of earlier
\* pages; an empty one is not followed by MGET.
Scan(h) ==
    LET page == req[h].page + 1 IN
    /\ req[h].pc = "scan"
    /\ \E found \in SUBSET Present :
         /\ page = ScanPages => req[h].must \subseteq found
         /\ Becomes(h, [req[h] EXCEPT
                          !.pc = IF found = {} THEN AfterPage(page) ELSE "mget",
                          !.page = page,
                          !.keys = found,
                          !.must = @ \ found])
    /\ UNCHANGED <<writes, stored, clients, conn, shown>>

\* Mutant: the values of keys that are gone are kept.
AllEntries(keys) == {<<n, stored[n]>> : n \in keys}

\* mget(*keys); a key that went meanwhile yields no entry.
Entries(keys) == {<<n, stored[n]>> : n \in keys \cap Present}

Mget(h) ==
    /\ req[h].pc = "mget"
    /\ Becomes(h, [req[h] EXCEPT !.pc = AfterPage(req[h].page),
                                 !.snapshot = @ \cup Entries(req[h].keys),
                                 !.keys = {}])
    /\ UNCHANGED <<writes, stored, clients, conn, shown>>

----------------------------------------------------------------------------
(* for ws in _ws_clients: await ws.send_text(payload) *)

\* The iterator yields c next.
Visit(h, c, members) ==
    /\ Becomes(h, [req[h] EXCEPT !.pc = "send",
                                 !.members = members,
                                 !.visited = @ \cup {c},
                                 !.target = c])
    /\ UNCHANGED clients

\* Mutant: the set is rebuilt from the clients the loop reached.
KeepReached(h) ==
    /\ clients' = clients \cap (req[h].visited \ req[h].dead)
    /\ Finish(h)

\* The loop is over: _ws_clients.difference_update(dead), and the answer.
Answer(h) ==
    /\ clients' = clients \ req[h].dead
    /\ Finish(h)

\* The snapshot is complete; the loop begins in the same step.
StartLoop(h) ==
    /\ req[h].pc = "render"
    /\ \/ \E c \in clients : Visit(h, c, clients)
       \/ clients = {} /\ Answer(h)
    /\ UNCHANGED <<writes, stored, conn, shown>>

\* The loop after a send_text, which raised for the clients in raised.
Sent(h, raised) ==
    [req[h] EXCEPT !.pc = "sent", !.target = None, !.dead = @ \cup raised]

\* send_text ended.  It may seem to succeed on a broken connection; it
\* raises on no other, and does not end as long as the client reads
\* nothing.
SendEnds(h) ==
    LET c == req[h].target IN
    /\ req[h].pc = "send"
    /\ \/ /\ conn[c] = "open"
          /\ shown' = [shown EXCEPT ![c] = @ \cup req[h].snapshot]
          /\ Becomes(h, Sent(h, {}))
       \/ /\ conn[c] = "broken"
          /\ Becomes(h, Sent(h, {}))
          /\ UNCHANGED shown
       \/ /\ conn[c] \in {"broken", "away"}
          /\ Becomes(h, Sent(h, {c}))
          /\ UNCHANGED shown
    /\ UNCHANGED <<writes, stored, clients, conn>>

SameSize(h) == Cardinality(clients) = Cardinality(req[h].members)

\* The iterator goes on.  While the set is the one the loop began with it
\* yields every member; when members were exchanged one for one it may
\* miss any of them, for the table may have been rebuilt.
Advance(h) ==
    /\ req[h].pc = "sent"
    /\ SameSize(h)
    /\ \/ \E c \in clients \ req[h].visited : Visit(h, c, req[h].members)
       \/ /\ req[h].members = clients => clients \subseteq req[h].visited
          /\ Answer(h)
    /\ UNCHANGED <<writes, stored, conn, shown>>

\* Mutant: the loop starts again over the changed set.
LoopAgain(h) ==
    /\ req[h].pc = "sent"
    /\ ~SameSize(h)
    /\ \/ \E c \in clients : Visit(h, c, clients)
       \/ clients = {} /\ Answer(h)
    /\ UNCHANGED <<writes, stored, conn, shown>>

\* "Set changed size during iteration": the request ends with a 500, and
\* the clients found dead stay in the set.
SetChanged(h) ==
    /\ req[h].pc = "sent"
    /\ ~SameSize(h)
    /\ Finish(h)
    /\ UNCHANGED <<writes, stored, clients, conn, shown>>

----------------------------------------------------------------------------
(* The dashboards and their connections. *)

\* WebSocket objects a broadcast still refers to are not reused.
Referenced == UNION {req[h].members \cup req[h].visited \cup req[h].dead
                     : h \in Handlers}

\* accept() and _ws_clients.add(ws), for a client with the right token.
Connect(c) ==
    /\ conn[c] = "away"
    /\ c \notin Referenced
    /\ conn' = [conn EXCEPT ![c] = "open"]
    /\ clients' = clients \cup {c}
    /\ UNCHANGED <<writes, stored, req, shown>>

\* The client stops or resumes reading, or its connection breaks, which the
\* server does not notice at once.
Link(c) ==
    /\ \/ conn[c] = "open" /\ conn' = [conn EXCEPT ![c] = "stalled"]
       \/ conn[c] = "stalled" /\ conn' = [conn EXCEPT ![c] = "open"]
       \/ conn[c] \in {"open", "stalled"} /\ conn' = [conn EXCEPT ![c] = "broken"]
    /\ UNCHANGED <<writes, stored, req, clients, shown>>

\* receive_text() raised: _ws_clients.discard(ws)
Disconnect(c) ==
    /\ conn[c] = "broken"
    /\ conn' = [conn EXCEPT ![c] = "away"]
    /\ clients' = clients \ {c}
    /\ shown' = [shown EXCEPT ![c] = {}]
    /\ UNCHANGED <<writes, stored, req>>

\* The request has written its state and not read it back yet.
Reading(r) == r.pc \in {"saved", "scan", "mget"}

\* node:<id> expires or delete_node removes it.  A state lives longer than
\* get_topology takes to read it back; dashboards that stop reading may hold
\* the loop over them up for longer.
Evict(n) ==
    /\ stored[n] > 0
    /\ \A h \in Handlers : Reading(req[h]) \/ ~LongSends => req[h].node # n
    /\ stored' = [stored EXCEPT ![n] = 0]
    /\ req' = [h \in Handlers |-> [req[h] EXCEPT !.must = @ \ {n}]]
    /\ UNCHANGED <<writes, clients, conn, shown>>

----------------------------------------------------------------------------
Broadcast(h) ==
    \/ StartScan(h)
    \/ Scan(h)
    \/ Mget(h)
    \/ StartLoop(h)
    \/ SendEnds(h)
    \/ Advance(h)
    \/ SetChanged(h)

Next ==
    \/ \E h \in Handlers : (\E n \in Nodes : Save(h, n)) \/ Broadcast(h)
    \/ \E c \in Clients : Connect(c) \/ Link(c) \/ Disconnect(c)
    \/ \E n \in Nodes : Evict(n)

Spec == Init /\ [][Next]_vars

\* The event loop resumes a request whose await has ended.  Nothing is
\* assumed about the dashboards.
FairSpec == Spec /\ \A h \in Handlers : WF_vars(Broadcast(h))

----------------------------------------------------------------------------
(* Safety. *)

\* A dashboard whose connection works stays in _ws_clients, whatever was
\* found dead and whichever broadcasts failed half way: one that fell out
\* would keep an open socket, get nothing and never reconnect.
LiveClientRegistered ==
    \A c \in Clients : conn[c] \in {"open", "stalled"} => c \in clients

\* Among the entries is one of h's node that shows h's write or a later one.
Shows(entries, h) ==
    \E e \in entries : e[1] = req[h].node /\ e[2] >= req[h].ver

\* A request that ends with the set of dashboards its loop began with, and
\* so without an error, has brought each of them its own write or a newer
\* one of the node, however many pages the SCAN took and whatever was
\* written, evicted and sent by others meanwhile.
AnsweredIsPushed ==
    [][\A h \in Handlers :
          (req[h].pc # "idle" /\ req'[h].pc = "idle" /\ req[h].members = clients)
            => \A c \in clients : conn[c] = "broken" \/ Shows(shown[c], h)]_vars

(* Liveness. *)

\* Ingestion waits for the dashboards, and only for those that stop reading
\* without disconnecting: once there are none of these every request ends,
\* however often dashboards come and go.
RequestsAnswered ==
    \A h \in Handlers :
        <>[](\A c \in Clients : conn[c] # "stalled")
            => (req[h].pc # "idle" ~> req[h].pc = "idle")

----------------------------------------------------------------------------
(* What the documents say of the hub and the code does not do. *)

\* "Push the latest topology to all connected dashboard clients": what a
\* dashboard is sent is never older than what it was shown before.
PushIsNewer ==
    [][\A h \in Handlers :
          (req[h].pc = "send" /\ req'[h].pc = "sent" /\ conn[req[h].target] = "open")
            => \A e \in req[h].snapshot, f \in shown[req[h].target] :
                 e[1] = f[1] => e[2] >= f[2]]_vars

=============================================================================
