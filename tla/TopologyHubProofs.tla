-------------------------- MODULE TopologyHubProofs --------------------------
(***************************************************************************)
(* Proofs about TopologyHub, for any number of nodes, requests and         *)
(* dashboards: its types, that a working dashboard stays registered, and   *)
(* that a request which is answered has reached every dashboard.           *)
(*                                                                         *)
(* The invariant follows one request, as the record r of its local         *)
(* variables, from its write to its answer.                                *)
(***************************************************************************)
EXTENDS TopologyHub, TLAPS

\* Among the entries is one that shows the node's write v or a later one.
HasWrite(entries, n, v) == \E e \in entries : e[1] = n /\ e[2] >= v

\* A request in progress has written its node, whose key is there until it
\* has read it back.
Underway(r) ==
    /\ r.pc # "idle" => r.node \in Nodes /\ r.ver >= 1
    /\ Reading(r) => r.ver <= stored[r.node]

\* A SCAN has calls left, and only the loop over the dashboards awaits one
\* of them and has reached any.
Placed(r) ==
    /\ r.pc = "saved" => r.page = 0
    /\ r.pc = "scan" => r.page # ScanPages
    /\ r.pc = "send" => r.target \in Clients
    /\ r.pc \notin {"send", "sent"} => r.visited = {} /\ r.dead = {}

\* The SCAN still owes the request its own node, or the MGET is about to
\* read it, or the snapshot has it.
Carried(r) ==
    LET has == HasWrite(r.snapshot, r.node, r.ver) IN
    /\ r.pc = "scan" => has \/ r.node \in r.must
    /\ r.pc = "mget" => \/ has \/ r.node \in r.keys
                        \/ r.node \in r.must /\ r.page # ScanPages
    /\ r.pc \in {"render", "send", "sent"} => has

IsDown(c) == conn[c] \in {"broken", "away"}

\* Each dashboard the loop has reached was shown the write, unless its
\* connection is gone; those the loop found dead are.
Reached(r) ==
    /\ \A c \in r.visited : \/ r.pc = "send" /\ c = r.target
                            \/ IsDown(c)
                            \/ HasWrite(shown[c], r.node, r.ver)
    /\ \A c \in r.dead : IsDown(c)

RequestOK(r) == Underway(r) /\ Placed(r) /\ Carried(r) /\ Reached(r)

HubInv ==
    /\ TypeOK
    /\ \A n \in Nodes : stored[n] <= writes
    /\ \A c \in Clients : conn[c] \in {"open", "stalled"} => c \in clients
    /\ \A c \in clients : conn[c] # "away"
    /\ \A h \in Handlers : RequestOK(req[h])

----------------------------------------------------------------------------
(* The local variables of a request. *)

LEMMA IdleType == Idle \in Request
BY TopologyHubAssumption DEF Idle, Request, Versions

LEMMA BecomesIs ==
    ASSUME req \in [Handlers -> Request], NEW h \in Handlers, NEW r \in Request,
           Becomes(h, r)
    PROVE  /\ req' \in [Handlers -> Request] /\ req'[h] = r
           /\ \A g \in Handlers \ {h} : req'[g] = req[g]
BY DEF Becomes

LEMMA IdleOK == RequestOK(Idle) /\ RequestOK(Idle)'
BY DEF RequestOK, Underway, Reading, Placed, Carried, Reached, Idle

\* What a step must leave alone for a request that it does not move.
LEMMA RequestKept ==
    ASSUME NEW r \in Request, RequestOK(r), TypeOK,
           stored' \in [Nodes -> Versions],
           ~Reading(r) \/ stored'[r.node] >= stored[r.node],
           \A c \in r.visited \cup r.dead : IsDown(c) => IsDown(c)',
           \A c \in r.visited : shown[c] \subseteq shown'[c] \/ IsDown(c)'
    PROVE  RequestOK(r)'
<1>1. Underway(r)'
  <2> SUFFICES ASSUME Reading(r) PROVE r.ver <= stored'[r.node]
    BY DEF RequestOK, Underway
  <2>1. /\ r.node \in Nodes /\ r.ver <= stored[r.node]
        /\ stored'[r.node] >= stored[r.node]
    BY DEF RequestOK, Underway, Reading
  <2>2. r.ver \in Int /\ stored[r.node] \in Int /\ stored'[r.node] \in Int
    BY <2>1 DEF Request, TypeOK, Versions
  <2> QED BY <2>1, <2>2
<1>2. Placed(r)' /\ Carried(r)'
  BY DEF RequestOK, Placed, Carried
<1>3. Reached(r)'
  BY DEF RequestOK, Reached, HasWrite
<1> QED BY <1>1, <1>2, <1>3 DEF RequestOK

\* A step of one request that leaves the others what they rely on.
LEMMA OthersKept ==
    ASSUME HubInv, NEW h \in Handlers, NEW r \in Request, Becomes(h, r), RequestOK(r)',
           stored' \in [Nodes -> Versions],
           \A n \in Nodes : stored'[n] >= stored[n],
           UNCHANGED conn,
           \A c \in Clients : shown[c] \subseteq shown'[c]
    PROVE  /\ req' \in [Handlers -> Request]
           /\ \A g \in Handlers : RequestOK(req[g])'
<1>a. TypeOK /\ req \in [Handlers -> Request]
  BY DEF HubInv, TypeOK
<1>1. /\ req' \in [Handlers -> Request] /\ req'[h] = r
      /\ \A g \in Handlers \ {h} : req'[g] = req[g]
  BY <1>a, BecomesIs
<1>2. ASSUME NEW g \in Handlers \ {h} PROVE RequestOK(req[g])'
  <2> DEFINE q == req[g]
  <2>1. q \in Request /\ RequestOK(q) /\ q.visited \subseteq Clients
    BY <1>a DEF HubInv, Request
  <2>2. ~Reading(q) \/ stored'[q.node] >= stored[q.node]
    BY <2>1 DEF RequestOK, Underway, Reading
  <2>3. \A c : IsDown(c) => IsDown(c)'
    BY DEF IsDown
  <2>4. PICK s \in Request : s = q
    BY <2>1
  <2>5. RequestOK(s)'
    <3> HIDE DEF q
    <3> QED BY <1>a, <2>1, <2>2, <2>3, <2>4, RequestKept
  <2> QED BY <1>1, <2>4, <2>5
<1>3. RequestOK(req[h])'
  BY <1>1
<1> QED BY <1>1, <1>2, <1>3

\* Most steps of a request change nothing but its local variables.
LEMMA LocalStep ==
    ASSUME HubInv, NEW h \in Handlers, NEW r \in Request, Becomes(h, r), RequestOK(r)',
           UNCHANGED <<writes, stored, clients, conn, shown>>
    PROVE  HubInv'
<1>1. \A n \in Nodes : stored'[n] >= stored[n]
  BY DEF HubInv, TypeOK, Versions
<1>2. req' \in [Handlers -> Request] /\ \A g \in Handlers : RequestOK(req[g])'
  BY <1>1, OthersKept DEF HubInv, TypeOK
<1>3. TypeOK'
  BY <1>2 DEF HubInv, TypeOK
<1> QED BY <1>2, <1>3 DEF HubInv

----------------------------------------------------------------------------
(* What each step of a request does to its local variables. *)

AfterSave(n, v) == [Idle EXCEPT !.pc = "saved", !.node = n, !.ver = v]
AfterStart(r, m) == [r EXCEPT !.pc = "scan", !.must = m]
AfterScan(r, p, g, f) == [r EXCEPT !.pc = p, !.page = g, !.keys = f, !.must = @ \ f]
AfterMget(r, p, e) == [r EXCEPT !.pc = p, !.snapshot = @ \cup e, !.keys = {}]
AfterVisit(r, c, m) ==
    [r EXCEPT !.pc = "send", !.members = m, !.visited = @ \cup {c}, !.target = c]
AfterSent(r, d) == [r EXCEPT !.pc = "sent", !.target = None, !.dead = @ \cup d]
AfterEvict(r, n) == [r EXCEPT !.must = @ \ {n}]

LEMMA SaveRecord ==
    ASSUME NEW n \in Nodes, NEW v \in Versions,
           NEW s, s = AfterSave(n, v)
    PROVE  /\ s \in Request
           /\ s.pc = "saved" /\ s.node = n /\ s.ver = v /\ s.page = 0
           /\ s.visited = {} /\ s.dead = {}
<1>1. s \in Request
  <2>1. PICK q \in Request : q = Idle
    BY IdleType
  <2>2. [q EXCEPT !.pc = "saved", !.node = n, !.ver = v] \in Request
    BY <2>1 DEF Request, AfterSave
  <2> QED BY <2>1, <2>2 DEF AfterSave
<1>2. /\ s.pc = "saved" /\ s.node = n /\ s.ver = v /\ s.page = 0
      /\ s.visited = {} /\ s.dead = {}
  BY DEF Idle, AfterSave
<1> QED BY <1>1, <1>2

LEMMA StartRecord ==
    ASSUME NEW r \in Request, NEW m \in SUBSET Nodes,
           NEW s, s = AfterStart(r, m)
    PROVE  /\ s \in Request
           /\ s.pc = "scan" /\ s.must = m /\ s.page = r.page
           /\ s.node = r.node /\ s.ver = r.ver
           /\ s.visited = r.visited /\ s.dead = r.dead
<1>1. s \in Request
  BY DEF Request, AfterStart
<1>2. /\ s.pc = "scan" /\ s.must = m /\ s.page = r.page
      /\ s.node = r.node /\ s.ver = r.ver
      /\ s.visited = r.visited /\ s.dead = r.dead
  BY DEF Request, AfterStart
<1> QED BY <1>1, <1>2

LEMMA ScanRecord ==
    ASSUME NEW r \in Request, NEW p \in {"render", "scan", "mget"},
           NEW g \in 0 .. ScanPages, NEW f \in SUBSET Nodes,
           NEW s, s = AfterScan(r, p, g, f)
    PROVE  /\ s \in Request
           /\ s.pc = p /\ s.page = g /\ s.keys = f /\ s.must = r.must \ f
           /\ s.node = r.node /\ s.ver = r.ver /\ s.snapshot = r.snapshot
           /\ s.visited = r.visited /\ s.dead = r.dead
<1>1. s \in Request
  BY DEF Request, AfterScan
<1>2. /\ s.pc = p /\ s.page = g /\ s.keys = f /\ s.must = r.must \ f
      /\ s.node = r.node /\ s.ver = r.ver /\ s.snapshot = r.snapshot
      /\ s.visited = r.visited /\ s.dead = r.dead
  BY DEF Request, AfterScan
<1> QED BY <1>1, <1>2

LEMMA MgetRecord ==
    ASSUME NEW r \in Request, NEW p \in {"render", "scan"}, NEW e \in SUBSET Entry,
           NEW s, s = AfterMget(r, p, e)
    PROVE  /\ s \in Request
           /\ s.pc = p /\ s.snapshot = r.snapshot \cup e /\ s.page = r.page
           /\ s.must = r.must /\ s.node = r.node /\ s.ver = r.ver
           /\ s.visited = r.visited /\ s.dead = r.dead
<1>1. s \in Request
  BY DEF Request, AfterMget
<1>2. /\ s.pc = p /\ s.snapshot = r.snapshot \cup e /\ s.page = r.page
      /\ s.must = r.must /\ s.node = r.node /\ s.ver = r.ver
      /\ s.visited = r.visited /\ s.dead = r.dead
  BY DEF Request, AfterMget
<1> QED BY <1>1, <1>2

LEMMA VisitRecord ==
    ASSUME NEW r \in Request, NEW c \in Clients, NEW m \in SUBSET Clients,
           NEW s, s = AfterVisit(r, c, m)
    PROVE  /\ s \in Request
           /\ s.pc = "send" /\ s.visited = r.visited \cup {c} /\ s.target = c
           /\ s.node = r.node /\ s.ver = r.ver /\ s.snapshot = r.snapshot
           /\ s.dead = r.dead
<1>1. s \in Request
  BY DEF Request, AfterVisit
<1>2. /\ s.pc = "send" /\ s.visited = r.visited \cup {c} /\ s.target = c
      /\ s.node = r.node /\ s.ver = r.ver /\ s.snapshot = r.snapshot
      /\ s.dead = r.dead
  BY DEF Request, AfterVisit
<1> QED BY <1>1, <1>2

LEMMA SentRecord ==
    ASSUME NEW r \in Request, NEW d \in SUBSET Clients,
           NEW s, s = AfterSent(r, d)
    PROVE  /\ s \in Request
           /\ s.pc = "sent" /\ s.dead = r.dead \cup d
           /\ s.node = r.node /\ s.ver = r.ver /\ s.snapshot = r.snapshot
           /\ s.visited = r.visited
<1>1. s \in Request
  BY DEF Request, AfterSent
<1>2. /\ s.pc = "sent" /\ s.dead = r.dead \cup d
      /\ s.node = r.node /\ s.ver = r.ver /\ s.snapshot = r.snapshot
      /\ s.visited = r.visited
  BY DEF Request, AfterSent
<1> QED BY <1>1, <1>2

LEMMA EvictRecord ==
    ASSUME NEW r \in Request, NEW n, NEW s, s = AfterEvict(r, n)
    PROVE  /\ s \in Request
           /\ s.pc = r.pc /\ s.must = r.must \ {n} /\ s.page = r.page
           /\ s.keys = r.keys /\ s.target = r.target
           /\ s.node = r.node /\ s.ver = r.ver /\ s.snapshot = r.snapshot
           /\ s.visited = r.visited /\ s.dead = r.dead
<1>1. s \in Request
  BY DEF Request, AfterEvict
<1>2. /\ s.pc = r.pc /\ s.must = r.must \ {n} /\ s.page = r.page
      /\ s.keys = r.keys /\ s.target = r.target
      /\ s.node = r.node /\ s.ver = r.ver /\ s.snapshot = r.snapshot
      /\ s.visited = r.visited /\ s.dead = r.dead
  BY DEF Request, AfterEvict
<1> QED BY <1>1, <1>2

----------------------------------------------------------------------------
(* The steps of a request. *)

LEMMA InitHub == Init => HubInv
<1> SUFFICES ASSUME Init PROVE HubInv
  OBVIOUS
<1>1. TypeOK
  BY IdleType, TopologyHubAssumption DEF Init, TypeOK, Versions
<1>2. \A h \in Handlers : RequestOK(req[h])
  BY IdleOK DEF Init
<1> QED BY <1>1, <1>2, TopologyHubAssumption DEF Init, HubInv

\* A request that ends leaves nothing behind.
LEMMA FinishKeeps ==
    ASSUME HubInv, NEW h \in Handlers, Finish(h),
           UNCHANGED <<writes, stored, clients, conn, shown>>
    PROVE  HubInv'
BY IdleType, IdleOK, LocalStep DEF Finish

LEMMA SaveKeeps == ASSUME HubInv, NEW h \in Handlers, NEW n \in Nodes, Save(h, n) PROVE HubInv'
<1>a. TypeOK /\ writes + 1 \in Versions /\ writes \in Nat
      /\ \A k \in Nodes : stored[k] \in Nat /\ stored[k] <= writes
  BY TopologyHubAssumption DEF HubInv, TypeOK, Save, Versions
<1>b. PICK r : r = AfterSave(n, writes + 1)
  OBVIOUS
<1>c. /\ stored' = [stored EXCEPT ![n] = writes + 1] /\ writes' = writes + 1
      /\ Becomes(h, r) /\ UNCHANGED <<clients, conn, shown>>
  BY <1>b DEF Save, AfterSave
<1>1. /\ r \in Request
      /\ r.pc = "saved" /\ r.node = n /\ r.ver = writes + 1 /\ r.page = 0
      /\ r.visited = {} /\ r.dead = {}
  BY <1>a, <1>b, SaveRecord
<1>2. /\ stored' \in [Nodes -> Versions] /\ stored'[n] = writes + 1
      /\ \A k \in Nodes : stored'[k] >= stored[k] /\ stored'[k] <= writes'
  BY <1>a, <1>c DEF TypeOK
<1>3. RequestOK(r)'
  <2>1. Underway(r)'
    BY <1>1, <1>2, <1>a DEF Underway, Reading
  <2> QED BY <1>1, <2>1 DEF RequestOK, Placed, Carried, Reached
<1>4. req' \in [Handlers -> Request] /\ \A g \in Handlers : RequestOK(req[g])'
  <2>1. \A c \in Clients : shown[c] \subseteq shown'[c]
    BY <1>c
  <2> QED BY <1>1, <1>c, <1>2, <1>3, <2>1, OthersKept
<1>5. TypeOK'
  BY <1>a, <1>c, <1>2, <1>4 DEF TypeOK
<1> QED BY <1>c, <1>2, <1>4, <1>5 DEF HubInv

LEMMA StartScanKeeps == ASSUME HubInv, NEW h \in Handlers, StartScan(h) PROVE HubInv'
<1>1. ASSUME Finish(h) PROVE HubInv'
  BY <1>1, FinishKeeps DEF StartScan
<1>2. ASSUME Becomes(h, [req[h] EXCEPT !.pc = "scan", !.must = Present]) PROVE HubInv'
  <2>a. TypeOK /\ req[h] \in Request /\ RequestOK(req[h]) /\ req[h].pc = "saved"
    BY DEF HubInv, TypeOK, StartScan
  <2>b. PICK r : r = AfterStart(req[h], Present)
    OBVIOUS
  <2>c. Becomes(h, r) /\ UNCHANGED <<writes, stored, clients, conn, shown>>
    BY <1>2, <2>b DEF StartScan, AfterStart
  <2>1. /\ r \in Request
        /\ r.pc = "scan" /\ r.must = Present /\ r.page = req[h].page
        /\ r.node = req[h].node /\ r.ver = req[h].ver
        /\ r.visited = req[h].visited /\ r.dead = req[h].dead
    <3>1. Present \in SUBSET Nodes
      BY DEF Present
    <3> QED BY <2>a, <2>b, <3>1, StartRecord
  <2>2. /\ r.node \in Nodes /\ r.ver >= 1 /\ r.ver <= stored[r.node]
        /\ r.visited = {} /\ r.dead = {} /\ r.page = 0
    BY <2>a, <2>1 DEF RequestOK, Underway, Reading, Placed
  <2>3. r.node \in r.must
    <3>1. stored[r.node] \in Nat /\ r.ver \in Nat
      BY <2>a, <2>1, <2>2, TopologyHubAssumption DEF TypeOK, Request, Versions
    <3> QED BY <2>1, <2>2, <3>1 DEF Present
  <2>4. RequestOK(r)'
    BY <2>c, <2>1, <2>2, <2>3, TopologyHubAssumption
       DEF RequestOK, Underway, Reading, Placed, Carried, Reached
  <2> QED BY <2>c, <2>1, <2>4, LocalStep
<1> QED BY <1>1, <1>2 DEF StartScan

LEMMA ScanKeeps == ASSUME HubInv, NEW h \in Handlers, Scan(h) PROVE HubInv'
<1>a. /\ TypeOK /\ req[h] \in Request /\ RequestOK(req[h]) /\ req[h].pc = "scan"
      /\ UNCHANGED <<writes, stored, clients, conn, shown>>
  BY DEF HubInv, TypeOK, Scan
<1>b. PICK page : page = req[h].page + 1
  OBVIOUS
<1>c. PICK found \in SUBSET Present :
        /\ page = ScanPages => req[h].must \subseteq found
        /\ Becomes(h, [req[h] EXCEPT
                         !.pc = IF found = {} THEN AfterPage(page) ELSE "mget",
                         !.page = page, !.keys = found, !.must = @ \ found])
  BY <1>b DEF Scan
<1>d. PICK next : next = IF found = {} THEN AfterPage(page) ELSE "mget"
  OBVIOUS
<1>e. PICK r : r = AfterScan(req[h], next, page, found)
  OBVIOUS
<1>f. Becomes(h, r)
  BY <1>c, <1>d, <1>e DEF AfterScan
<1>1. page \in 0 .. ScanPages
  BY <1>a, <1>b, TopologyHubAssumption DEF RequestOK, Placed, Request
<1>2. next \in {"render", "scan", "mget"}
  BY <1>d DEF AfterPage
<1>3. /\ r \in Request
      /\ r.pc = next /\ r.page = page /\ r.keys = found /\ r.must = req[h].must \ found
      /\ r.node = req[h].node /\ r.ver = req[h].ver /\ r.snapshot = req[h].snapshot
      /\ r.visited = req[h].visited /\ r.dead = req[h].dead
  <2>1. found \in SUBSET Nodes
    BY DEF Present
  <2> QED BY <1>a, <1>e, <1>1, <1>2, <2>1, ScanRecord
<1>4. /\ r.node \in Nodes /\ r.ver >= 1 /\ r.ver <= stored[r.node]
      /\ r.visited = {} /\ r.dead = {}
      /\ HasWrite(r.snapshot, r.node, r.ver) \/ r.node \in req[h].must
  BY <1>a, <1>3 DEF RequestOK, Underway, Reading, Placed, Carried
<1>5. Carried(r)'
  <2>1. CASE found = {}
    <3>1. page = ScanPages => r.pc = "render" /\ req[h].must = {}
      BY <1>c, <1>d, <1>3, <2>1 DEF AfterPage
    <3>2. page # ScanPages => r.pc = "scan" /\ r.must = req[h].must
      BY <1>d, <1>3, <2>1 DEF AfterPage
    <3> QED BY <1>4, <3>1, <3>2 DEF Carried, HasWrite
  <2>2. CASE found # {}
    <3>1. r.pc = "mget" /\ (page = ScanPages => req[h].must \subseteq r.keys)
      BY <1>c, <1>d, <1>3, <2>2
    <3>2. req[h].must \subseteq r.keys \cup r.must
      BY <1>3
    <3> QED BY <1>3, <1>4, <3>1, <3>2 DEF Carried, HasWrite
  <2> QED BY <2>1, <2>2
<1>6. Placed(r)'
  <2>1. r.pc = "scan" => page # ScanPages
    BY <1>d, <1>3 DEF AfterPage
  <2>2. r.pc \in {"render", "scan", "mget"}
    BY <1>2, <1>3
  <2> QED BY <1>3, <1>4, <2>1, <2>2 DEF Placed
<1>7. RequestOK(r)'
  BY <1>a, <1>4, <1>5, <1>6 DEF RequestOK, Underway, Reading, Reached
<1> QED BY <1>a, <1>f, <1>3, <1>7, LocalStep

LEMMA MgetKeeps == ASSUME HubInv, NEW h \in Handlers, Mget(h) PROVE HubInv'
<1>a. /\ TypeOK /\ req[h] \in Request /\ RequestOK(req[h]) /\ req[h].pc = "mget"
      /\ UNCHANGED <<writes, stored, clients, conn, shown>>
  BY DEF HubInv, TypeOK, Mget
<1>b. PICK next : next = AfterPage(req[h].page)
  OBVIOUS
<1>c. PICK entries : entries = Entries(req[h].keys)
  OBVIOUS
<1>d. PICK r : r = AfterMget(req[h], next, entries)
  OBVIOUS
<1>e. Becomes(h, r)
  BY <1>b, <1>c, <1>d DEF Mget, AfterMget
<1>1. next \in {"render", "scan"}
  BY <1>b DEF AfterPage
<1>2. entries \in SUBSET Entry
  BY <1>a, <1>c, TopologyHubAssumption DEF Entries, Present, Entry, TypeOK, Versions
<1>3. /\ r \in Request
      /\ r.pc = next /\ r.snapshot = req[h].snapshot \cup entries /\ r.page = req[h].page
      /\ r.must = req[h].must /\ r.node = req[h].node /\ r.ver = req[h].ver
      /\ r.visited = req[h].visited /\ r.dead = req[h].dead
  BY <1>a, <1>d, <1>1, <1>2, MgetRecord
<1>4. /\ r.node \in Nodes /\ r.ver >= 1 /\ r.ver <= stored[r.node]
      /\ r.visited = {} /\ r.dead = {}
      /\ \/ HasWrite(req[h].snapshot, r.node, r.ver)
         \/ r.node \in req[h].keys
         \/ r.node \in r.must /\ r.page # ScanPages
  BY <1>a, <1>3 DEF RequestOK, Underway, Reading, Placed, Carried
<1>5. r.node \in req[h].keys => HasWrite(entries, r.node, r.ver)
  <2> SUFFICES ASSUME r.node \in req[h].keys PROVE HasWrite(entries, r.node, r.ver)
    OBVIOUS
  <2>1. stored[r.node] \in Nat /\ r.ver \in Nat
    BY <1>a, <1>3, <1>4, TopologyHubAssumption DEF TypeOK, Request, Versions
  <2>2. <<r.node, stored[r.node]>> \in entries
    BY <1>c, <1>4, <2>1 DEF Entries, Present
  <2> QED BY <1>4, <2>2 DEF HasWrite
<1>6. HasWrite(r.snapshot, r.node, r.ver) \/ (r.node \in r.must /\ r.page # ScanPages)
  BY <1>3, <1>4, <1>5 DEF HasWrite
<1>7. /\ r.pc = "scan" => r.page # ScanPages
      /\ r.page # ScanPages => r.pc = "scan"
  BY <1>b, <1>3 DEF AfterPage
<1>8. RequestOK(r)'
  <2>1. Carried(r)' /\ Placed(r)'
    BY <1>1, <1>3, <1>4, <1>6, <1>7 DEF Carried, Placed, HasWrite
  <2> QED BY <1>a, <1>4, <2>1 DEF RequestOK, Underway, Reading, Reached
<1> QED BY <1>a, <1>e, <1>3, <1>8, LocalStep

\* The loop reaches a dashboard.
LEMMA VisitKeeps ==
    ASSUME HubInv, NEW h \in Handlers, NEW c \in Clients, NEW members \in SUBSET Clients,
           req[h].pc \in {"render", "sent"}, Visit(h, c, members),
           UNCHANGED <<writes, stored, conn, shown>>
    PROVE  HubInv'
<1>a. TypeOK /\ req[h] \in Request /\ RequestOK(req[h])
  BY DEF HubInv, TypeOK
<1>b. PICK r : r = AfterVisit(req[h], c, members)
  OBVIOUS
<1>c. Becomes(h, r) /\ UNCHANGED clients
  BY <1>b DEF Visit, AfterVisit
<1>1. /\ r \in Request
      /\ r.pc = "send" /\ r.visited = req[h].visited \cup {c} /\ r.target = c
      /\ r.node = req[h].node /\ r.ver = req[h].ver /\ r.snapshot = req[h].snapshot
      /\ r.dead = req[h].dead
  BY <1>a, <1>b, VisitRecord
<1>2. Underway(r)' /\ Placed(r)' /\ Carried(r)'
  BY <1>a, <1>1 DEF RequestOK, Underway, Reading, Placed, Carried, HasWrite
<1>3. Reached(r)'
  <2>1. \A v \in req[h].visited : IsDown(v) \/ HasWrite(shown[v], r.node, r.ver)
    BY <1>a, <1>1 DEF RequestOK, Reached
  <2>2. \A v \in r.dead : IsDown(v)
    BY <1>a, <1>1 DEF RequestOK, Reached
  <2> QED BY <1>1, <2>1, <2>2 DEF Reached, IsDown
<1> QED BY <1>c, <1>1, <1>2, <1>3, LocalStep DEF RequestOK

\* The answer drops the dashboards found dead, and none that works.
LEMMA AnswerKeeps ==
    ASSUME HubInv, NEW h \in Handlers, Answer(h),
           UNCHANGED <<writes, stored, conn, shown>>
    PROVE  HubInv'
<1>a. TypeOK /\ RequestOK(req[h])
  BY DEF HubInv
<1>b. clients' = clients \ req[h].dead /\ Becomes(h, Idle)
  BY DEF Answer, Finish
<1>1. req' \in [Handlers -> Request] /\ \A g \in Handlers : RequestOK(req[g])'
  <2>1. stored' \in [Nodes -> Versions] /\ \A n \in Nodes : stored'[n] >= stored[n]
    BY <1>a DEF TypeOK, Versions
  <2> QED BY <1>b, <2>1, IdleType, IdleOK, OthersKept
<1>2. TypeOK'
  BY <1>a, <1>b, <1>1 DEF TypeOK
<1>3. \A c \in Clients : conn'[c] \in {"open", "stalled"} => c \in clients'
  BY <1>a, <1>b DEF HubInv, RequestOK, Reached, IsDown
<1> QED BY <1>b, <1>1, <1>2, <1>3 DEF HubInv

LEMMA StartLoopKeeps == ASSUME HubInv, NEW h \in Handlers, StartLoop(h) PROVE HubInv'
<1>a. clients \in SUBSET Clients
  BY DEF HubInv, TypeOK
<1>1. ASSUME NEW c \in clients, Visit(h, c, clients) PROVE HubInv'
  BY <1>a, <1>1, VisitKeeps DEF StartLoop
<1>2. ASSUME Answer(h) PROVE HubInv'
  BY <1>2, AnswerKeeps DEF StartLoop
<1> QED BY <1>1, <1>2 DEF StartLoop

LEMMA AdvanceKeeps == ASSUME HubInv, NEW h \in Handlers, Advance(h) PROVE HubInv'
<1>a. clients \in SUBSET Clients /\ req[h].members \in SUBSET Clients
  BY DEF HubInv, TypeOK, Request
<1>1. ASSUME NEW c \in clients, Visit(h, c, req[h].members) PROVE HubInv'
  BY <1>a, <1>1, VisitKeeps DEF Advance
<1>2. ASSUME Answer(h) PROVE HubInv'
  BY <1>2, AnswerKeeps DEF Advance
<1> QED BY <1>1, <1>2 DEF Advance

\* The awaited send ends: the dashboard was shown the snapshot, or is gone.
LEMMA SendEndsKeeps == ASSUME HubInv, NEW h \in Handlers, SendEnds(h) PROVE HubInv'
<1>a. /\ TypeOK /\ req[h] \in Request /\ RequestOK(req[h]) /\ req[h].pc = "send"
      /\ UNCHANGED <<writes, stored, clients, conn>>
  BY DEF HubInv, TypeOK, SendEnds
<1>b. PICK c \in Clients : c = req[h].target
  BY <1>a DEF RequestOK, Placed
<1>c. HasWrite(req[h].snapshot, req[h].node, req[h].ver) /\ req[h].snapshot \in SUBSET Entry
  BY <1>a DEF RequestOK, Carried, Request
<1>1. ASSUME NEW raised \in SUBSET Clients, Becomes(h, Sent(h, raised)),
             \A v \in raised : IsDown(v),
             shown' \in [Clients -> SUBSET Entry],
             \A v \in Clients : shown[v] \subseteq shown'[v],
             IsDown(c) \/ HasWrite(shown'[c], req[h].node, req[h].ver)
      PROVE  HubInv'
  <2>b. PICK r : r = AfterSent(req[h], raised)
    OBVIOUS
  <2>c. Becomes(h, r)
    BY <1>1, <2>b DEF Sent, AfterSent
  <2>1. /\ r \in Request
        /\ r.pc = "sent" /\ r.dead = req[h].dead \cup raised
        /\ r.node = req[h].node /\ r.ver = req[h].ver /\ r.snapshot = req[h].snapshot
        /\ r.visited = req[h].visited /\ r.visited \subseteq Clients
    BY <1>a, <2>b, SentRecord DEF Request
  <2>2. Underway(r)' /\ Placed(r)' /\ Carried(r)'
    BY <1>a, <2>1 DEF RequestOK, Underway, Reading, Placed, Carried, HasWrite
  <2>3. \A v \in r.visited : v = c \/ IsDown(v) \/ HasWrite(shown[v], r.node, r.ver)
    BY <1>a, <1>b, <2>1 DEF RequestOK, Reached
  <2>4. \A v \in r.visited : IsDown(v)' \/ HasWrite(shown[v], r.node, r.ver)'
    BY <1>a, <1>1, <2>1, <2>3 DEF HasWrite, IsDown
  <2>5. \A v \in r.dead : IsDown(v)'
    BY <1>a, <1>1, <2>1 DEF RequestOK, Reached, IsDown
  <2>6. RequestOK(r)'
    BY <2>2, <2>4, <2>5 DEF RequestOK, Reached
  <2>7. req' \in [Handlers -> Request] /\ \A g \in Handlers : RequestOK(req[g])'
    <3>1. stored' \in [Nodes -> Versions] /\ \A n \in Nodes : stored'[n] >= stored[n]
      BY <1>a DEF TypeOK, Versions
    <3> QED BY <1>a, <1>1, <2>c, <2>1, <2>6, <3>1, OthersKept
  <2>8. TypeOK'
    BY <1>a, <1>1, <2>7 DEF TypeOK
  <2> QED BY <1>a, <2>7, <2>8 DEF HubInv
<1>2. ASSUME conn[c] = "open", shown' = [shown EXCEPT ![c] = @ \cup req[h].snapshot],
             Becomes(h, Sent(h, {}))
      PROVE  HubInv'
  <2>1. shown' \in [Clients -> SUBSET Entry] /\ shown'[c] = shown[c] \cup req[h].snapshot
        /\ \A v \in Clients : shown[v] \subseteq shown'[v]
    BY <1>a, <1>2, <1>c DEF TypeOK
  <2>2. HasWrite(shown'[c], req[h].node, req[h].ver)
    BY <1>c, <2>1 DEF HasWrite
  <2> QED BY <1>1, <1>2, <2>1, <2>2
<1>3. ASSUME NEW raised \in SUBSET {c}, IsDown(c), Becomes(h, Sent(h, raised)), UNCHANGED shown
      PROVE  HubInv'
  <2>1. shown' \in [Clients -> SUBSET Entry] /\ \A v \in Clients : shown[v] \subseteq shown'[v]
    BY <1>a, <1>3 DEF TypeOK
  <2>2. raised \in SUBSET Clients /\ \A v \in raised : IsDown(v)
    BY <1>3
  <2> QED BY <1>1, <1>3, <2>1, <2>2
<1>4. \/ conn[c] = "open" /\ shown' = [shown EXCEPT ![c] = @ \cup req[h].snapshot]
         /\ Becomes(h, Sent(h, {}))
      \/ IsDown(c) /\ Becomes(h, Sent(h, {})) /\ UNCHANGED shown
      \/ IsDown(c) /\ Becomes(h, Sent(h, {c})) /\ UNCHANGED shown
  BY <1>b DEF SendEnds, IsDown
<1> QED BY <1>2, <1>3, <1>4

LEMMA SetChangedKeeps == ASSUME HubInv, NEW h \in Handlers, SetChanged(h) PROVE HubInv'
BY FinishKeeps DEF SetChanged

----------------------------------------------------------------------------
(* The steps of the dashboards and of Redis. *)

\* A step that moves no request and leaves each what it relies on.
LEMMA RequestsKept ==
    ASSUME HubInv, UNCHANGED <<writes, stored, req>>,
           \A h \in Handlers : \A c \in req[h].visited \cup req[h].dead :
                IsDown(c) => IsDown(c)',
           \A c \in Clients : shown[c] \subseteq shown'[c] \/ IsDown(c)'
    PROVE  \A h \in Handlers : RequestOK(req[h])'
<1> SUFFICES ASSUME NEW h \in Handlers PROVE RequestOK(req[h])'
  OBVIOUS
<1>a. TypeOK /\ stored' \in [Nodes -> Versions]
  BY DEF HubInv, TypeOK
<1>1. PICK r \in Request : r = req[h]
  BY DEF HubInv, TypeOK
<1>2. RequestOK(r) /\ r.visited \subseteq Clients
  BY <1>1 DEF HubInv, Request
<1>3. ~Reading(r) \/ stored'[r.node] >= stored[r.node]
  BY <1>a, <1>2 DEF RequestOK, Underway, Reading, TypeOK, Versions
<1>4. RequestOK(r)'
  BY <1>a, <1>1, <1>2, <1>3, RequestKept
<1> QED BY <1>1, <1>4

LEMMA ConnectKeeps == ASSUME HubInv, NEW c \in Clients, Connect(c) PROVE HubInv'
<1>a. /\ TypeOK
      /\ conn' = [conn EXCEPT ![c] = "open"] /\ clients' = clients \cup {c}
      /\ UNCHANGED <<writes, stored, req, shown>>
  BY DEF HubInv, Connect
<1>1. conn'[c] = "open" /\ \A d \in Clients \ {c} : conn'[d] = conn[d]
  BY <1>a DEF TypeOK
<1>2. \A h \in Handlers : \A d \in req[h].visited \cup req[h].dead : d \in Clients \ {c}
  BY <1>a DEF TypeOK, Request, Connect, Referenced
<1>3. \A h \in Handlers : RequestOK(req[h])'
  <2>1. \A h \in Handlers : \A d \in req[h].visited \cup req[h].dead :
           IsDown(d) => IsDown(d)'
    BY <1>1, <1>2 DEF IsDown
  <2>2. \A d \in Clients : shown[d] \subseteq shown'[d]
    BY <1>a
  <2> QED BY <1>a, <2>1, <2>2, RequestsKept
<1>4. TypeOK'
  BY <1>a DEF TypeOK
<1>5. /\ \A d \in Clients : conn'[d] \in {"open", "stalled"} => d \in clients'
      /\ \A d \in clients' : conn'[d] # "away"
  BY <1>a, <1>1 DEF HubInv, TypeOK
<1> QED BY <1>a, <1>3, <1>4, <1>5 DEF HubInv

LEMMA LinkKeeps == ASSUME HubInv, NEW c \in Clients, Link(c) PROVE HubInv'
<1>a. TypeOK /\ UNCHANGED <<writes, stored, req, clients, shown>>
  BY DEF HubInv, Link
<1>b. PICK s \in {"open", "stalled", "broken"} : conn' = [conn EXCEPT ![c] = s]
  BY DEF Link
<1>c. conn[c] \in {"open", "stalled"}
  BY DEF Link
<1>1. conn'[c] = s /\ \A d \in Clients \ {c} : conn'[d] = conn[d]
  BY <1>a, <1>b DEF TypeOK
<1>2. \A d \in Clients : IsDown(d) => IsDown(d)'
  BY <1>c, <1>1 DEF IsDown
<1>3. \A h \in Handlers : RequestOK(req[h])'
  <2>1. \A h \in Handlers : \A d \in req[h].visited \cup req[h].dead : d \in Clients
    BY <1>a DEF TypeOK, Request
  <2>2. \A d \in Clients : shown[d] \subseteq shown'[d]
    BY <1>a
  <2> QED BY <1>a, <1>2, <2>1, <2>2, RequestsKept
<1>4. TypeOK'
  BY <1>a, <1>b DEF TypeOK
<1>5. /\ \A d \in Clients : conn'[d] \in {"open", "stalled"} => d \in clients'
      /\ \A d \in clients' : conn'[d] # "away"
  BY <1>a, <1>c, <1>1 DEF HubInv, TypeOK
<1> QED BY <1>a, <1>3, <1>4, <1>5 DEF HubInv

\* The entries shown on a connection go with it.
LEMMA DisconnectKeeps == ASSUME HubInv, NEW c \in Clients, Disconnect(c) PROVE HubInv'
<1>a. /\ TypeOK /\ clients' = clients \ {c}
      /\ conn' = [conn EXCEPT ![c] = "away"] /\ shown' = [shown EXCEPT ![c] = {}]
      /\ UNCHANGED <<writes, stored, req>>
  BY DEF HubInv, Disconnect
<1>1. conn'[c] = "away" /\ \A d \in Clients \ {c} : conn'[d] = conn[d]
  BY <1>a DEF TypeOK
<1>2. \A d \in Clients : IsDown(d) => IsDown(d)'
  BY <1>1 DEF IsDown
<1>3. \A d \in Clients : shown[d] \subseteq shown'[d] \/ IsDown(d)'
  BY <1>a, <1>1 DEF TypeOK, IsDown
<1>4. \A h \in Handlers : RequestOK(req[h])'
  <2>1. \A h \in Handlers : \A d \in req[h].visited \cup req[h].dead : d \in Clients
    BY <1>a DEF TypeOK, Request
  <2> QED BY <1>a, <1>2, <1>3, <2>1, RequestsKept
<1>5. TypeOK'
  BY <1>a DEF TypeOK
<1>6. /\ \A d \in Clients : conn'[d] \in {"open", "stalled"} => d \in clients'
      /\ \A d \in clients' : conn'[d] # "away"
  BY <1>a, <1>1 DEF HubInv, TypeOK
<1> QED BY <1>a, <1>4, <1>5, <1>6 DEF HubInv

\* The key of a node goes, which no request in progress has written.
LEMMA EvictKeeps == ASSUME HubInv, NEW n \in Nodes, Evict(n) PROVE HubInv'
<1>a. /\ TypeOK /\ stored' = [stored EXCEPT ![n] = 0]
      /\ UNCHANGED <<writes, clients, conn, shown>>
  BY DEF HubInv, Evict
<1>b. req' = [h \in Handlers |-> AfterEvict(req[h], n)]
  BY DEF Evict, AfterEvict
<1>1. /\ stored' \in [Nodes -> Versions] /\ stored'[n] = 0
      /\ \A m \in Nodes \ {n} : stored'[m] = stored[m]
  BY <1>a, TopologyHubAssumption DEF TypeOK, Versions
<1>2. ASSUME NEW h \in Handlers PROVE req'[h] \in Request /\ RequestOK(req[h])'
  <2>1. PICK q \in Request : q = req[h]
    BY <1>a DEF TypeOK
  <2>2. PICK r : r = AfterEvict(q, n)
    OBVIOUS
  <2>3. /\ r \in Request
        /\ r.pc = q.pc /\ r.must = q.must \ {n} /\ r.page = q.page
        /\ r.keys = q.keys /\ r.target = q.target
        /\ r.node = q.node /\ r.ver = q.ver /\ r.snapshot = q.snapshot
        /\ r.visited = q.visited /\ r.dead = q.dead
    BY <2>2, EvictRecord
  <2>4. RequestOK(q) /\ (Reading(q) => q.node # n)
    BY <2>1 DEF HubInv, Evict
  <2>5. RequestOK(r)
    <3>1. Underway(r) /\ Placed(r)
      BY <2>3, <2>4 DEF RequestOK, Underway, Reading, Placed
    <3>2. Carried(r)
      BY <2>3, <2>4 DEF RequestOK, Carried, Reading
    <3>3. Reached(r)
      BY <2>3, <2>4 DEF RequestOK, Reached
    <3> QED BY <3>1, <3>2, <3>3 DEF RequestOK
  <2>6. ~Reading(r) \/ stored'[r.node] >= stored[r.node]
    <3>1. Reading(r) => r.node \in Nodes \ {n}
      BY <2>3, <2>4, <2>5 DEF RequestOK, Underway, Reading
    <3>2. Reading(r) => stored[r.node] \in Int
      BY <1>a, <3>1 DEF TypeOK, Versions
    <3> QED BY <1>1, <3>1, <3>2
  <2>7. \A c \in r.visited \cup r.dead : IsDown(c) => IsDown(c)'
    BY <1>a DEF IsDown
  <2>8. \A c \in r.visited : shown[c] \subseteq shown'[c]
    BY <1>a
  <2>9. RequestOK(r)'
    BY <1>a, <1>1, <2>3, <2>5, <2>6, <2>7, <2>8, RequestKept
  <2> QED BY <1>b, <2>1, <2>2, <2>3, <2>9
<1>3. \A m \in Nodes : stored'[m] <= writes'
  BY <1>a, <1>1 DEF HubInv, TypeOK, Versions
<1>4. TypeOK'
  <2>1. req' \in [Handlers -> Request]
    BY <1>b, <1>2
  <2> QED BY <1>a, <1>1, <2>1 DEF TypeOK
<1> QED BY <1>a, <1>2, <1>3, <1>4 DEF HubInv

LEMMA StutterKeeps == ASSUME HubInv, UNCHANGED vars PROVE HubInv'
<1>1. TypeOK' /\ \A n \in Nodes : stored'[n] <= writes'
  BY DEF HubInv, TypeOK, vars
<1>2. \A h \in Handlers : RequestOK(req[h])'
  <2>1. \A h \in Handlers : \A c \in req[h].visited \cup req[h].dead :
           IsDown(c) => IsDown(c)'
    BY DEF vars, IsDown
  <2>2. \A c \in Clients : shown[c] \subseteq shown'[c]
    BY DEF vars
  <2> QED BY <2>1, <2>2, RequestsKept DEF vars
<1> QED BY <1>1, <1>2 DEF HubInv, vars

LEMMA NextHub == HubInv /\ [Next]_vars => HubInv'
<1> SUFFICES ASSUME HubInv, [Next]_vars PROVE HubInv'
  OBVIOUS
<1>1. ASSUME NEW h \in Handlers, NEW n \in Nodes, Save(h, n) PROVE HubInv'
  BY <1>1, SaveKeeps
<1>2. ASSUME NEW h \in Handlers, Broadcast(h) PROVE HubInv'
  BY <1>2, StartScanKeeps, ScanKeeps, MgetKeeps, StartLoopKeeps, SendEndsKeeps,
     AdvanceKeeps, SetChangedKeeps DEF Broadcast
<1>3. ASSUME NEW c \in Clients, Connect(c) \/ Link(c) \/ Disconnect(c) PROVE HubInv'
  BY <1>3, ConnectKeeps, LinkKeeps, DisconnectKeeps
<1>4. ASSUME NEW n \in Nodes, Evict(n) PROVE HubInv'
  BY <1>4, EvictKeeps
<1>5. ASSUME UNCHANGED vars PROVE HubInv'
  BY <1>5, StutterKeeps
<1> QED BY <1>1, <1>2, <1>3, <1>4, <1>5 DEF Next

----------------------------------------------------------------------------
(* A request that ends. *)

\* A step gives its request these local variables and leaves the others.
LEMMA NotIdleAfter ==
    ASSUME HubInv, NEW h \in Handlers, NEW r, r.pc # "idle", Becomes(h, r)
    PROVE  req'[h].pc # "idle"
BY DEF HubInv, TypeOK, Becomes

\* The loop has ended over the set it began with, so each dashboard in it
\* was reached.
LEMMA EndOfLoop ==
    ASSUME HubInv, NEW h \in Handlers, req[h].pc = "sent", clients \subseteq req[h].visited,
           NEW c \in clients
    PROVE  conn[c] = "broken" \/ Shows(shown[c], h)
<1>1. RequestOK(req[h]) /\ conn[c] # "away" /\ c \in req[h].visited
  BY DEF HubInv
<1>2. IsDown(c) \/ HasWrite(shown[c], req[h].node, req[h].ver)
  BY <1>1 DEF RequestOK, Reached
<1> QED BY <1>1, <1>2 DEF IsDown, HasWrite, Shows

LEMMA EndPushes ==
    ASSUME HubInv, NEW h \in Handlers, Broadcast(h),
           req'[h].pc = "idle", req[h].members = clients, NEW c \in clients
    PROVE  conn[c] = "broken" \/ Shows(shown[c], h)
<1>a. req[h] \in Request
  BY DEF HubInv, TypeOK
<1>1. CASE StartScan(h)
  <2>1. AfterStart(req[h], Present).pc # "idle" /\ Present \in SUBSET Nodes
    BY <1>a, StartRecord DEF Present
  <2>2. ~Becomes(h, AfterStart(req[h], Present))
    BY <2>1, NotIdleAfter
  <2> QED BY <1>1, <2>2 DEF StartScan, AfterStart
<1>2. CASE Scan(h)
  <2>1. PICK page, found, next :
          /\ next = IF found = {} THEN AfterPage(page) ELSE "mget"
          /\ Becomes(h, AfterScan(req[h], next, page, found))
    BY <1>2 DEF Scan, AfterScan
  <2>2. next # "idle"
    BY <2>1 DEF AfterPage
  <2>3. AfterScan(req[h], next, page, found).pc = next
    BY <1>a DEF AfterScan, Request
  <2> QED BY <2>1, <2>2, <2>3, NotIdleAfter
<1>3. CASE Mget(h)
  <2>1. PICK next, entries :
          next = AfterPage(req[h].page) /\ Becomes(h, AfterMget(req[h], next, entries))
    BY <1>3 DEF Mget, AfterMget
  <2>2. next # "idle"
    BY <2>1 DEF AfterPage
  <2>3. AfterMget(req[h], next, entries).pc = next
    BY <1>a DEF AfterMget, Request
  <2> QED BY <2>1, <2>2, <2>3, NotIdleAfter
<1>v. ASSUME NEW d \in Clients, NEW members \in SUBSET Clients, Visit(h, d, members)
      PROVE  FALSE
  <2>1. AfterVisit(req[h], d, members).pc # "idle"
    BY <1>a, VisitRecord
  <2> QED BY <1>v, <2>1, NotIdleAfter DEF Visit, AfterVisit
<1>b. clients \in SUBSET Clients /\ req[h].members \in SUBSET Clients
  BY <1>a DEF HubInv, TypeOK, Request
<1>4. CASE StartLoop(h)
  BY <1>4, <1>v, <1>b DEF StartLoop
<1>5. CASE SendEnds(h)
  <2>1. ASSUME NEW raised \in SUBSET Clients, Becomes(h, Sent(h, raised)) PROVE FALSE
    <3>1. AfterSent(req[h], raised).pc # "idle"
      BY <1>a, SentRecord
    <3> QED BY <2>1, <3>1, NotIdleAfter DEF Sent, AfterSent
  <2>2. req[h].target \in Clients
    BY <1>5 DEF HubInv, RequestOK, Placed, SendEnds
  <2> QED BY <1>5, <2>1, <2>2 DEF SendEnds
<1>6. CASE Advance(h)
  <2>1. req[h].pc = "sent" /\ clients \subseteq req[h].visited
    BY <1>6, <1>v, <1>b DEF Advance
  <2> QED BY <2>1, EndOfLoop
<1>7. CASE SetChanged(h)
  BY <1>7 DEF SetChanged, SameSize
<1> QED BY <1>1, <1>2, <1>3, <1>4, <1>5, <1>6, <1>7 DEF Broadcast

LEMMA OnlyItsOwnStepEnds ==
    ASSUME HubInv, NEW h \in Handlers, req[h].pc # "idle", req'[h].pc = "idle", Next
    PROVE  Broadcast(h)
<1>a. req \in [Handlers -> Request]
  BY DEF HubInv, TypeOK
<1>1. ASSUME NEW g \in Handlers, NEW n \in Nodes, Save(g, n) PROVE FALSE
  <2>1. PICK r : r.pc = "saved" /\ Becomes(g, r)
    BY <1>1 DEF Save, Idle
  <2>2. req'[g].pc = "saved" /\ \A k \in Handlers \ {g} : req'[k] = req[k]
    BY <1>a, <2>1 DEF Becomes
  <2> QED BY <2>2
<1>2. ASSUME NEW g \in Handlers \ {h}, Broadcast(g) PROVE FALSE
  <2>1. ASSUME NEW r, Becomes(g, r) PROVE FALSE
    BY <1>a, <2>1 DEF Becomes
  <2> QED BY <1>2, <2>1 DEF Broadcast, StartScan, Scan, Mget, StartLoop, SendEnds,
              Advance, SetChanged, Visit, Answer, Finish
<1>3. ASSUME NEW c \in Clients, Connect(c) \/ Link(c) \/ Disconnect(c) PROVE FALSE
  BY <1>3 DEF Connect, Link, Disconnect
<1>4. ASSUME NEW n \in Nodes, Evict(n) PROVE FALSE
  <2>1. req'[h] = AfterEvict(req[h], n)
    BY <1>4 DEF Evict, AfterEvict
  <2>2. req'[h].pc = req[h].pc
    BY <1>a, <2>1, EvictRecord
  <2> QED BY <2>2
<1> QED BY <1>1, <1>2, <1>3, <1>4 DEF Next

----------------------------------------------------------------------------
(* The theorems. *)

LEMMA HubAlways == Spec => []HubInv
BY InitHub, NextHub, PTL DEF Spec

\* Type correctness of the hub: the invariant TypeOK of the runs, whatever
\* the dashboards do while a broadcast awaits.
THEOREM TypeCorrect == Spec => []TypeOK
<1>1. HubInv => TypeOK
  BY DEF HubInv
<1> QED BY <1>1, HubAlways, PTL

\* No dashboard whose connection works falls out of _ws_clients, whichever
\* broadcasts found others dead or ended half way.
THEOREM LiveDashboardRegistered == Spec => []LiveClientRegistered
<1>1. HubInv => LiveClientRegistered
  BY DEF HubInv, LiveClientRegistered
<1> QED BY <1>1, HubAlways, PTL

\* A request whose loop ends over the set it began with has brought each
\* dashboard its own write or a newer one of the node, for any number of
\* SCAN pages, requests and dashboards.
THEOREM AnsweredReachedAll == Spec => AnsweredIsPushed
<1> DEFINE Pushed == \A h \in Handlers :
          (req[h].pc # "idle" /\ req'[h].pc = "idle" /\ req[h].members = clients)
            => \A c \in clients : conn[c] = "broken" \/ Shows(shown[c], h)
<1>1. HubInv /\ [Next]_vars => [Pushed]_vars
  <2> SUFFICES ASSUME HubInv, Next PROVE Pushed
    BY DEF vars
  <2> QED BY EndPushes, OnlyItsOwnStepEnds
<1> QED BY <1>1, HubAlways, PTL DEF Spec, AnsweredIsPushed

==============================================================================
