------------------------ MODULE DashboardSocketProofs ------------------------
(***************************************************************************)
(* Proofs about DashboardSocket, for any number of sockets: the types, the *)
(* one lifeline of a mounted hook, and that a connection it shows is there.*)
(***************************************************************************)
EXTENDS DashboardSocket, FiniteSetTheorems, TLAPS

Lifelines == Cardinality(Alive) + timers

\* How many lifelines each phase may have.  A hook that is gone keeps those
\* it had, for onclose arms its timer all the same.
LifelinesOK ==
    /\ phase = "fresh" => Lifelines = 0
    /\ phase = "mounted" => Lifelines \in 1 .. (IF strict THEN 2 ELSE 1)
    /\ Lifelines <= 2

HookInv ==
    /\ TypeOK
    /\ LifelinesOK
    /\ timerRef => timers > 0
    /\ phase = "fresh" => ~connected
    /\ (phase = "mounted" /\ ~strict) => Alive \subseteq {wsRef}
    /\ ConnectedIsOpen

----------------------------------------------------------------------------
(* The sockets in use. *)

\* The sockets in use are counted.
LEMMA AliveFinite == IsFiniteSet(Alive) /\ Cardinality(Alive) \in Nat
<1>1. IsFiniteSet(Alive)
  BY DashboardSocketAssumption, FS_Subset DEF Alive
<1> QED BY <1>1, FS_CardinalityType

LEMMA NoneAlive == Cardinality(Alive) = 0 <=> Alive = {}
BY AliveFinite, FS_EmptySet

LEMMA AliveGrows ==
    ASSUME TypeOK, NEW s \in Sockets \ Alive, NEW v \in {"connecting", "open", "closing"},
           ready' = [ready EXCEPT ![s] = v]
    PROVE  Alive' = Alive \cup {s} /\ Cardinality(Alive') = Cardinality(Alive) + 1
<1>1. Alive' = Alive \cup {s}
  BY DEF Alive, TypeOK
<1> QED BY <1>1, AliveFinite, FS_AddElement

LEMMA AliveShrinks ==
    ASSUME TypeOK, NEW s \in Alive, ready' = [ready EXCEPT ![s] = "none"]
    PROVE  Alive' = Alive \ {s} /\ Cardinality(Alive') = Cardinality(Alive) - 1
<1>1. Alive' = Alive \ {s}
  BY DEF Alive, TypeOK
<1> QED BY <1>1, AliveFinite, FS_RemoveElement

LEMMA AliveSame ==
    ASSUME \A s \in Sockets : ready'[s] = "none" <=> ready[s] = "none"
    PROVE  Alive' = Alive
BY DEF Alive

\* The sockets that are OPEN do not change.
SameOpen == \A s \in Sockets : ready'[s] = "open" <=> ready[s] = "open"

\* A push is under way on an open socket only.
PushedOnOpen ==
    /\ pushed \in [Sockets -> SUBSET Snapshots]
    /\ \A s \in Sockets : ready[s] # "open" => pushed[s] = {}

\* connect() opens a socket unless the latest one is open.
LEMMA ConnectOpens ==
    ASSUME TypeOK, Connect
    PROVE  /\ ready' \in [Sockets -> {"none", "connecting", "open", "closing"}]
           /\ wsRef' \in Sockets \cup {None}
           /\ SameOpen
           /\ \/ /\ IsOpen(wsRef) /\ wsRef \in Alive
                 /\ UNCHANGED <<ready, wsRef>> /\ Alive' = Alive
              \/ /\ ~IsOpen(wsRef) /\ wsRef' \in Sockets
                 /\ Alive' = Alive \cup {wsRef'}
                 /\ Cardinality(Alive') = Cardinality(Alive) + 1
<1>1. CASE IsOpen(wsRef)
  BY <1>1 DEF Connect, IsOpen, Alive, SameOpen, TypeOK
<1>2. CASE ~IsOpen(wsRef)
  <2>1. PICK s \in Sockets \ Alive :
          ready' = [ready EXCEPT ![s] = "connecting"] /\ wsRef' = s
    BY <1>2 DEF Connect
  <2>2. Alive' = Alive \cup {s} /\ Cardinality(Alive') = Cardinality(Alive) + 1
    BY <2>1, AliveGrows
  <2>3. SameOpen
    BY <2>1 DEF SameOpen, Alive, TypeOK
  <2>4. ready' \in [Sockets -> {"none", "connecting", "open", "closing"}]
    BY <2>1 DEF TypeOK
  <2> QED BY <1>2, <2>1, <2>2, <2>3, <2>4
<1> QED BY <1>1, <1>2

----------------------------------------------------------------------------
LEMMA InitHook == Init => HookInv
<1> SUFFICES ASSUME Init PROVE HookInv
  OBVIOUS
<1>1. Alive = {}
  BY DEF Init, Alive
<1>2. Lifelines = 0
  BY <1>1, NoneAlive DEF Init, Lifelines
<1>3. TypeOK
  <2>1. timers \in 0 .. 2
    BY DEF Init
  <2> QED BY <2>1 DEF Init, TypeOK
<1> QED BY <1>1, <1>2, <1>3 DEF Init, HookInv, LifelinesOK, ConnectedIsOpen

\* The effects run.
LEMMA MountKeeps == ASSUME HookInv, Mount \/ MountTwice PROVE HookInv'
<1>a. /\ TypeOK /\ phase = "fresh" /\ Alive = {} /\ timers = 0 /\ ~connected
      /\ \A s \in Sockets : pushed[s] = {}
  <2>1. TypeOK /\ phase = "fresh" /\ Lifelines = 0 /\ ~connected
    BY DEF HookInv, LifelinesOK, Mount, MountTwice
  <2>2. timers = 0 /\ Cardinality(Alive) = 0
    BY <2>1, AliveFinite DEF Lifelines, TypeOK
  <2> QED BY <2>1, <2>2, NoneAlive DEF TypeOK, Alive
<1>b. /\ phase' = "mounted" /\ UNCHANGED <<strict, timers, timerRef, connected, pushed, latest>>
      /\ fetches' \in [Mounts -> {"none", "sent", "latest", "old"}]
  BY <1>a DEF Mount, MountTwice, TypeOK, Mounts
<1>1. CASE Mount
  <2>1. ~strict /\ Connect /\ ~IsOpen(wsRef)
    BY <1>1, <1>a DEF Mount, IsOpen, Alive
  <2>2. /\ ready' \in [Sockets -> {"none", "connecting", "open", "closing"}]
        /\ wsRef' \in Sockets /\ Alive' = {wsRef'}
        /\ Cardinality(Alive') = 1
    <3>1. Cardinality(Alive) = 0
      BY <1>a, NoneAlive
    <3> QED BY <1>a, <2>1, <3>1, ConnectOpens
  <2>3. TypeOK'
    BY <1>a, <1>b, <2>2 DEF TypeOK
  <2>4. Lifelines' = 1
    BY <1>a, <1>b, <2>2 DEF Lifelines
  <2> QED BY <1>a, <1>b, <2>1, <2>2, <2>3, <2>4 DEF HookInv, LifelinesOK, ConnectedIsOpen
<1>2. CASE MountTwice
  <2>1. PICK s \in Sockets, t \in Sockets :
          /\ s # t
          /\ ready' = [ready EXCEPT ![s] = "closing", ![t] = "connecting"]
          /\ wsRef' = t
    BY <1>2 DEF MountTwice
  <2>2. Alive' = {s, t}
    BY <1>a, <2>1 DEF Alive, TypeOK
  <2>3. Cardinality({s, t}) = 2
    <3>1. IsFiniteSet({s}) /\ Cardinality({s}) = 1
      BY FS_Singleton
    <3>2. {s, t} = {s} \cup {t} /\ t \notin {s}
      BY <2>1
    <3> QED BY <3>1, <3>2, FS_AddElement
  <2>4. Lifelines' = 2
    BY <1>a, <1>b, <2>2, <2>3 DEF Lifelines
  <2>5. TypeOK'
    BY <1>a, <1>b, <2>1 DEF TypeOK
  <2>6. strict'
    BY <1>2, <1>b DEF MountTwice
  <2> QED BY <1>a, <1>b, <2>4, <2>5, <2>6 DEF HookInv, LifelinesOK, ConnectedIsOpen
<1> QED BY <1>1, <1>2

\* The cleanup of the effects: the latest socket is told to close.
LEMMA UnmountKeeps == ASSUME HookInv, Unmount PROVE HookInv'
<1>a. /\ TypeOK /\ Lifelines <= 2 /\ phase = "mounted" /\ phase' = "gone"
      /\ timerRef => timers > 0
  BY DEF HookInv, LifelinesOK, Unmount
<1>b. /\ UNCHANGED <<strict, wsRef, connected, fetches, latest>> /\ timerRef' = FALSE
      /\ pushed' = [s \in Sockets |-> IF s = wsRef THEN {} ELSE pushed[s]]
      /\ ready' = [s \in Sockets |->
                     IF s = wsRef /\ s \in Alive THEN "closing" ELSE ready[s]]
  BY DEF Unmount
<1>1. Alive' = Alive
  BY <1>a, <1>b, AliveSame DEF Alive
<1>2. timers' \in 0 .. 2 /\ timers' <= timers
  BY <1>a DEF Unmount, ClearTimer, TypeOK
<1>3. Lifelines' <= 2
  BY <1>1, <1>2, <1>a, AliveFinite DEF Lifelines, TypeOK
<1>4. ready' \in [Sockets -> {"none", "connecting", "open", "closing"}]
  BY <1>a, <1>b DEF TypeOK
<1>5. PushedOnOpen'
  BY <1>a, <1>b DEF TypeOK, PushedOnOpen
<1>6. TypeOK'
  BY <1>a, <1>b, <1>2, <1>4, <1>5 DEF TypeOK, PushedOnOpen
<1> QED BY <1>a, <1>b, <1>3, <1>6 DEF HookInv, LifelinesOK, ConnectedIsOpen

\* A socket opens, or fails.
LEMMA SocketKeeps ==
    ASSUME HookInv, NEW s \in Sockets, Opened(s) \/ Fails(s)
    PROVE  HookInv'
<1>a. /\ TypeOK /\ LifelinesOK /\ s \in Alive
      /\ UNCHANGED <<strict, phase, wsRef, timers, timerRef, fetches, latest>>
  BY DEF HookInv, Opened, Fails, Alive, life, data
<1>b. \E v \in {"open", "closing"} : ready' = [ready EXCEPT ![s] = v]
  BY DEF Opened, Fails
<1>1. Alive' = Alive
  BY <1>a, <1>b DEF Alive, TypeOK
<1>2. Lifelines' = Lifelines /\ LifelinesOK'
  BY <1>1, <1>a DEF Lifelines, LifelinesOK
<1>3. phase # "fresh"
  BY <1>a, NoneAlive, AliveFinite DEF LifelinesOK, Lifelines, TypeOK
<1>4. PushedOnOpen'
  BY <1>a DEF Opened, Fails, TypeOK, PushedOnOpen, data
<1>5. connected' \in BOOLEAN
  <2>1. connected \in BOOLEAN /\ connected' \in {connected, TRUE}
    BY <1>a DEF Opened, Fails, TypeOK
  <2> QED BY <2>1
<1>6. TypeOK'
  BY <1>a, <1>b, <1>4, <1>5 DEF TypeOK, PushedOnOpen
<1>7. (phase = "mounted" /\ ~strict) => Alive' \subseteq {wsRef'}
  BY <1>a, <1>1 DEF HookInv
<1>8. ConnectedIsOpen'
  <2> SUFFICES ASSUME phase = "mounted", ~strict, connected'
               PROVE  wsRef \in Alive /\ ready'[wsRef] # "connecting"
    BY <1>1, <1>a DEF ConnectedIsOpen
  <2>1. s = wsRef
    BY <1>7, <1>a, <1>1
  <2> QED BY <1>a, <1>b, <2>1 DEF TypeOK
<1> QED BY <1>2, <1>3, <1>6, <1>7, <1>8, <1>a DEF HookInv

\* onclose: the lifeline goes from the socket to a timer.
LEMMA ClosedKeeps == ASSUME HookInv, NEW s \in Sockets, Closed(s) PROVE HookInv'
<1>a. /\ TypeOK /\ LifelinesOK /\ s \in Alive /\ ready[s] = "closing"
      /\ UNCHANGED <<strict, phase, wsRef, fetches, pushed, latest>>
      /\ ready' = [ready EXCEPT ![s] = "none"]
      /\ timers' = timers + 1 /\ timerRef' = TRUE /\ connected' = FALSE
  BY DEF HookInv, Closed, Alive, life, data
<1>1. Alive' = Alive \ {s} /\ Cardinality(Alive') = Cardinality(Alive) - 1
  BY <1>a, AliveShrinks
<1>2. Lifelines' = Lifelines
  BY <1>1, <1>a, AliveFinite DEF Lifelines, TypeOK
<1>3. LifelinesOK'
  BY <1>2, <1>a DEF LifelinesOK
<1>4. timers' \in 0 .. 2 /\ timers' > 0
  <2>1. Cardinality(Alive) \in Nat /\ Cardinality(Alive) # 0
    BY <1>a, AliveFinite, NoneAlive
  <2>2. Cardinality(Alive) + timers <= 2
    BY <1>a DEF LifelinesOK, Lifelines
  <2>3. timers \in 0 .. 2
    BY <1>a DEF TypeOK
  <2> QED BY <1>a, <2>1, <2>2, <2>3
<1>5. PushedOnOpen'
  BY <1>a DEF TypeOK, PushedOnOpen
<1>6. TypeOK'
  BY <1>a, <1>4, <1>5 DEF TypeOK, PushedOnOpen
<1>7. (phase = "mounted" /\ ~strict) => Alive' \subseteq {wsRef'}
  BY <1>a, <1>1 DEF HookInv
<1> QED BY <1>3, <1>4, <1>6, <1>7, <1>a DEF HookInv, ConnectedIsOpen

\* A timer fires: its lifeline becomes a socket, or ends because the latest
\* socket is open.
LEMMA TimerKeeps == ASSUME HookInv, TimerFires PROVE HookInv'
<1>a. /\ TypeOK /\ LifelinesOK /\ timers > 0 /\ Connect
      /\ UNCHANGED <<strict, phase, connected, fetches, pushed, latest>>
      /\ timers' = timers - 1 /\ timerRef' = (timerRef /\ timers > 1)
  BY DEF HookInv, TimerFires, life, data
<1>1. /\ ready' \in [Sockets -> {"none", "connecting", "open", "closing"}]
      /\ wsRef' \in Sockets \cup {None}
      /\ SameOpen
      /\ \/ /\ IsOpen(wsRef) /\ wsRef \in Alive
            /\ UNCHANGED <<ready, wsRef>> /\ Alive' = Alive
         \/ /\ ~IsOpen(wsRef) /\ wsRef' \in Sockets
            /\ Alive' = Alive \cup {wsRef'}
            /\ Cardinality(Alive') = Cardinality(Alive) + 1
  BY <1>a, ConnectOpens
<1>2. timers' \in 0 .. 2 /\ timerRef' \in BOOLEAN /\ (timerRef' => timers' > 0)
  <2>1. timers \in 0 .. 2
    BY <1>a DEF TypeOK
  <2>2. timerRef' \in BOOLEAN /\ (timerRef' => timers > 1)
    BY <1>a
  <2> QED BY <1>a, <2>1, <2>2
<1>3. phase # "fresh"
  BY <1>a, AliveFinite DEF LifelinesOK, Lifelines, TypeOK
<1>4. Lifelines' \in 0 .. Lifelines /\ Lifelines' >= 1
  <2>1. CASE Alive' = Alive /\ wsRef \in Alive
    <3>1. Cardinality(Alive) \in Nat /\ Cardinality(Alive) # 0
      BY <2>1, AliveFinite, NoneAlive
    <3> QED BY <1>a, <2>1, <3>1 DEF Lifelines, TypeOK
  <2>2. CASE Cardinality(Alive') = Cardinality(Alive) + 1
    BY <1>a, <2>2, AliveFinite DEF Lifelines, TypeOK
  <2> QED BY <1>1, <2>1, <2>2
<1>5. LifelinesOK'
  <2>1. Lifelines \in Int
    BY <1>a, AliveFinite DEF Lifelines, TypeOK
  <2> QED BY <1>3, <1>4, <1>a, <2>1 DEF LifelinesOK
<1>6. TypeOK'
  BY <1>1, <1>2, <1>a DEF TypeOK, SameOpen
<1>7. ASSUME phase = "mounted", ~strict PROVE Alive = {}
  BY <1>7, <1>a, AliveFinite, NoneAlive DEF LifelinesOK, Lifelines, TypeOK
<1>8. (phase = "mounted" /\ ~strict) => Alive' \subseteq {wsRef'} /\ ~connected
  BY <1>1, <1>7 DEF HookInv, ConnectedIsOpen
<1> QED BY <1>2, <1>3, <1>5, <1>6, <1>8, <1>a DEF HookInv, ConnectedIsOpen

\* What only concerns the topology leaves the sockets alone.
LEMMA DataKeeps ==
    ASSUME HookInv,
           \/ Update
           \/ (\E s \in Sockets : Push(s) \/ \E snapshot \in Snapshots : HubSends(s, snapshot))
           \/ (\E m \in Mounts : FetchStep(m)) \/ UNCHANGED vars
    PROVE  HookInv'
<1>a. TypeOK /\ UNCHANGED <<strict, phase, ready, wsRef, timers, timerRef, connected>>
  BY DEF HookInv, Update, HubSends, Push, FetchStep, life, socket, vars
<1>1. fetches' \in [Mounts -> {"none", "sent", "latest", "old"}]
  BY <1>a DEF Update, HubSends, Push, FetchStep, TypeOK, vars, data
<1>2. latest' \in BOOLEAN
  BY <1>a DEF Update, HubSends, Push, FetchStep, TypeOK, vars, data
<1>3. PushedOnOpen'
  BY <1>a DEF Update, HubSends, Push, FetchStep, TypeOK, vars, data, Snapshots, PushedOnOpen
<1>4. TypeOK'
  BY <1>a, <1>1, <1>2, <1>3 DEF TypeOK, PushedOnOpen
<1>5. Alive' = Alive
  BY <1>a DEF Alive
<1> QED BY <1>4, <1>5, <1>a DEF HookInv, LifelinesOK, Lifelines, ConnectedIsOpen

LEMMA NextHook == HookInv /\ [Next]_vars => HookInv'
BY MountKeeps, UnmountKeeps, SocketKeeps, ClosedKeeps, TimerKeeps, DataKeeps
   DEF Next, Hook, Server

----------------------------------------------------------------------------
\* Every variable keeps its type: two timers are never exceeded, and a push
\* is under way only on an open socket.
THEOREM TypeCorrect == Spec => []TypeOK
<1>1. HookInv => TypeOK
  BY DEF HookInv
<1> QED BY <1>1, InitHook, NextHook, PTL DEF Spec

\* A mounted hook always has one thing that will bring the next topology,
\* and never a second one but the one StrictMode adds.
THEOREM AlwaysOneLifeline == Spec => []OneLifeline
<1>1. HookInv => OneLifeline
  BY DEF HookInv, LifelinesOK, OneLifeline, Lifelines
<1> QED BY <1>1, InitHook, NextHook, PTL DEF Spec

\* Outside StrictMode the connection the views show is there.
THEOREM ShownConnectionExists == Spec => []ConnectedIsOpen
<1>1. HookInv => ConnectedIsOpen
  BY DEF HookInv
<1> QED BY <1>1, InitHook, NextHook, PTL DEF Spec

=============================================================================
