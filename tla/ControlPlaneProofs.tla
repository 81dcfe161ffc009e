------------------------- MODULE ControlPlaneProofs -------------------------
(***************************************************************************)
(* Proofs about ControlPlane, for any number of nodes, samples and         *)
(* concurrent requests, any lifetimes of the keys that satisfy             *)
(* DedupOutlivesState, and with faults at every await.                     *)
(***************************************************************************)
EXTENDS ControlPlane, TLAPS

\* A request in progress has a sample.
BusyHasSample == \A h \in Handlers : pc[h] # "idle" => pkt[h] \in Packets

\* From writing the dedup key to writing the window, the key has lost
\* no more than the age of the request.
KeyIsFresh ==
    \A h \in Handlers : pc[h] \in {"history", "setNode", "push"} =>
        dedup[DedupKey(pkt[h])] + age[h] >= DedupTTL

\* The dedup key outlives the state it was written for.
KeyOutlivesState ==
    \A n \in Nodes : stateTTL[n] > 0 =>
        /\ state[n] \in Packets
        /\ dedup[DedupKey(state[n])] >= stateTTL[n]

TypeInv  == TypeOK /\ BusyHasSample
DedupInv == TypeInv /\ KeyIsFresh /\ KeyOutlivesState

\* Every sample has a dedup key.
LEMMA KeyOfSample == \A p \in Packets : DedupKey(p) \in DedupKeys /\ Origin(p) \in Nodes
BY ControlPlaneAssumption DEF DedupKeys

\* The window stays a sequence of samples.
LEMMA PushedIsWindow ==
    ASSUME NEW w \in Seq(Packets), NEW p \in Packets
    PROVE  Pushed(w, p) \in Seq(Packets)
<1> DEFINE len == IF Len(w) < WindowSize THEN Len(w) + 1 ELSE WindowSize
<1>1. Len(w) \in Nat /\ len \in Nat /\ len <= Len(w) + 1
  BY ControlPlaneAssumption
<1>2. \A i \in 1 .. len : i # 1 => w[i - 1] \in Packets
  <2> SUFFICES ASSUME NEW i \in 1 .. len, i # 1 PROVE w[i - 1] \in Packets
    OBVIOUS
  <2>1. i - 1 \in 1 .. Len(w)
    BY <1>1
  <2> QED BY <2>1
<1>3. Pushed(w, p) \in [1 .. len -> Packets]
  BY <1>1, <1>2 DEF Pushed
<1> QED BY <1>1, <1>3

LEMMA InitTypes == Init => TypeInv
BY ControlPlaneAssumption DEF Init, TypeInv, TypeOK, BusyHasSample, Steps

LEMMA NextTypes == TypeInv /\ [Next]_vars => TypeInv'
<1> SUFFICES ASSUME TypeInv, [Next]_vars PROVE TypeInv'
  OBVIOUS
<1> USE ControlPlaneAssumption DEF TypeInv, BusyHasSample, expiring, observed
<1>1. ASSUME NEW h \in Handlers, NEW p \in Packets, Arrive(h, p) PROVE TypeInv'
  BY <1>1 DEF Arrive, Goto, TypeOK, Steps
<1>2. ASSUME NEW h \in Handlers, DedupGet(h) PROVE TypeInv'
  BY <1>2 DEF DedupGet, Goto, TypeOK, Steps
<1>3. ASSUME NEW h \in Handlers, DupAnswer(h) PROVE TypeInv'
  BY <1>3 DEF DupAnswer, Finish, TypeOK, Steps
<1>4. ASSUME NEW h \in Handlers, DedupSet(h) PROVE TypeInv'
  <2>1. dedup' \in [DedupKeys -> 0 .. DedupTTL]
    <3>1. DedupTTL \in 0 .. DedupTTL
      OBVIOUS
    <3>2. dedup' = [dedup EXCEPT ![DedupKey(pkt[h])] = DedupTTL]
      BY <1>4 DEF DedupSet
    <3>3. dedup \in [DedupKeys -> 0 .. DedupTTL]
      BY DEF TypeOK
    <3> QED BY ONLY <3>1, <3>2, <3>3
  <2>2. pc' \in [Handlers -> Steps] /\ \A g \in Handlers : pc'[g] # "idle" => pkt[g] \in Packets
    BY <1>4 DEF DedupSet, Goto, TypeOK, Steps
  <2> QED BY <1>4, <2>1, <2>2 DEF DedupSet, TypeOK
<1>5. ASSUME NEW h \in Handlers, ReadHistory(h) PROVE TypeInv'
  BY <1>5 DEF ReadHistory, Goto, TypeOK, Steps
<1>6. ASSUME NEW h \in Handlers, SetNode(h) PROVE TypeInv'
  BY <1>6 DEF SetNode, Goto, TypeOK, Steps
<1>7. ASSUME NEW h \in Handlers, PushHealth(h) PROVE TypeInv'
  <2>1. pkt[h] \in Packets /\ Origin(pkt[h]) \in Nodes
    BY <1>7 DEF PushHealth
  <2>2. Pushed(window[Origin(pkt[h])], pkt[h]) \in Seq(Packets)
    BY <2>1, PushedIsWindow DEF TypeOK
  <2>3. window' \in [Nodes -> Seq(Packets)]
    BY <1>7, <2>1, <2>2 DEF PushHealth, TypeOK
  <2> QED BY <1>7, <2>1, <2>3 DEF PushHealth, Goto, TypeOK, Steps
<1>8. ASSUME NEW h \in Handlers, Answer(h) PROVE TypeInv'
  BY <1>8 DEF Answer, Finish, TypeOK, Steps
<1>9. ASSUME NEW h \in Handlers, Fault(h) PROVE TypeInv'
  BY <1>9 DEF Fault, Finish, TypeOK, Steps
<1>10. CASE Clock
  <2>1. /\ dedup' \in [DedupKeys -> 0 .. DedupTTL]
        /\ stateTTL' \in [Nodes -> 0 .. NodeTTL]
        /\ windowTTL' \in [Nodes -> 0 .. NodeTTL]
        /\ age' \in [Handlers -> 0 .. MaxStall]
    BY <1>10 DEF Clock, Countdown, TypeOK
  <2>2. << >> \in Seq(Packets)
    OBVIOUS
  <2>3. /\ state' \in [Nodes -> Packets \cup {None}]
        /\ window' \in [Nodes -> Seq(Packets)]
    BY <1>10, <2>2 DEF Clock, TypeOK
  <2> QED BY <1>10, <2>1, <2>3 DEF Clock, TypeOK
<1>11. CASE UNCHANGED vars
  BY <1>11 DEF vars, requests, TypeOK
<1> QED
  BY <1>1, <1>2, <1>3, <1>4, <1>5, <1>6, <1>7, <1>8, <1>9, <1>10, <1>11 DEF Next

\* Every variable keeps its type, for any number of overlapping requests.
THEOREM TypeCorrect == Spec => []TypeOK
<1>1. TypeInv => TypeOK
  BY DEF TypeInv
<1> QED BY <1>1, InitTypes, NextTypes, PTL DEF Spec

----------------------------------------------------------------------------
LEMMA InitDedup == Init => DedupInv
BY InitTypes DEF Init, DedupInv, KeyIsFresh, KeyOutlivesState

\* A step that writes neither dedup keys, nor states, nor the clock, and
\* moves at most one request, not into the steps after the dedup key.
LEMMA DedupUntouched ==
    ASSUME DedupInv, TypeInv', NEW h \in Handlers,
           UNCHANGED <<dedup, state, stateTTL>>,
           \A g \in Handlers \ {h} :
              pc'[g] = pc[g] /\ pkt'[g] = pkt[g] /\ age'[g] = age[g],
           pc'[h] \notin {"history", "setNode", "push"}
    PROVE  DedupInv'
BY DEF DedupInv, KeyIsFresh, KeyOutlivesState

LEMMA NextDedup == DedupInv /\ [Next]_vars => DedupInv'
<1> SUFFICES ASSUME DedupInv, [Next]_vars PROVE DedupInv'
  OBVIOUS
<1>a. TypeInv' /\ TypeInv /\ TypeOK /\ BusyHasSample
  BY NextTypes DEF DedupInv, TypeInv
<1> USE DEF expiring, observed
<1>1. ASSUME NEW h \in Handlers, NEW p \in Packets, Arrive(h, p) PROVE DedupInv'
  BY <1>1, <1>a, DedupUntouched DEF Arrive, Goto, TypeOK
<1>2. ASSUME NEW h \in Handlers, DedupGet(h) PROVE DedupInv'
  BY <1>2, <1>a, DedupUntouched DEF DedupGet, Goto, TypeOK
<1>3. ASSUME NEW h \in Handlers, DupAnswer(h) PROVE DedupInv'
  BY <1>3, <1>a, DedupUntouched DEF DupAnswer, Finish, TypeOK
<1>4. ASSUME NEW h \in Handlers, DedupSet(h) PROVE DedupInv'
  <2>1. DedupKey(pkt[h]) \in DedupKeys
    BY <1>4, <1>a, KeyOfSample DEF DedupSet, BusyHasSample
  <2>2. \A k \in DedupKeys : dedup'[k] >= dedup[k]
    BY <1>4, <1>a, <2>1, ControlPlaneAssumption DEF DedupSet, TypeOK
  <2>3. KeyOutlivesState'
    <3>1. ASSUME NEW n \in Nodes, stateTTL[n] > 0
          PROVE  state[n] \in Packets /\ dedup'[DedupKey(state[n])] >= stateTTL[n]
      <4>1. state[n] \in Packets /\ dedup[DedupKey(state[n])] >= stateTTL[n]
        BY <3>1 DEF DedupInv, KeyOutlivesState
      <4>2. DedupKey(state[n]) \in DedupKeys
        BY <4>1, KeyOfSample
      <4>3. /\ dedup'[DedupKey(state[n])] \in Int /\ dedup[DedupKey(state[n])] \in Int
            /\ stateTTL[n] \in Int
        BY <1>a, <4>2 DEF TypeInv, TypeOK
      <4> QED BY <4>1, <4>2, <4>3, <2>2
    <3> QED BY <1>4, <3>1 DEF DedupSet, KeyOutlivesState
  <2>4. KeyIsFresh'
    <3> SUFFICES ASSUME NEW g \in Handlers, pc'[g] \in {"history", "setNode", "push"}
                 PROVE  dedup'[DedupKey(pkt[g])] + age[g] >= DedupTTL
      BY <1>4 DEF DedupSet, KeyIsFresh
    <3>1. pkt[g] \in Packets /\ age[g] \in Nat
      BY <1>4, <1>a, ControlPlaneAssumption DEF DedupSet, Goto, BusyHasSample, TypeOK
    <3>2. DedupKey(pkt[g]) \in DedupKeys
      BY <3>1, KeyOfSample
    <3>3. dedup[DedupKey(pkt[g])] \in Nat /\ dedup'[DedupKey(pkt[g])] \in Nat
      BY <1>a, <3>2, ControlPlaneAssumption DEF TypeInv, TypeOK
    <3>4. CASE g = h
      <4>1. dedup'[DedupKey(pkt[g])] = DedupTTL
        BY <1>4, <1>a, <3>2, <3>4 DEF DedupSet, TypeOK
      <4> QED BY <3>1, <4>1, ControlPlaneAssumption
    <3>5. CASE g # h
      <4>1. pc[g] \in {"history", "setNode", "push"}
        BY <1>4, <1>a, <3>5 DEF DedupSet, Goto, TypeOK
      <4>2. dedup[DedupKey(pkt[g])] + age[g] >= DedupTTL
        BY <4>1 DEF DedupInv, KeyIsFresh
      <4>3. dedup'[DedupKey(pkt[g])] >= dedup[DedupKey(pkt[g])]
        BY <2>2, <3>2
      <4> QED BY <3>1, <3>3, <4>2, <4>3, ControlPlaneAssumption
    <3> QED BY <3>4, <3>5
  <2> QED BY <1>a, <2>3, <2>4 DEF DedupInv
<1>5. ASSUME NEW h \in Handlers, ReadHistory(h) PROVE DedupInv'
  <2>1. KeyOutlivesState'
    BY <1>5 DEF ReadHistory, DedupInv, KeyOutlivesState
  <2>2. KeyIsFresh'
    BY <1>5, <1>a DEF ReadHistory, Goto, DedupInv, KeyIsFresh, TypeOK
  <2> QED BY <1>a, <2>1, <2>2 DEF DedupInv
<1>6. ASSUME NEW h \in Handlers, SetNode(h) PROVE DedupInv'
  <2>1. KeyIsFresh'
    BY <1>6, <1>a DEF SetNode, Goto, DedupInv, KeyIsFresh, TypeOK
  <2>2. pkt[h] \in Packets /\ DedupKey(pkt[h]) \in DedupKeys
    BY <1>6, <1>a, KeyOfSample DEF SetNode, BusyHasSample
  <2>3. dedup[DedupKey(pkt[h])] >= NodeTTL
    <3>1. dedup[DedupKey(pkt[h])] + age[h] >= DedupTTL
      BY <1>6 DEF SetNode, DedupInv, KeyIsFresh
    <3>2. age[h] \in 0 .. MaxStall /\ dedup[DedupKey(pkt[h])] \in Nat
      BY <1>a, <2>2 DEF TypeOK
    <3> QED BY <3>1, <3>2, DedupOutlivesState, ControlPlaneAssumption
  <2>4. KeyOutlivesState'
    BY <1>6, <1>a, <2>2, <2>3 DEF SetNode, DedupInv, KeyOutlivesState, TypeOK
  <2> QED BY <1>a, <2>1, <2>4 DEF DedupInv
<1>7. ASSUME NEW h \in Handlers, PushHealth(h) PROVE DedupInv'
  BY <1>7, <1>a, DedupUntouched DEF PushHealth, Goto, TypeOK
<1>8. ASSUME NEW h \in Handlers, Answer(h) PROVE DedupInv'
  BY <1>8, <1>a, DedupUntouched DEF Answer, Finish, TypeOK
<1>9. ASSUME NEW h \in Handlers, Fault(h) PROVE DedupInv'
  BY <1>9, <1>a, DedupUntouched DEF Fault, Finish, TypeOK
<1>10. CASE Clock
  <2>1. ASSUME NEW k \in DedupKeys
        PROVE  /\ dedup[k] \in Nat /\ dedup'[k] \in Nat
               /\ dedup[k] > 0 => dedup'[k] = dedup[k] - 1
    BY <1>10, <1>a DEF Clock, Countdown, TypeOK
  <2>2. KeyIsFresh'
    <3> SUFFICES ASSUME NEW h \in Handlers, pc[h] \in {"history", "setNode", "push"}
                 PROVE  dedup'[DedupKey(pkt[h])] + age'[h] >= DedupTTL
      BY <1>10 DEF Clock, KeyIsFresh
    <3>1. DedupKey(pkt[h]) \in DedupKeys
      BY <1>a, KeyOfSample DEF BusyHasSample
    <3>2. dedup[DedupKey(pkt[h])] + age[h] >= DedupTTL
      BY DEF DedupInv, KeyIsFresh
    <3>3. age'[h] = age[h] + 1 /\ age[h] \in Nat /\ age[h] < MaxStall
      BY <1>10, <1>a DEF Clock, TypeOK
    <3> QED BY <2>1, <3>1, <3>2, <3>3, DedupOutlivesState, ControlPlaneAssumption
  <2>3. KeyOutlivesState'
    <3> SUFFICES ASSUME NEW n \in Nodes, stateTTL'[n] > 0
                 PROVE  /\ state'[n] \in Packets
                        /\ dedup'[DedupKey(state'[n])] >= stateTTL'[n]
      BY DEF KeyOutlivesState
    <3>1. stateTTL[n] > 1 /\ stateTTL'[n] = stateTTL[n] - 1 /\ state'[n] = state[n]
          /\ stateTTL[n] \in Nat
      BY <1>10, <1>a DEF Clock, Countdown, TypeOK
    <3>2. state[n] \in Packets /\ dedup[DedupKey(state[n])] >= stateTTL[n]
      BY <3>1 DEF DedupInv, KeyOutlivesState
    <3>3. DedupKey(state[n]) \in DedupKeys
      BY <3>2, KeyOfSample
    <3> QED BY <2>1, <3>1, <3>2, <3>3
  <2> QED BY <1>a, <2>2, <2>3 DEF DedupInv
<1>11. CASE UNCHANGED vars
  BY <1>11, <1>a DEF vars, requests, DedupInv, KeyIsFresh, KeyOutlivesState
<1> QED
  BY <1>1, <1>2, <1>3, <1>4, <1>5, <1>6, <1>7, <1>8, <1>9, <1>10, <1>11 DEF Next

\* While the topology shows a state, a replay of the sample it came from is
\* recognised, however requests overlap, stall up to MaxStall, or fail.
THEOREM LiveStateDeduplicated == Spec => []LiveStateIsDeduplicated
<1>1. DedupInv => LiveStateIsDeduplicated
  <2> SUFFICES ASSUME DedupInv, NEW n \in Nodes, stateTTL[n] > 0
               PROVE  dedup[DedupKey(state[n])] > 0
    BY DEF LiveStateIsDeduplicated
  <2>1. state[n] \in Packets /\ dedup[DedupKey(state[n])] >= stateTTL[n]
    BY DEF DedupInv, KeyOutlivesState
  <2>2. DedupKey(state[n]) \in DedupKeys
    BY <2>1, KeyOfSample
  <2>3. dedup[DedupKey(state[n])] \in Nat /\ stateTTL[n] \in Nat
    BY <2>2 DEF DedupInv, TypeInv, TypeOK
  <2> QED BY <2>1, <2>3
<1> QED BY <1>1, InitDedup, NextDedup, PTL DEF Spec

----------------------------------------------------------------------------
(* A state and its window. *)

\* Node n has a window that lives as long as its state, or is about to.
WindowOf(n) ==
    \/ windowTTL[n] >= stateTTL[n] /\ window[n] # << >>
    \/ \E h \in Handlers : pc[h] = "push" /\ Origin(pkt[h]) = n

WindowInv == TypeInv /\ StateHasWindow

LEMMA InitWindow == Init => WindowInv
BY InitTypes DEF Init, WindowInv, StateHasWindow

\* A step that writes neither states nor windows, and moves one request
\* which does not push.
LEMMA WindowUntouched ==
    ASSUME UNCHANGED <<stateTTL, window, windowTTL>>, NEW n \in Nodes, WindowOf(n),
           NEW h \in Handlers, pc[h] # "push",
           \A g \in Handlers \ {h} : pc'[g] = pc[g] /\ pkt'[g] = pkt[g]
    PROVE  WindowOf(n)'
BY DEF WindowOf

LEMMA NextWindow == WindowInv /\ [Next]_vars => WindowInv'
<1> SUFFICES ASSUME WindowInv, [Next]_vars, ~Faults,
                    NEW n \in Nodes, stateTTL'[n] > 0
             PROVE  WindowOf(n)'
  BY NextTypes DEF WindowInv, StateHasWindow, WindowOf
<1>a. TypeOK /\ BusyHasSample /\ (stateTTL[n] > 0 => WindowOf(n))
  BY DEF WindowInv, TypeInv, StateHasWindow, WindowOf
<1> USE DEF expiring, observed
<1>1. ASSUME NEW h \in Handlers, NEW p \in Packets, Arrive(h, p) PROVE WindowOf(n)'
  BY <1>1, <1>a, WindowUntouched DEF Arrive, Goto, TypeOK
<1>2. ASSUME NEW h \in Handlers, DedupGet(h) PROVE WindowOf(n)'
  BY <1>2, <1>a, WindowUntouched DEF DedupGet, Goto, TypeOK
<1>3. ASSUME NEW h \in Handlers, DupAnswer(h) PROVE WindowOf(n)'
  BY <1>3, <1>a, WindowUntouched DEF DupAnswer, Finish, TypeOK
<1>4. ASSUME NEW h \in Handlers, DedupSet(h) PROVE WindowOf(n)'
  BY <1>4, <1>a, WindowUntouched DEF DedupSet, Goto, TypeOK
<1>5. ASSUME NEW h \in Handlers, ReadHistory(h) PROVE WindowOf(n)'
  BY <1>5, <1>a, WindowUntouched DEF ReadHistory, Goto, TypeOK
<1>6. ASSUME NEW h \in Handlers, SetNode(h) PROVE WindowOf(n)'
  <2>1. pc'[h] = "push" /\ UNCHANGED <<pkt, window, windowTTL>>
        /\ \A g \in Handlers \ {h} : pc'[g] = pc[g]
    BY <1>6, <1>a DEF SetNode, Goto, TypeOK
  <2>2. CASE n = Origin(pkt[h])
    BY <2>1, <2>2 DEF WindowOf
  <2>3. CASE n # Origin(pkt[h])
    <3>1. stateTTL'[n] = stateTTL[n] /\ pc[h] = "setNode"
      BY <1>6, <1>a, <2>3 DEF SetNode, TypeOK
    <3> QED BY <1>a, <2>1, <3>1 DEF WindowOf
  <2> QED BY <2>2, <2>3
<1>7. ASSUME NEW h \in Handlers, PushHealth(h) PROVE WindowOf(n)'
  <2>1. pkt[h] \in Packets /\ Origin(pkt[h]) \in Nodes
    BY <1>7, <1>a, KeyOfSample DEF PushHealth, BusyHasSample
  <2>2. UNCHANGED <<stateTTL, pkt>> /\ \A g \in Handlers \ {h} : pc'[g] = pc[g]
    BY <1>7, <1>a DEF PushHealth, Goto, TypeOK
  <2>3. CASE n = Origin(pkt[h])
    <3>1. windowTTL'[n] = NodeTTL /\ window'[n] = Pushed(window[n], pkt[h])
      BY <1>7, <1>a, <2>3 DEF PushHealth, TypeOK
    <3>2. stateTTL'[n] <= NodeTTL
      <4>1. stateTTL[n] \in 0 .. NodeTTL
        BY <1>a DEF TypeOK
      <4> QED BY <2>2, <4>1, ControlPlaneAssumption
    <3>3. window'[n] # << >>
      <4>1. window[n] \in Seq(Packets)
        BY <1>a DEF TypeOK
      <4>2. Len(window[n]) \in Nat
        BY <4>1
      <4>3. 1 \in DOMAIN Pushed(window[n], pkt[h])
        BY <4>2, ControlPlaneAssumption DEF Pushed
      <4> QED BY <3>1, <4>3
    <3> QED BY <3>1, <3>2, <3>3, ControlPlaneAssumption DEF WindowOf
  <2>4. CASE n # Origin(pkt[h])
    <3>1. windowTTL'[n] = windowTTL[n] /\ window'[n] = window[n]
      BY <1>7, <1>a, <2>4 DEF PushHealth, TypeOK
    <3> QED BY <1>a, <2>2, <2>4, <3>1 DEF WindowOf
  <2> QED BY <2>3, <2>4
<1>8. ASSUME NEW h \in Handlers, Answer(h) PROVE WindowOf(n)'
  BY <1>8, <1>a, WindowUntouched DEF Answer, Finish, TypeOK
<1>9. CASE Clock
  <2>1. stateTTL[n] \in Nat /\ windowTTL[n] \in Nat
    BY <1>a DEF TypeOK
  <2>2. stateTTL[n] > 1 /\ stateTTL'[n] = stateTTL[n] - 1
        /\ windowTTL'[n] = Countdown(windowTTL[n])
        /\ window'[n] = IF windowTTL[n] > 1 THEN window[n] ELSE << >>
    BY <1>9, <2>1 DEF Clock, Countdown
  <2>3. UNCHANGED <<pc, pkt>> /\ WindowOf(n)
    BY <1>9, <1>a, <2>1, <2>2 DEF Clock
  <2>4. CASE windowTTL[n] >= stateTTL[n] /\ window[n] # << >>
    BY <2>1, <2>2, <2>4 DEF WindowOf, Countdown
  <2> QED BY <2>3, <2>4 DEF WindowOf
<1>10. CASE UNCHANGED vars
  BY <1>10, <1>a DEF vars, requests, WindowOf
<1> QED
  BY <1>1, <1>2, <1>3, <1>4, <1>5, <1>6, <1>7, <1>8, <1>9, <1>10 DEF Next, Fault

\* Without faults no node is shown whose scores are gone, except between
\* the two writes of the request that refreshes it.
THEOREM StateWindowTogether == Spec => []StateHasWindow
<1>1. WindowInv => StateHasWindow
  BY DEF WindowInv
<1> QED BY <1>1, InitWindow, NextWindow, PTL DEF Spec

----------------------------------------------------------------------------
(* What an acknowledgement means. *)

\* A sample with the dedup key of p was; a duplicate is one by its key.
KeyIsTaken(p) == \E q \in Packets : DedupKey(q) = DedupKey(p) /\ IsTaken(q)

\* A sender that was told 201 posted a sample recorded under its key.
AckedKeyIsRecorded == \A p \in acked : KeyIsTaken(p)

\* Everything that lets a request answer 201 stands for a sample taken: a
\* dedup key, the branch of the duplicates, and the broadcast at the end.
KeyInv ==
    /\ TypeInv
    /\ AckedKeyIsRecorded
    /\ \A p \in Packets : dedup[DedupKey(p)] > 0 => KeyIsTaken(p)
    /\ \A h \in Handlers : pc[h] = "dupHistory" => KeyIsTaken(pkt[h])
    /\ \A h \in Handlers : pc[h] = "broadcast" => pkt[h] \in stored

LEMMA InitKey == Init => KeyInv
BY InitTypes, KeyOfSample DEF Init, KeyInv, AckedKeyIsRecorded

\* Without faults a request that has begun to record a sample does so.
LEMMA TakenStays ==
    ASSUME TypeInv, [Next]_vars, ~Faults, NEW p \in Packets, IsTaken(p)
    PROVE  IsTaken(p)'
<1> DEFINE Writing == {"dedupSet", "history", "setNode", "push"}
<1>1. CASE p \in stored
  <2>1. stored \subseteq stored'
    BY DEF Next, Arrive, DedupGet, DupAnswer, DedupSet, ReadHistory, SetNode,
           PushHealth, Answer, Fault, Clock, vars, observed
  <2> QED BY <1>1, <2>1 DEF IsTaken
<1>2. CASE Storing(p)
  <2>1. PICK g \in Handlers : pkt[g] = p /\ pc[g] \in Writing
    BY <1>2 DEF Storing, Records
  <2>2. SUFFICES (pkt'[g] = p /\ pc'[g] \in Writing) \/ p \in stored'
    BY DEF IsTaken, Storing, Records
  <2>3. TypeOK
    BY DEF TypeInv
  <2>4. ASSUME NEW h \in Handlers,
               \/ \E q \in Packets : Arrive(h, q)
               \/ DedupGet(h) \/ DupAnswer(h) \/ DedupSet(h) \/ ReadHistory(h)
               \/ SetNode(h) \/ Answer(h)
        PROVE  pkt'[g] = p /\ pc'[g] \in Writing
    <3>1. CASE g = h
      BY <2>1, <2>3, <2>4, <3>1
         DEF Arrive, DedupGet, DupAnswer, DedupSet, ReadHistory, SetNode, Answer,
             Goto, TypeOK
    <3>2. CASE g # h
      BY <2>1, <2>3, <2>4, <3>2
         DEF Arrive, DedupGet, DupAnswer, DedupSet, ReadHistory, SetNode, Answer,
             Goto, Finish, TypeOK
    <3> QED BY <3>1, <3>2
  <2>5. ASSUME NEW h \in Handlers, PushHealth(h)
        PROVE  (pkt'[g] = p /\ pc'[g] \in Writing) \/ p \in stored'
    <3>1. CASE g = h
      BY <2>1, <2>5, <3>1 DEF PushHealth
    <3>2. CASE g # h
      BY <2>1, <2>3, <2>5, <3>2 DEF PushHealth, Goto, TypeOK
    <3> QED BY <3>1, <3>2
  <2>6. CASE Clock \/ UNCHANGED vars
    BY <2>1, <2>6 DEF Clock, vars, requests
  <2> QED BY <2>4, <2>5, <2>6 DEF Next, Fault
<1> QED BY <1>1, <1>2 DEF IsTaken

LEMMA NextKey == ASSUME ~Faults PROVE KeyInv /\ [Next]_vars => KeyInv'
<1> SUFFICES ASSUME KeyInv, [Next]_vars PROVE KeyInv'
  OBVIOUS
<1>a. TypeInv /\ TypeInv' /\ TypeOK /\ BusyHasSample
  BY NextTypes DEF KeyInv, TypeInv
<1>b. \A p \in Packets : KeyIsTaken(p) => KeyIsTaken(p)'
  BY <1>a, TakenStays DEF KeyIsTaken
<1>c. stored \subseteq stored'
  BY DEF Next, Arrive, DedupGet, DupAnswer, DedupSet, ReadHistory, SetNode,
         PushHealth, Answer, Fault, Clock, vars, observed
<1>d. /\ \A p \in acked : p \in Packets /\ KeyIsTaken(p)
      /\ \A p \in Packets : dedup[DedupKey(p)] > 0 => KeyIsTaken(p)
      /\ \A h \in Handlers : pc[h] = "dupHistory" =>
            pkt[h] \in Packets /\ KeyIsTaken(pkt[h])
      /\ \A h \in Handlers : pc[h] = "broadcast" => pkt[h] \in stored
  BY <1>a DEF KeyInv, AckedKeyIsRecorded, BusyHasSample, TypeOK
<1> DEFINE Keys(p) == dedup[DedupKey(p)] > 0 => KeyIsTaken(p)
           Dup(h)  == pc[h] = "dupHistory" => KeyIsTaken(pkt[h])
           End(h)  == pc[h] = "broadcast" => pkt[h] \in stored
<1>e. ASSUME acked' = acked PROVE \A p \in acked' : KeyIsTaken(p)'
  BY <1>b, <1>d, <1>e
<1>f. ASSUME dedup' = dedup PROVE \A p \in Packets : Keys(p)'
  BY <1>b, <1>d, <1>f
<1>g. ASSUME NEW g \in Handlers, pc'[g] = pc[g], pkt'[g] = pkt[g]
      PROVE  Dup(g)' /\ End(g)'
  BY <1>b, <1>c, <1>d, <1>g
<1>h. SUFFICES /\ \A p \in acked' : KeyIsTaken(p)'
               /\ \A p \in Packets : Keys(p)'
               /\ \A g \in Handlers : Dup(g)' /\ End(g)'
  BY <1>a DEF KeyInv, AckedKeyIsRecorded
<1> USE DEF expiring, observed
<1> HIDE DEF Keys, Dup, End
<1>1. ASSUME NEW h \in Handlers,
             \/ \E p \in Packets : Arrive(h, p)
             \/ ReadHistory(h) \/ SetNode(h)
      PROVE  /\ \A p \in acked' : KeyIsTaken(p)'
             /\ \A p \in Packets : Keys(p)'
             /\ \A g \in Handlers : Dup(g)' /\ End(g)'
  <2>1. UNCHANGED <<dedup, acked>>
    BY <1>1 DEF Arrive, ReadHistory, SetNode
  <2>2. pc'[h] \notin {"dupHistory", "broadcast"}
        /\ \A g \in Handlers \ {h} : pc'[g] = pc[g] /\ pkt'[g] = pkt[g]
    BY <1>1, <1>a DEF Arrive, ReadHistory, SetNode, Goto, TypeOK
  <2>3. Dup(h)' /\ End(h)'
    BY <2>2 DEF Dup, End
  <2> QED BY <1>e, <1>f, <1>g, <2>1, <2>2, <2>3
<1>2. ASSUME NEW h \in Handlers, DedupGet(h)
      PROVE  /\ \A p \in acked' : KeyIsTaken(p)'
             /\ \A p \in Packets : Keys(p)'
             /\ \A g \in Handlers : Dup(g)' /\ End(g)'
  <2>1. UNCHANGED <<dedup, acked, pkt>>
    BY <1>2 DEF DedupGet
  <2>2. /\ pc'[h] = IF dedup[DedupKey(pkt[h])] > 0 THEN "dupHistory" ELSE "dedupSet"
        /\ \A g \in Handlers \ {h} : pc'[g] = pc[g]
    BY <1>2, <1>a DEF DedupGet, Goto, TypeOK
  <2>3. pkt[h] \in Packets
    BY <1>2, <1>a DEF DedupGet, BusyHasSample
  <2>4. Dup(h)' /\ End(h)'
    BY <1>b, <1>d, <2>1, <2>2, <2>3 DEF Dup, End
  <2> QED BY <1>e, <1>f, <1>g, <2>1, <2>2, <2>4
<1>3. ASSUME NEW h \in Handlers, DupAnswer(h) \/ Answer(h)
      PROVE  /\ \A p \in acked' : KeyIsTaken(p)'
             /\ \A p \in Packets : Keys(p)'
             /\ \A g \in Handlers : Dup(g)' /\ End(g)'
  <2>1. UNCHANGED dedup /\ acked' \subseteq acked \cup {pkt[h]}
    BY <1>3 DEF DupAnswer, Answer
  <2>2. /\ pc'[h] = "idle"
        /\ \A g \in Handlers \ {h} : pc'[g] = pc[g] /\ pkt'[g] = pkt[g]
    BY <1>3, <1>a DEF DupAnswer, Answer, Finish, TypeOK
  <2>3. pkt[h] \in Packets /\ KeyIsTaken(pkt[h])
    BY <1>3, <1>a, <1>d DEF DupAnswer, Answer, BusyHasSample, IsTaken, KeyIsTaken
  <2>4. \A p \in acked' : KeyIsTaken(p)'
    BY <1>b, <1>d, <2>1, <2>3
  <2>5. Dup(h)' /\ End(h)'
    BY <2>2 DEF Dup, End
  <2> QED BY <1>f, <1>g, <2>1, <2>2, <2>4, <2>5
<1>4. ASSUME NEW h \in Handlers, DedupSet(h)
      PROVE  /\ \A p \in acked' : KeyIsTaken(p)'
             /\ \A p \in Packets : Keys(p)'
             /\ \A g \in Handlers : Dup(g)' /\ End(g)'
  <2>1. UNCHANGED <<acked, pkt>> /\ pc'[h] = "history"
        /\ \A g \in Handlers \ {h} : pc'[g] = pc[g]
    BY <1>4, <1>a DEF DedupSet, Goto, TypeOK
  <2>2. pkt[h] \in Packets
    BY <1>4, <1>a DEF DedupSet, BusyHasSample
  <2>3. ASSUME NEW p \in Packets PROVE Keys(p)'
    <3>1. CASE DedupKey(p) = DedupKey(pkt[h])
      <4>1. IsTaken(pkt[h])'
        BY <2>1 DEF IsTaken, Storing, Records
      <4> QED BY <2>1, <2>2, <3>1, <4>1 DEF Keys, KeyIsTaken
    <3>2. CASE DedupKey(p) # DedupKey(pkt[h])
      <4>1. dedup'[DedupKey(p)] = dedup[DedupKey(p)]
        BY <1>4, <1>a, <2>2, <3>2, KeyOfSample DEF DedupSet, TypeOK
      <4> QED BY <1>b, <1>d, <4>1 DEF Keys
    <3> QED BY <3>1, <3>2
  <2>4. Dup(h)' /\ End(h)'
    BY <2>1 DEF Dup, End
  <2> QED BY <1>e, <1>g, <2>1, <2>3, <2>4
<1>5. ASSUME NEW h \in Handlers, PushHealth(h)
      PROVE  /\ \A p \in acked' : KeyIsTaken(p)'
             /\ \A p \in Packets : Keys(p)'
             /\ \A g \in Handlers : Dup(g)' /\ End(g)'
  <2>1. UNCHANGED <<dedup, acked, pkt>> /\ pc'[h] = "broadcast"
        /\ \A g \in Handlers \ {h} : pc'[g] = pc[g]
    BY <1>5, <1>a DEF PushHealth, Goto, TypeOK
  <2>2. pkt[h] \in stored'
    BY <1>5 DEF PushHealth
  <2>3. Dup(h)' /\ End(h)'
    BY <2>1, <2>2 DEF Dup, End
  <2> QED BY <1>e, <1>f, <1>g, <2>1, <2>3
<1>6. CASE Clock
  <2>1. UNCHANGED <<acked, pc, pkt>>
    BY <1>6 DEF Clock
  <2>2. ASSUME NEW p \in Packets PROVE Keys(p)'
    <3>1. DedupKey(p) \in DedupKeys
      BY KeyOfSample
    <3>2. dedup[DedupKey(p)] \in Nat
      BY <1>a, <3>1 DEF TypeOK
    <3>3. dedup'[DedupKey(p)] > 0 => dedup[DedupKey(p)] > 0
      BY <1>6, <3>1, <3>2 DEF Clock, Countdown
    <3> QED BY <1>b, <1>d, <3>3 DEF Keys
  <2> QED BY <1>e, <1>g, <2>1, <2>2
<1>7. CASE UNCHANGED vars
  <2>1. UNCHANGED <<dedup, acked, pc, pkt>>
    BY <1>7 DEF vars, requests
  <2> QED BY <1>e, <1>f, <1>g, <2>1
<1> QED BY <1>1, <1>2, <1>3, <1>4, <1>5, <1>6, <1>7 DEF Next, Fault

\* Without faults of the control plane, what a sender was told 201 for is
\* recorded or about to be, or a sample of the same second is in its place,
\* for any number of requests that overlap, repeat samples and
\* outlive their keys.
THEOREM AcknowledgedSecondRecorded ==
    ASSUME ~Faults PROVE Spec => []AckedSecondIsRecorded
<1>1. KeyInv => AckedSecondIsRecorded
  <2> SUFFICES ASSUME KeyInv, NEW p \in acked
               PROVE  \E q \in Packets : SameSecond(p, q) /\ IsTaken(q)
    BY DEF AckedSecondIsRecorded
  <2>1. PICK q \in Packets : DedupKey(q) = DedupKey(p) /\ IsTaken(q)
    BY DEF KeyInv, AckedKeyIsRecorded, KeyIsTaken
  <2>2. SameSecond(p, q)
    BY <2>1 DEF SameSecond, DedupKey
  <2> QED BY <2>1, <2>2
<1>2. KeyInv /\ [Next]_vars => KeyInv'
  BY NextKey
<1> QED BY <1>1, <1>2, InitKey, PTL DEF Spec

\* Two samples of a node never fall into the same second.  The agent takes
\* one every three seconds, but after a stall its ticker makes up for the
\* ticks it missed at once, so that this is an assumption.
DistinctKeys == \A p, q \in Packets : DedupKey(p) = DedupKey(q) => p = q

\* KeyInv when a key stands for one sample.
AckInv ==
    /\ TypeInv
    /\ AckedIsRecorded
    /\ \A p \in Packets : dedup[DedupKey(p)] > 0 => IsTaken(p)
    /\ \A h \in Handlers : pc[h] = "dupHistory" => IsTaken(pkt[h])
    /\ \A h \in Handlers : pc[h] = "broadcast" => pkt[h] \in stored

LEMMA AckIsKey == ASSUME DistinctKeys PROVE AckInv <=> KeyInv
<1>1. ASSUME NEW p \in Packets PROVE KeyIsTaken(p) <=> IsTaken(p)
  BY <1>1 DEF KeyIsTaken, DistinctKeys
<1>2. TypeInv => /\ acked \subseteq Packets
                 /\ \A h \in Handlers : pc[h] = "dupHistory" => pkt[h] \in Packets
  BY DEF TypeInv, TypeOK, BusyHasSample
<1>3. AckedIsRecorded <=> \A p \in acked : IsTaken(p)
  BY DEF AckedIsRecorded, IsTaken
<1> QED BY <1>1, <1>2, <1>3 DEF AckInv, KeyInv, AckedKeyIsRecorded

LEMMA InitAck == Init => AckInv
BY InitTypes, KeyOfSample DEF Init, AckInv, AckedIsRecorded

LEMMA NextAck ==
    ASSUME ~Faults, DistinctKeys
    PROVE  AckInv /\ [Next]_vars => AckInv'
<1>1. AckInv <=> KeyInv
  BY AckIsKey
<1>2. AckInv' <=> KeyInv'
  BY AckIsKey, PTL
<1> QED BY <1>1, <1>2, NextKey

\* With one sample of a node per second that sample is the acknowledged one.
THEOREM AcknowledgedMeansRecorded ==
    ASSUME ~Faults, DistinctKeys PROVE Spec => []AckedIsRecorded
<1>1. AckInv => AckedIsRecorded
  BY DEF AckInv
<1>2. AckInv /\ [Next]_vars => AckInv'
  BY NextAck
<1> QED BY <1>1, <1>2, InitAck, PTL DEF Spec

----------------------------------------------------------------------------
(* Replays. *)

\* A sample recorded lately is protected by its key, which a request that
\* has yet to ask for it will find.
ReplayInv ==
    /\ DedupInv
    /\ \A p \in applied : dedup[DedupKey(p)] > 0

LEMMA InitReplay == Init => ReplayInv
BY InitDedup DEF Init, ReplayInv

LEMMA NextReplay == ReplayInv /\ [Next]_vars => ReplayInv'
<1> SUFFICES ASSUME ReplayInv, [Next]_vars PROVE ReplayInv'
  OBVIOUS
<1>a. DedupInv /\ DedupInv' /\ TypeInv /\ TypeOK /\ BusyHasSample /\ applied \subseteq Packets
  BY NextDedup DEF ReplayInv, DedupInv, TypeInv, TypeOK
<1>b. \A p \in applied : dedup[DedupKey(p)] > 0
  BY DEF ReplayInv
<1>c. SUFFICES \A p \in applied' : dedup'[DedupKey(p)] > 0
  BY <1>a DEF ReplayInv
<1> USE DEF expiring, observed
<1>1. ASSUME NEW h \in Handlers,
             \/ \E p \in Packets : Arrive(h, p)
             \/ DedupGet(h) \/ DupAnswer(h) \/ ReadHistory(h) \/ SetNode(h)
             \/ Answer(h) \/ Fault(h)
      PROVE  \A p \in applied' : dedup'[DedupKey(p)] > 0
  <2>1. UNCHANGED <<dedup, applied>>
    BY <1>1 DEF Arrive, DedupGet, DupAnswer, ReadHistory, SetNode, Answer, Fault
  <2> QED BY <1>b, <2>1
<1>2. ASSUME NEW h \in Handlers, DedupSet(h)
      PROVE  \A p \in applied' : dedup'[DedupKey(p)] > 0
  <2>1. UNCHANGED applied /\ pkt[h] \in Packets
    BY <1>2, <1>a DEF DedupSet, BusyHasSample
  <2>2. ASSUME NEW p \in applied PROVE dedup'[DedupKey(p)] > 0
    <3>1. DedupKey(p) \in DedupKeys
      BY <1>a, KeyOfSample
    <3>2. \/ dedup'[DedupKey(p)] = dedup[DedupKey(p)]
          \/ dedup'[DedupKey(p)] = DedupTTL
      BY <1>2, <1>a, <3>1 DEF DedupSet, TypeOK
    <3> QED BY <1>b, <3>2, ControlPlaneAssumption
  <2> QED BY <2>1, <2>2
<1>3. ASSUME NEW h \in Handlers, PushHealth(h)
      PROVE  \A p \in applied' : dedup'[DedupKey(p)] > 0
  <2>1. UNCHANGED dedup /\ applied' = applied \cup {pkt[h]}
    BY <1>3 DEF PushHealth
  <2>2. pkt[h] \in Packets /\ DedupKey(pkt[h]) \in DedupKeys
    BY <1>3, <1>a, KeyOfSample DEF PushHealth, BusyHasSample
  <2>3. dedup[DedupKey(pkt[h])] > 0
    <3>1. dedup[DedupKey(pkt[h])] + age[h] >= DedupTTL
      BY <1>3, <1>a DEF PushHealth, DedupInv, KeyIsFresh
    <3>2. age[h] \in 0 .. MaxStall /\ dedup[DedupKey(pkt[h])] \in Nat
      BY <1>a, <2>2 DEF TypeOK
    <3> QED BY <3>1, <3>2, DedupOutlivesState, ControlPlaneAssumption
  <2> QED BY <1>b, <2>1, <2>3
<1>4. CASE Clock
  <2>1. applied' = {p \in applied : dedup[DedupKey(p)] > 1}
    BY <1>4 DEF Clock
  <2>2. ASSUME NEW p \in applied' PROVE dedup'[DedupKey(p)] > 0
    <3>1. p \in applied /\ dedup[DedupKey(p)] > 1 /\ DedupKey(p) \in DedupKeys
      BY <1>a, <2>1, KeyOfSample
    <3>2. dedup[DedupKey(p)] \in Nat
      BY <1>a, <3>1 DEF TypeOK
    <3> QED BY <1>4, <3>1, <3>2 DEF Clock, Countdown
  <2> QED BY <2>2
<1>5. CASE UNCHANGED vars
  BY <1>5, <1>b DEF vars
<1> QED BY <1>1, <1>2, <1>3, <1>4, <1>5 DEF Next

\* A request sets out to record a sample only where its key is gone.
LEMMA OnlyTheCheckAdmits ==
    ASSUME ReplayInv, [Next]_vars, NEW p \in applied, NEW g \in Handlers, Records(g, p)'
    PROVE  Records(g, p)
<1>a. TypeOK /\ p \in Packets /\ dedup[DedupKey(p)] > 0
  BY DEF ReplayInv, DedupInv, TypeInv, TypeOK
<1>b. pkt'[g] = p /\ pc'[g] \in {"dedupSet", "history", "setNode", "push"}
  BY DEF Records
<1>1. ASSUME NEW h \in Handlers, DedupGet(h) PROVE Records(g, p)
  <2>1. g # h
    BY <1>1, <1>a, <1>b DEF DedupGet, Goto, TypeOK
  <2> QED BY <1>1, <1>a, <1>b, <2>1 DEF DedupGet, Goto, TypeOK, Records
<1>2. ASSUME NEW h \in Handlers,
             \/ \E q \in Packets : Arrive(h, q)
             \/ DupAnswer(h) \/ Answer(h) \/ Fault(h)
      PROVE  Records(g, p)
  <2>1. g # h
    BY <1>2, <1>a, <1>b DEF Arrive, DupAnswer, Answer, Fault, Goto, Finish, TypeOK
  <2> QED BY <1>2, <1>a, <1>b, <2>1
         DEF Arrive, DupAnswer, Answer, Fault, Goto, Finish, TypeOK, Records
<1>3. ASSUME NEW h \in Handlers,
             DedupSet(h) \/ ReadHistory(h) \/ SetNode(h) \/ PushHealth(h)
      PROVE  Records(g, p)
  BY <1>3, <1>a, <1>b
     DEF DedupSet, ReadHistory, SetNode, PushHealth, Goto, TypeOK, Records
<1>4. CASE Clock \/ UNCHANGED vars
  BY <1>4, <1>b DEF Clock, vars, requests, Records
<1> QED BY <1>1, <1>2, <1>3, <1>4 DEF Next

\* No request sets out to record a sample that was recorded and whose dedup
\* key lives, for any number of requests that overlap, stall and fail.
THEOREM ReplaysNotAdmitted == Spec => NoReplayAdmitted
<1>1. ReplayInv /\ [Next]_vars =>
        [\A p \in applied, h \in Handlers : Records(h, p)' => Records(h, p)]_vars
  BY OnlyTheCheckAdmits
<1> QED BY <1>1, InitReplay, NextReplay, PTL DEF Spec, NoReplayAdmitted

=============================================================================
