# OpenMTSN: specification and proofs

This directory holds TLA+ models of OpenMTSN, the TLC configurations that check
them on small instances, and TLAPS proofs of their main properties. Every
definition is translated from the source; `PROJECT.json` ("map") names the lines
each one stands for.

## 1. The system

OpenMTSN carries telemetry from edge devices to a control plane and tells each
device which uplink to use.

| Component | Source | State | Operations |
|---|---|---|---|
| Telemetry loop of the agent | `agent/src/main.rs` 441-558 | the sample in hand, the batch of the current drain, `consecutive_failures` | probe, POST, queue, drain, broadcast |
| SQLite queue of the agent | `agent/src/main.rs` 195-254 | table `telemetry_queue` (on disk) | INSERT, SELECT by priority and id, DELETE |
| MQTT event loop of the agent | `agent/src/main.rs` 401-420 | `mqtt_connected`, and it resets `consecutive_failures` | ConnAck, error |
| Mesh listener of the agent | `agent/src/main.rs` 259-330 | socket buffer, `recently_relayed`, `relayed_count` | receive, proxy POST |
| Telemetry ingestion | `api/app/main.py` 182-249 | requests in progress | POST /telemetry |
| Topology store | `api/app/redis_client.py` | Redis keys `node:<id>`, `health:<id>`, `dedup:<id>:<second>` with expiry | set, push and trim, read, delete |
| Routing engine | `api/app/routing_engine.py` | none | score, thresholds, average, decision |
| Identity and audit | `api/app/main.py` 80-133, 191-209 | none | certificate and signature checks |
| WebSocket hub | `api/app/main.py` 285-323 | `_ws_clients` | connect, disconnect, broadcast |
| Dashboard hook | `dashboard/src/useTopologySocket.ts` | sockets and timers with their refs, snapshot, `connected` | connect, reconnect, fetch |
| Dashboard views, deployment, simulator, certificates | `dashboard/src`, `infra`, `docker-compose.yml`, `simulator`, `scripts` | none of their own | |

How they interact. The telemetry loop posts each sample to the ingestion over
HTTPS. An accepted sample triggers a drain of the table; a failed one goes into the
table and, from the third failure on, onto the subnet as a UDP broadcast. A
listener that believes it has cloud connectivity proxies what it hears to the same
endpoint. The three tasks of an agent share two atomics, and the failure counter of
the telemetry loop is written by the MQTT task and read by the listener. The
ingestion checks a dedup key, reads the window of earlier scores, decides, writes
state and window, and pushes a snapshot to the dashboards, one after the other, before
it answers. A dashboard reconnects three seconds after its socket closed.

What is hard:

- *Interleavings.* Both loops of the agent await their POSTs; ingestion gives up
  the event loop at each Redis call, and requests overlap. Checks are separated
  from the actions they guard (relay check and memory; GET and SET of the dedup
  key; state and window).
- *Delivery.* Datagrams are lost, duplicated and reordered; a POST that failed may
  have been applied; one sample reaches the control plane from its origin, from a
  drain and from every relaying peer.
- *Failures.* The agent crashes between any two steps and finds its table again;
  disk errors are ignored; a request fails between two writes.
- *Time.* Keys expire at different moments; the dedup key has to outlive the state
  it protects.
- *Membership.* The set of dashboards changes while broadcasts iterate over it, and
  each broadcast may find some of them dead.
- *Callbacks.* Sockets, timers and a fetch of the dashboard act on refs that a later
  connection may have overwritten.
- *Numbers.* Decisions compare rounded averages with constants, and the
  algorithm changes when the window is empty.

What makes each component correct: an agent keeps custody of a sample until it is
accepted or explicitly given up, and flushes a backlog; the mesh never holds the
only copy; ingestion records a sample once and never acknowledges what it does not
record; the topology shows live nodes only; the routing leaves bad links, keeps
good ones and ignores a dip; a sample that is answered without an error has reached
the dashboards its broadcast began with and ended with (an exchange one for one goes
unnoticed), and a dashboard keeps exactly one connection or one attempt at it.
`PROJECT.json` ("hazards") lists what endangers each of these, at the line where it
bites, with the property that covers it or the reason why none does.

## 2. Modules

| Module | Models |
|---|---|
| `EdgeAgent` | one agent process per node: the three tasks, the table, the subnet, crash and restart |
| `MCEdgeAgent` | its instances for TLC |
| `EdgeAgentProofs` | all safety properties of the agent, proved |
| `RoutingEngine` | the routing algorithm as operators |
| `RouteHysteresis` | the decisions on one node over time: samples, queries, expiry, a slow request |
| `MCRouteHysteresis` | its instance for TLC |
| `RouteHysteresisProofs` | bounds of the arithmetic and five properties, proved |
| `ControlPlane` | overlapping ingestion requests on Redis keys that expire |
| `MCControlPlane` | its instances for TLC |
| `ControlPlaneProofs` | all safety properties of the ingestion, proved |
| `TelemetryCustody` | abstract: what the swarm promises about a sample |
| `Swarm` | agents (`EdgeAgent`) and ingestion (`ControlPlane`) joined by HTTP requests; implements `TelemetryCustody` |
| `MCSwarm` | its instance for TLC |
| `SwarmProofs` | that `Swarm` implements `TelemetryCustody` and runs each component by its own rules, proved |
| `TopologyHub` | the set of dashboards and the broadcasts over it |
| `MCTopologyHub` | its instances for TLC |
| `TopologyHubProofs` | all safety properties of the hub, proved |
| `DashboardSocket` | the dashboard's hook |
| `MCDashboardSocket` | its instance for TLC |
| `DashboardSocketProofs` | all safety properties of the hook, proved |

Operators commented *Mutant* in a module are plausible mistakes in the operator
that follows them. They are used by no specification; `PROJECT.json` ("mutants")
says which property each one violates when it takes the place of its original.

### EdgeAgent

A packet is one telemetry sample, identified by its origin and a name. Names are
recycled once nobody refers to a packet any more, so that the loop never stops.

- `main` is the control point of the telemetry loop: `idle` at the tick,
  `posting` while the POST of the sample in `hand` is awaited, `draining` while
  the POST of the next row of `batch` is awaited. `Tick`, `PostAccepted`,
  `PostRejected`, `PostFailed`, `DrainAnswered` and `DrainFailed` are the branches
  of the loop between two awaits. A POST that fails in transport may nevertheless
  have been applied; both outcomes are in `PostFailed` and `DrainFailed`.
- `queue` is the table in id order. `Selected` is the SELECT, `IsNextRow` the
  order of the batch, `RemoveRow` the DELETE. With `DiskFaults` any statement may
  fail; the code ignores the error and so do the actions.
- `failures` counts up to `MaxFailures`, where the code stops distinguishing.
- `relaying` is the packet the listener has checked and is posting. It is
  remembered only afterwards (`RelayDone`). `inbox` is the socket buffer as a set:
  datagrams arrive in any order, and `Receive` may leave a copy.
- `Crash` clears the memory and the socket and keeps the table. Requests on the
  wire may have been applied.
- `fate` only observes. `held` means that the agent still owes the sample.

### RoutingEngine and RouteHysteresis

Floats are scaled to integers: loss and latency to hundredths (the agent rounds them
to two digits before sending), scores to units of 0.0001 (what `round(x, 4)` keeps).
The weighted sum is exact at a scale of 0.000001. Where `round` meets a tie, the
binary error of the float decides; `Rounded` therefore yields both neighbours, and
decisions are sets of possible decisions. `RouteHysteresis` applies the algorithm to
one node: `Ingest` decides on the window before it pushes, as the code does, `Query`
recomputes from the stored sample, and the two keys expire. `delete_node`, which nothing
calls yet, removes the state only, which is `ExpireState`.
One request at a time is slow. A slow POST has decided on the window it read
(`Decide`), writes the state later (`SetLate`), and pushes its score and returns the
decision later still (`PushLate`); a slow GET has read the state (`ReadState`) and reads
the window later (`QueryLate`). Between any two of these steps up to `MaxOvertaken`
samples in all are recorded by others, GETs read what is there, keys expire, and the
request may fail (`Fail`), also between its two writes. `behind` says that the state was
written after the window: the window may then expire under it, and otherwise the state
goes first, because it is written first. Of an answer only `should_failover` is kept.
`good` and `bad` count runs of samples and only observe: a sample counts when its score
is pushed, and one that does not belong to a run ends it when its state is written.
Answers to duplicates are left out: they follow the replayed sample, change neither
key, and go to a drain or a relay, which does not read them.

### ControlPlane

Each await of `ingest_telemetry` is an action: `DedupGet`, `DupAnswer` or `DedupSet`,
`ReadHistory`, `SetNode`, `PushHealth`, `Answer`. `Handlers` requests are in progress
at once, and each may carry any sample, any number of times. `Fault` drops a request
anywhere between two awaits and leaves what it wrote. `Clock` counts down every key.
`Answer` may fail to acknowledge, because the broadcast it ends with iterates over a
set that other tasks change. The value of a decision is not in this module: a window
is the sequence of the samples whose scores it holds.

### TelemetryCustody and Swarm

Alone, `EdgeAgent` takes any answer to a POST and `ControlPlane` any request. `Swarm`
instantiates both and ties them together: `wire` holds requests on their way, `caller`
the agent that waits for a handler, `reply` the answer on its way back. An agent's step
that ends a POST needs the answer it acts on (`Gets`), or ends it without one
(`Breaks`); then a request on the wire may be lost or arrive later, a handler at work
goes on, and its answer reaches nobody. `NoNews` takes the freedom of the components
away: a sample becomes `delivered` in the agent's eyes by an answer only. `Relay` posts
a peer's sample without waiting for anything, because the listener discards the result.
`Refuse` is an error status from before the handler, `Respond` the handler's own.

`TelemetryCustody` is the promise: a sample is owed from when it is measured, it may be
settled only when it was recorded, an abandoned sample is not a settled one, and what
is recorded stays recorded. The refinement mapping reads the debt off `fate`, and counts
a sample as recorded from the moment its request has passed the duplicate check
(`Taken`): from there on a copy of it is answered 201, although the state is not
written yet. That is the linearization point of the ingestion; with `stored` in its
place the refinement fails, since a duplicate may be answered while the first request is
still between its awaits.

### TopologyHub

`req[h]` holds the locals of one request from the write of its state to its answer. The
writes are numbered; a snapshot is the set of pairs of a node and the write its entry
shows, so that an entry read too early is told apart. `Scan` has the guarantees of Redis:
a key that is there from the first call to the last is returned, others may be, and pages
may repeat keys. The iteration follows Python's set iterator: it raises when the size
differs from the one at the start (`SetChanged`), and does not notice an exchange of
members. A connection can be `open`, `stalled` (the client reads nothing, so `send_text`
does not end), `broken` (the server does not know yet) or `away`.

### DashboardSocket

Every callback is an action. `ready` is `readyState` of each socket until its `onclose`
has run, `wsRef` and `timerRef` are the two refs; pending timers fire in the order in
which they were armed. `Mount` and `MountTwice` are a production build and a development
build under `React.StrictMode`, which mounts, cleans up and mounts again with the same
refs. Of the topology only matters whether it is the server's latest one: `Update` makes
what is shown and what is under way old. `HubSends` is a broadcast of the hub, of the
latest topology or, because broadcasts overtake each other (`hub_stale`), of an older
one; `Push` is the callback that shows it, in any order. The answer of the initial fetch
carries the topology of the moment when the server read it.

## 3. What is checked

| Run | Properties | Shows |
|---|---|---|
| `agent_queue` | `TypeOK` `PacketsAccounted` `QueueCoherent` `BacklogFlushed` | with disk errors and crashes, no sample leaves the agent's custody silently; loop, batch and table agree; a backlog is flushed, over as many batches as it takes |
| `agent_mesh` | `FailuresAreQueued` `MeshCopyIsBackedUp` `RelayedOnce` | with two agents that hear each other, each counted failure has its row, the mesh is an extra path only, and a remembered packet is not proxied again |
| `routing_hysteresis` | `TypeOK` `RecoveredLinkStays` `UnhealthyLinkSwitches` `DipTolerated` `CriticalLossSwitches` | recovery, failure, dip and critical loss get the promised decision, across expiries, and from requests that others overtake or that fail between their two writes |
| `control_overlap` | `TypeOK` `LiveStateIsDeduplicated` `StateHasWindow` `AckedSecondIsRecorded` | with two overlapping requests that stall as long as a state lives and repeat samples, two of them in one second, a live state is protected by a live dedup key, state and window live together, and of a second that was acknowledged a sample is kept |
| `control_replay` | `NoReplayAdmitted` `StaleNodeEvicted` | with two overlapping requests and faults, no request sets out to record what was recorded and has a key, and a silent node leaves the topology |
| `swarm` | `TypeOK` `CustodyImplemented` | agent and control plane together implement `TelemetryCustody`, with lost requests, lost answers, orphans, relays, duplicates and crashes |
| `hub` | `TypeOK` `LiveClientRegistered` `AnsweredIsPushed` `RequestsAnswered` | a working dashboard is never dropped; a request that ends without an error, and with the set of dashboards its loop began with, has brought its write to each of them; only a dashboard that stops reading holds requests up |
| `dashboard` | `TypeOK` `OneLifeline` `ConnectedIsOpen` `Reconnects` `SettledTopologyShown` | a mounted hook has exactly one socket or timer, never shows a connection it has not, reconnects, and ends with the latest topology once the server settles |

Runs that are expected to find a violation. Each checks one statement of a document
or comment against the code; `PROJECT.json` ("findings") quotes it.

| Run | Property | What the code does |
|---|---|---|
| `agent_refused` | `DrainedMeansDelivered` | a drained row is deleted on an error status |
| `control_retry` | `AckedIsRecorded` | a retry after a failed request is acknowledged and not recorded |
| `control_backwards` | `StateNeverGoesBack` | a drained sample replaces a newer state |
| `hub_stale` | `PushIsNewer` | a broadcast that read its snapshot first may send it last |

More divergences show in the models without a run of their own:

- A listener whose failure counter has reached its limit drops what it hears
  (`HearAndIgnore`); openmtsn_executive_brief.md:232 shows it doing "Queue for relay".
- As soon as a node has a window, a breached threshold does not decide: only an average
  below 0.4 or a loss above 50% switches. openmtsn_executive_brief.md:165 draws the
  decision as `THRESHOLD -->|"Threshold Breached"| SELECT`.
- GET and SET of the dedup key are separate awaits (`DedupGet`, `DedupSet`): copies of a
  sample that arrive together all pass the check and are all recorded, also one after the
  other's key was set and its sample recorded. docs/SOVEREIGN_AUDIT.md:32 lists replays
  as handled by the "60-second signature window". `NoReplayAdmitted` says what holds:
  nothing but the requests that had passed the check by then records it again.
- With `Faults` the custody of `Swarm` fails: it is `control_retry` seen from the agent.
- A broadcast that finds the size of the set changed makes its request a 500 although
  the sample is recorded; the agent queues it and is told 201 when it drains it.
- A SCAN may return a key on two pages, and its state may be written between them: the
  snapshot then lists the node twice, and counts it twice.
- Evictions push nothing: a dashboard shows an evicted node until another one reports.
- A hook that was unmounted reconnects for ever: `onclose` runs after the cleanup has
  cleared the timer, and arms another.
- Under StrictMode `ConnectedIsOpen`'s converse fails for good: the first socket's
  `onclose` clears `connected` after the second one has opened, and the timer it arms
  finds the open socket and does nothing.
- `if (!topology)` at `dashboard/src/useTopologySocket.ts:68` tests the value of the first
  render: a late answer of the fetch overwrites newer pushes (`FetchStep`).
- The hook connects without a token; with `SECURITY_ENABLED`, which is the default, the
  server accepts and closes, and the hook goes on opening sockets: `Opened`, `Fails`,
  `Closed`, `TimerFires` for ever. The premise of `Reconnects` excludes this server.
- `PostFailed` broadcasts whether or not `mqtt` holds: the comment at
  `agent/src/main.rs:139` calls the mesh the relay "when the MQTT broker is
  unreachable", but only failed HTTPS posts decide.
- `RelayDone` counts and remembers a packet whose POST failed, and the count is
  reported as packets relayed.
- A link whose telemetry does not change (signal 29%, health 0.71) is told to fail
  over by its first answer, which follows the thresholds, and to stay by the second,
  which follows the average.
- With `StampsPerSecond = 2` and no faults `AckedIsRecorded` fails as well: two
  samples of one node within a second share a dedup key, and the second one is
  acknowledged and dropped.

### Bounds

- *Agents.* One agent has `MaxFailures = 3` as in the code. `DrainLimit` 2 of a
  table of 3 rows (`QueueCap`) makes a drain smaller than the backlog, with both
  priorities in the table. At `QueueCap` the outcomes that would add a row are
  disabled, not lost, so no property holds because rows vanish. The two agents of
  `agent_mesh` have `MaxFailures = 2`, so that a failure below the limit (queued, not
  broadcast) differs from one at it, and n1 has a sample in its hand besides two in
  its table or on the air; both listen, and hear themselves as well.
  `RelayWindow = 2` of three foreign packets makes the window overflow.
  `RelayCap = 1`: only whether the count grows matters. `agent_refused`
  needs less and uses `MaxFailures = 1` and one listener.
- *Symmetry.* The names of one agent's samples are interchangeable, and so are the
  handlers; no configuration with a liveness property uses symmetry.
- *Routing.* The window has its real size; four samples cover breached but
  healthy (0.6), barely within the thresholds (0.43), unhealthy without critical loss
  (0.2), and critical loss on a score above 0.4 (0.565). One slow request and one sample
  that overtakes it (`MaxOvertaken = 1`; the theorems hold for any number). The run counters stop at
  window size plus one plus `MaxOvertaken`: without the last term
  TLC finds a late answer that violates `RecoveredLinkStays`.
- *Control plane.* Two handlers: the races are between a request that passed the check
  and one that did, or did not; the theorems hold for any number. TTLs keep the order of
  the real ones (30 s, 60 s) at small values; `NodeTTL + MaxStall <= DedupTTL` is tight in
  every configuration. `control_overlap` has three samples of one node, two of them in one
  second (`StampsPerSecond = 2`), because the agent's ticker, with its period of three
  seconds, makes up for missed ticks in a burst; `NodeTTL = 2`, so that a state can be
  refreshed before it expires; and `MaxStall = 2`, so that a state may expire between the
  two writes of its request. The other configurations have two samples in two seconds,
  the least that can be reordered, and stalls of one unit.
- *Swarm.* One agent that hears its own broadcasts stands for its peers too: a relay
  is a request nobody waits for, whoever sends it. Two samples and `QueueCap = 1`: one
  row to drain and one sample in hand; drains of several rows are in `agent_queue`.
  `RelayWindow = 0` lets a sample be relayed again and again. `MaxStall = 0`: time passes
  between requests, so that a sample may come back after its key has expired. Of the
  requests for a sample nobody waits for, one is on the wire at a time and two may be in
  handlers. Faults of the control plane are off, see above.
- *Hub.* Two nodes, so that one can be evicted while the other's request scans; two
  dashboards, the least that can be exchanged one for one; two requests; two SCAN pages;
  two writes (`MaxWrites`), one for each request or one request after the other.
  In `hub` a state does not go while the loop that announces it waits for dashboards
  (`LongSends`), which halves the states; in `hub_stale` and in the theorems it may.
- *Dashboard.* Three sockets, one more than are ever in use; a timer that found none
  would be blocked and break `Reconnects`. On each socket one snapshot of either kind is
  under way at most, which any number of broadcasts come down to.

### Fairness

- `EdgeAgent!FairSpec`: the telemetry loop and the listener of each agent are weakly
  fair, because tokio keeps polling the tasks of a live process. This includes that
  each POST ends at some time: the HTTP client has no timeout of its own, so a
  transport that never reports is excluded by assumption. No fairness for crash,
  restart, the broker or any particular outcome of a POST; `BacklogFlushed` states
  its premises (the agent stays up, POSTs stop failing) itself.
- `ControlPlane!FairSpec`: time passes, and a request in progress continues.
  Nothing is assumed about arrivals and faults.
- `TopologyHub!FairSpec`: a request goes on when what it awaits has ended. Nothing is
  assumed about dashboards; `RequestsAnswered` has the premise that none stays stalled,
  and fails without it.
- `DashboardSocket!FairSpec`: the browser runs callbacks that are due and ends each
  connection attempt. Mounting, failures, updates and broadcasts are not fair;
  `SettledTopologyShown` names in its premise what it needs of them.

## 4. What is proved

Every type invariant, safety invariant and action property of the passing runs is also
a theorem, and so is the refinement of `TelemetryCustody`. The runs cover one small
instance each; the theorems hold for every value of the constants that satisfies the
named assumptions. An invariant that had to be strengthened was checked by TLC on the
run's instance before it was proved.

| Module | Theorem | Property | Assumptions beyond the module's own |
|---|---|---|---|
| `EdgeAgentProofs` | `TypeCorrect` | `TypeOK` | |
| | `Custody` | `PacketsAccounted` | |
| | `TableCoherent` | `QueueCoherent` | |
| | `CountedFailuresQueued` | `FailuresAreQueued` | |
| | `MeshNeverAlone` | `MeshCopyIsBackedUp` | |
| | `RememberedNotRelayed` | `RelayedOnce` | |
| | `OwedInHand` | `AllTaken`, `HandIsOwed` | |
| `ControlPlaneProofs` | `TypeCorrect` | `TypeOK` | |
| | `LiveStateDeduplicated` | `LiveStateIsDeduplicated` | |
| | `StateWindowTogether` | `StateHasWindow` | |
| | `AcknowledgedSecondRecorded` | `AckedSecondIsRecorded` | `~Faults` |
| | `AcknowledgedMeansRecorded` | `AckedIsRecorded` | `~Faults`, `DistinctKeys` |
| | `ReplaysNotAdmitted` | `NoReplayAdmitted` | |
| `RouteHysteresisProofs` | `TypeCorrect` | `TypeOK` | |
| | `RecoveredLinkIsLeftAlone` | `RecoveredLinkStays` | |
| | `UnhealthyLinkIsLeft` | `UnhealthyLinkSwitches` | |
| | `DipIsTolerated` | `DipTolerated` | |
| | `CriticalLossIsLeft` | `CriticalLossSwitches` | |
| `TopologyHubProofs` | `TypeCorrect` | `TypeOK` | |
| | `LiveDashboardRegistered` | `LiveClientRegistered` | |
| | `AnsweredReachedAll` | `AnsweredIsPushed` | |
| `DashboardSocketProofs` | `TypeCorrect` | `TypeOK` | |
| | `AlwaysOneLifeline` | `OneLifeline` | |
| | `ShownConnectionExists` | `ConnectedIsOpen` | |
| `SwarmProofs` | `TypeCorrect` | `TypeOK` | |
| | `SwarmRunsAgents`, `SwarmRunsControl` | `EdgeAgent!Spec`, `ControlPlane!Spec` | |
| | `SwarmKeepsCustody` | `CustodyImplemented` | `~Faults`, `DistinctKeys` |
| | `DeliveredIsTaken` | `TelemetryCustody!SettledIsRecorded` | `~Faults`, `DistinctKeys` |

### Assumptions

`AgentAssumption`, `ControlPlaneAssumption`, `SamplesAssumption`, `ThresholdAssumption`,
`TopologyHubAssumption`, `DashboardSocketAssumption` and `SwarmAssumption` give the
constants their types. The others say something about the deployment:

- `DedupOutlivesState`, `NodeTTL + MaxStall <= DedupTTL`, is where the 30 s and 60 s of
  the code enter. It bounds how long a request may stall by 30 s.
- `ThresholdsCoherent` ties the two configurable thresholds to the two fixed limits. The
  code does not check it: with, say, `MTSN_PACKET_LOSS_FAILOVER_THRESHOLD=80`, a sample
  within the thresholds may score below 0.4 and `RecoveredLinkIsLeftAlone` does not apply.
- `~Faults`: no Redis call of the ingestion raises and the API does not restart. Without
  it the property is false, which is the run `control_retry`.
- `DistinctKeys`: no two samples of a node fall into one second. Ticks are three seconds
  apart, but a burst after a stall breaks it, and then `AckedIsRecorded` is false (end of
  section 3). `AcknowledgedSecondRecorded` says what is left without it: a sample of the
  same node and second is recorded.

### Arguments

- *Agent.* `TypeInv` adds to the types that a sample is in hand exactly when the loop is
  posting: only then do `PostAccepted` and the queueing branches account for a sample
  they are known to have. `QueueCoherent` is inductive with it; `DrainAnswered` rests on
  lemmas about `RemoveRow`: every packet but the deleted one stays, and stays once.
  `FailuresAreQueued` needs that the counter is 0 as long as the loop drains
  (`DrainsAtZero`), since a drain deletes rows: no other step lowers the table, and no
  failure is counted before its INSERT. `MeshCopyIsBackedUp` needs `QueueCoherent`: what
  a drain takes out of a table is no longer owed from that very step on.
  `FateInv` adds where the samples on the air come from, and that the sample in hand is
  on nobody's air. This is what keeps a relay from settling it behind the back of the
  loop, and what the swarm needs of an agent.
- *Ingestion.* `LiveStateIsDeduplicated` is not inductive: a stalled request may write a
  state late. `DedupInv` adds that the key of a request past its mark has at least
  `DedupTTL - age` seconds left, and that every state has no more seconds left than the
  key of its sample. `KeyInv` says of each thing that can lead to a 201 (a live dedup
  key, the branch of the duplicates, the final broadcast) that a sample with this key
  was recorded or is in a handler that will record it; `TakenStays` is the step from
  "is recording" to "recorded", and the place where `~Faults` is needed. With
  `DistinctKeys` it is `AckInv`. `ReplayInv` adds to `DedupInv` that a sample recorded
  since its key last expired has a live key, which is where a stalled request, one that
  records after the key of another, could go wrong: its own SET was at most `MaxStall` ago.
- *Routing.* Lemmas bound `Rounded`, the weighted sum, the score and the mean of a
  window, for any valid sample; `DecisionType` shows that a decision is well formed.
  `GoodRun` and `BadRun` say that a run of k samples fills the k newest places of the
  window, and that the stored sample, if any, belongs to the run; a run of five covers
  the window, so the next decision and every query follow. For a slow request they add
  that the state a GET read belongs to a run longer than the samples that overtook it,
  that the decision of a POST follows a run that had covered the window when it read
  it, and that the state a POST wrote ahead of its score belongs to the run or has ended it; `LateCritical` says the same of a critical loss.
- *Hub.* `HubInv` follows the write of each request through its broadcast (`Carried`):
  while it scans, SCAN still owes it its own node or the snapshot has it; before MGET the
  node is among the keys; from then on the snapshot has it. That the key still exists at
  MGET is `Underway`: a state outlives its own reading, 30 s against a few round trips to
  Redis. `Reached` says that
  each dashboard the loop has visited was shown the write or is gone, and that those
  found dead are gone; the first half gives `AnsweredIsPushed`, the second
  `LiveClientRegistered`. A dashboard that comes back is a new WebSocket object
  (`Referenced`), without which `Reached` is not preserved.
- *Hook.* `HookInv` bounds the lifelines in every phase of the hook, also after it is
  gone, and ties the refs to them: the timer in `timerRef` is pending, and outside
  StrictMode the socket in `wsRef` is the only one in use. The first lets the
  cleanup take a timer off the count, the second makes the socket that set `connected`
  the one whose end clears it.
- *Swarm.* `SwarmProofs` uses what was proved of the components: it instantiates the two
  proof modules, shows that their definitions are those of the instances in `Swarm`, and
  that a step of the swarm is a step or a stutter of each (`SwarmRunsAgents`,
  `SwarmRunsControl`), so that the components' invariants hold in it. `SwarmInv` adds
  what concerns both: the POST an agent awaits is in one place, on the wire, in a handler
  or answered, and an answer "created" means that the sample is taken
  (`PostsInOnePlace`); and whatever is on the wire, in a handler or recorded was measured
  (`Measured`). Each step then maps to a step of `TelemetryCustody` or to a stutter: a
  sample is settled in the step in which an agent takes a 201 for it, and recorded in the
  one in which a request passes the duplicate check.

### Form of the modules

In the modules with proofs an EXCEPT updates a record of a function as
`[f EXCEPT ![x] = [f[x] EXCEPT !.a = ..., !.b = ...]]` (`Becomes` in `TopologyHub`).
tlapm 1.4.5 mistranslates the equivalent `[f EXCEPT ![x].a = ..., ![x].b = ...]`: it loses
the second update and accepts false conclusions. No module that is proved about uses that
form, or an `@` inside another one.

### Only model-checked

The liveness properties `BacklogFlushed`, `StaleNodeEvicted`, `RequestsAnswered`,
`Reconnects` and `SettledTopologyShown`: liveness under fairness and ENABLED are out of the
prover's reach. Induction over data and RECURSIVE operators are, too; the modules use no
recursion. `TelemetryCustody` is a specification without a run of its own: it is what
`CustodyImplemented` compares with.

## 5. Not modelled

- Identity, signatures, certificates: computed per request, without state. A request
  the identity check rejects is `Refuse` in `Swarm`. As written, `is_verified` never becomes true:
  `json.dumps` at `api/app/main.py:200` gets the timestamp of `model_dump()` as a
  datetime and raises, which the audit takes for a failed signature;
  docs/SOVEREIGN_AUDIT.md:24 expects it to be set. The dashboard only displays it.
- Several slow requests at a time, with their decisions: `RouteHysteresis` has one that
  others overtake, `ControlPlane` all the overlaps without the decisions.
- The jamming branch of the telemetry loop: the probe never reports a loss above 8%,
  the branch needs 25%.
- The MQTT publish of a sample and the broker: the control plane does not subscribe;
  publishing changes no state of the agent.
- Gauges, logging, texts, layout, infrastructure, simulator.

## 6. Plan

The suite stays at about a dozen runs; a divergence whose run is retired moves to the
list in section 3.

1. Proofs: what an acknowledgement still means when Redis fails, and what of the custody
   is left when two samples share a key.
2. The invariants behind the liveness properties, as far as they are safety: that no
   request waits for a dashboard that is gone, that a drain shortens the table.
3. Several slow requests at a time with their decisions.
