-------------------------- MODULE DashboardSocket --------------------------
(***************************************************************************)
(* The topology hook of the dashboard (dashboard/src/useTopologySocket.ts):*)
(* one WebSocket that is reopened three seconds after it closed, and one   *)
(* fetch of the topology when the hook is mounted.                         *)
(*                                                                         *)
(* The callbacks of a socket, a timer and a fetch run one at a time in any *)
(* order.  wsRef and reconnectTimerRef outlive the callbacks that set them,*)
(* so a callback of an old socket acts on the refs of a newer one.  Under  *)
(* React.StrictMode a development build mounts, cleans up and mounts the   *)
(* hook again with the same refs before any callback runs.                 *)
(*                                                                         *)
(* What matters of a topology is whether it is the server's latest one, or *)
(* shows the same apart from timestamps.  A push may carry an older one:   *)
(* the hub's broadcasts overtake each other (TopologyHub).                 *)
(***************************************************************************)
EXTENDS Integers, FiniteSets

CONSTANTS
    Sockets,  \* WebSocket objects
    None      \* no socket

ASSUME DashboardSocketAssumption ==
    /\ IsFiniteSet(Sockets)
    /\ None \notin Sockets

VARIABLES
    strict,     \* a development build with React.StrictMode
    phase,      \* where the component is in its life
    ready,      \* readyState; a socket whose onclose ran is "none" again
    wsRef,      \* the socket opened last, or None
    timers,     \* reconnection timers pending
    timerRef,   \* whether the timer in reconnectTimerRef is pending
    connected,  \* the state the views show
    fetches,    \* state of the fetch of each mount
    pushed,     \* snapshots under way on each socket, "latest" or "old"
    latest      \* whether the topology shown is the latest

life   == <<strict, phase>>
socket == <<ready, wsRef, timers, timerRef, connected>>
data   == <<fetches, pushed, latest>>
vars   == <<life, socket, data>>

Mounts == {1, 2}
Alive  == {s \in Sockets : ready[s] # "none"}

Snapshots == {"latest", "old"}

TypeOK ==
    /\ strict \in BOOLEAN
    /\ phase \in {"fresh", "mounted", "gone"}
    /\ ready \in [Sockets -> {"none", "connecting", "open", "closing"}]
    /\ wsRef \in Sockets \cup {None}
    /\ timers \in 0 .. 2
    /\ timerRef \in BOOLEAN
    /\ connected \in BOOLEAN
    /\ fetches \in [Mounts -> {"none", "sent", "latest", "old"}]
    /\ pushed \in [Sockets -> SUBSET Snapshots]
    /\ \A s \in Sockets : ready[s] # "open" => pushed[s] = {}
    /\ latest \in BOOLEAN

Init ==
    /\ strict \in BOOLEAN
    /\ phase = "fresh"
    /\ ready = [s \in Sockets |-> "none"]
    /\ wsRef = None
    /\ timers = 0
    /\ timerRef = FALSE
    /\ connected = FALSE
    /\ fetches = [m \in Mounts |-> "none"]
    /\ pushed = [s \in Sockets |-> {}]
    /\ latest = FALSE

----------------------------------------------------------------------------
(* The hook. *)

IsOpen(s) == s \in Sockets /\ ready[s] = "open"

\* connect(): unless the socket in wsRef is OPEN, open another one.
Connect ==
    IF IsOpen(wsRef) THEN UNCHANGED <<ready, wsRef>>
    ELSE \E s \in Sockets \ Alive :
            /\ ready' = [ready EXCEPT ![s] = "connecting"]
            /\ wsRef' = s

\* The effects run: connect() and fetch("/api/topology").
Mount ==
    /\ phase = "fresh" /\ ~strict
    /\ phase' = "mounted"
    /\ Connect
    /\ fetches' = [fetches EXCEPT ![1] = "sent"]
    /\ UNCHANGED <<strict, timers, timerRef, connected, pushed, latest>>

\* The effects run, are cleaned up, which closes the first socket, and run
\* again.
MountTwice ==
    /\ phase = "fresh" /\ strict
    /\ phase' = "mounted"
    /\ \E s, t \in Sockets :
         /\ s # t
         /\ ready' = [ready EXCEPT ![s] = "closing", ![t] = "connecting"]
         /\ wsRef' = t
    /\ fetches' = [m \in Mounts |-> "sent"]
    /\ UNCHANGED <<strict, timers, timerRef, connected, pushed, latest>>

\* Mutant: the cleanup takes it that a timer is pending.
ClearAnyTimer == timers' = timers - 1

\* clearTimeout(reconnectTimerRef.current)
ClearTimer == timers' = IF timerRef THEN timers - 1 ELSE timers

\* The cleanup: wsRef.current?.close(), then the timer.
Unmount ==
    /\ phase = "mounted"
    /\ phase' = "gone"
    /\ ready' = [s \in Sockets |->
                   IF s = wsRef /\ s \in Alive THEN "closing" ELSE ready[s]]
    /\ pushed' = [s \in Sockets |-> IF s = wsRef THEN {} ELSE pushed[s]]
    /\ ClearTimer
    /\ timerRef' = FALSE
    /\ UNCHANGED <<strict, wsRef, connected, fetches, latest>>

\* Mutant: onopen does not tell the views.
OpenedSilently(s) ==
    /\ ready[s] = "connecting"
    /\ ready' = [ready EXCEPT ![s] = "open"]
    /\ UNCHANGED <<life, wsRef, timers, timerRef, connected, data>>

\* onopen
Opened(s) ==
    /\ ready[s] = "connecting"
    /\ ready' = [ready EXCEPT ![s] = "open"]
    /\ connected' = TRUE
    /\ UNCHANGED <<life, wsRef, timers, timerRef, data>>

\* The server closes, the network breaks, or the connection is refused;
\* onerror's close() leads to the same.
Fails(s) ==
    /\ ready[s] \in {"connecting", "open"}
    /\ ready' = [ready EXCEPT ![s] = "closing"]
    /\ pushed' = [pushed EXCEPT ![s] = {}]
    /\ UNCHANGED <<life, wsRef, timers, timerRef, connected, fetches, latest>>

\* Mutant: a connection attempt that failed is not repeated.
ClosedGivesUp(s) ==
    /\ ready[s] = "closing"
    /\ ready' = [ready EXCEPT ![s] = "none"]
    /\ timers' = IF connected THEN timers + 1 ELSE timers
    /\ timerRef' = (timerRef \/ connected)
    /\ connected' = FALSE
    /\ UNCHANGED <<life, wsRef, data>>

\* Mutant: onclose leaves connected alone.
ClosedSilently(s) ==
    /\ ready[s] = "closing"
    /\ ready' = [ready EXCEPT ![s] = "none"]
    /\ timers' = timers + 1
    /\ timerRef' = TRUE
    /\ UNCHANGED <<life, wsRef, connected, data>>

\* onclose: setConnected(false), and a new timer in reconnectTimerRef.
Closed(s) ==
    /\ ready[s] = "closing"
    /\ ready' = [ready EXCEPT ![s] = "none"]
    /\ timers' = timers + 1
    /\ timerRef' = TRUE
    /\ connected' = FALSE
    /\ UNCHANGED <<life, wsRef, data>>

\* The oldest timer fires; the one in reconnectTimerRef is the youngest.
TimerFires ==
    /\ timers > 0
    /\ timers' = timers - 1
    /\ timerRef' = (timerRef /\ timers > 1)
    /\ Connect
    /\ UNCHANGED <<life, connected, data>>

----------------------------------------------------------------------------
(* The topology. *)

\* The server's topology changes, which makes every other one old.
Update ==
    /\ latest' = FALSE
    /\ pushed' = [s \in Sockets |-> IF pushed[s] = {} THEN {} ELSE {"old"}]
    /\ fetches' = [m \in Mounts |->
                     IF fetches[m] = "latest" THEN "old" ELSE fetches[m]]
    /\ UNCHANGED <<life, socket>>

\* A broadcast sends its snapshot to a dashboard, the latest one or one it
\* read before others wrote.  Those under way may arrive in any order.
HubSends(s, snapshot) ==
    /\ ready[s] = "open"
    /\ pushed' = [pushed EXCEPT ![s] = pushed[s] \cup {snapshot}]
    /\ UNCHANGED <<life, socket, fetches, latest>>

\* Mutant: a message does not replace the topology there is.
PushIgnored(s) ==
    /\ \E snapshot \in pushed[s] :
         pushed' = [pushed EXCEPT ![s] = pushed[s] \ {snapshot}]
    /\ UNCHANGED <<life, socket, fetches, latest>>

\* onmessage: setTopology(snapshot)
Push(s) ==
    /\ \E snapshot \in pushed[s] :
         /\ pushed' = [pushed EXCEPT ![s] = pushed[s] \ {snapshot}]
         /\ latest' = (snapshot = "latest")
    /\ UNCHANGED <<life, socket, fetches>>

\* The server answers the fetch; then or never the answer arrives.  The
\* test of topology reads the value of the first render, which is null.
FetchStep(m) ==
    /\ \/ /\ fetches[m] = "sent"
          /\ fetches' = [fetches EXCEPT ![m] = "latest"]
          /\ UNCHANGED latest
       \/ /\ fetches[m] \in {"latest", "old"}
          /\ latest' \in {latest, fetches[m] = "latest"}
          /\ fetches' = [fetches EXCEPT ![m] = "none"]
    /\ UNCHANGED <<life, socket, pushed>>

----------------------------------------------------------------------------
Hook ==
    \/ Mount
    \/ MountTwice
    \/ TimerFires
    \/ \E s \in Sockets : Opened(s) \/ Closed(s) \/ Push(s)
    \/ \E m \in Mounts : FetchStep(m)

Server ==
    \/ Update
    \/ \E s \in Sockets : Fails(s) \/ \E snapshot \in Snapshots : HubSends(s, snapshot)

Next == Hook \/ Unmount \/ Server

Spec == Init /\ [][Next]_vars

\* The browser runs the callbacks that are due and ends every connection
\* attempt; the server may fail, update and send its topology as it likes.
FairSpec ==
    /\ Spec
    /\ WF_vars(TimerFires)
    /\ \A s \in Sockets : WF_vars(Opened(s)) /\ WF_vars(Closed(s)) /\ WF_vars(Push(s))
    /\ \A m \in Mounts : WF_vars(FetchStep(m))

----------------------------------------------------------------------------
(* Safety. *)

\* A mounted hook always has exactly one thing that can bring the next
\* topology: a socket or a timer that will open one.  None would be a
\* dashboard that never reconnects, two a socket that is never closed.
\* Only StrictMode's second mount adds one, and it adds no more.
OneLifeline ==
    phase = "mounted"
        => Cardinality(Alive) + timers \in 1 .. (IF strict THEN 2 ELSE 1)

\* Outside StrictMode the views never show a connection that is not there:
\* connected was set by the socket in wsRef, whose onclose did not run yet.
ConnectedIsOpen ==
    (phase = "mounted" /\ ~strict /\ connected)
        => wsRef \in Alive /\ ready[wsRef] # "connecting"

(* Liveness. *)

\* Once connections stop failing a mounted hook gets a connection and keeps
\* it, and outside StrictMode it says so.
Reconnects ==
    (<>[](phase = "mounted") /\ <>[][\A s \in Sockets : ~Fails(s)]_vars)
        => <>[](IsOpen(wsRef) /\ (strict \/ connected))

\* The late answer of the initial fetch may show an old topology over a
\* newer one, and so may a push.  Once what the nodes report stays the same
\* and the last broadcasts that read something older have ended, the
\* latest topology comes back and stays, on a connection that lasts and is
\* pushed to: whatever is old and still under way comes to its end.
SettledTopologyShown ==
    (/\ <>[](phase = "mounted")
     /\ <>[][~Update /\ \A s \in Sockets : ~Fails(s) /\ ~HubSends(s, "old")]_vars
     /\ []<><<\E s \in Sockets : HubSends(s, "latest")>>_vars)
        => <>[]latest

=============================================================================
