---------------------------- MODULE StreamClient ----------------------------
(***************************************************************************)
(* The browser's end of the stream: the useExperimentStream and            *)
(* useRuntimeStream hooks, which own a WebSocket, check that every event   *)
(* frame is the one they expect, and reconnect, until the component that   *)
(* uses them is unmounted.  The second one first reads a snapshot and the  *)
(* event page over HTTP.                                                   *)
(*                                                                         *)
(* A callback runs to completion, so each is one action; between two of    *)
(* them anything else may happen.  A server handler is reduced to what     *)
(* EventStream shows it delivers (GaplessFeed): one snapshot or a          *)
(* resumption, and then every event in turn.                               *)
(***************************************************************************)
EXTENDS Integers, FiniteSets

CONSTANTS
    Socket,    \* WebSocket objects that may be alive at the same time
    None,
    RingSize,  \* EventBus.RING_SIZE
    LastSeq,   \* LastSeq[hook]: bound on the log
    Drops      \* Drops[hook]: bound on the connections and requests that break

Hook == {"experiment", "runtime"}

ASSUME ClientAssumption ==
    /\ Socket # {} /\ None \notin Socket /\ None \notin Int
    /\ RingSize \in Nat \ {0}
    /\ LastSeq \in [Hook -> Nat] /\ Drops \in [Hook -> Nat]

VARIABLES
    hook,       \* "experiment" or "runtime": which of the two hooks this is
    cancelled,  \* its effect was cleaned up
    last,       \* seq of the last event the server has published
    attach,     \* the attach() coroutine: "snapshot", "events" or "done"
    backfilled, \* last_seq of the snapshot read over HTTP
    socket,     \* the hook's `socket` variable: the newest WebSocket object
    state,      \* state[s]: see SocketState
    since,      \* since_seq in the URL of s, None if absent
    first,      \* seq of the snapshot the handler of s is to send first, or None
    at,         \* seq the handler of s has sent up to
    timers,     \* timers[n]: pending setTimeout(() => connect(n))
    expected,   \* expectedNextSeq
    view,       \* GraphState.lastSeq
    applied,    \* the events reduce() has applied since the last HTTP backfill
    drops

hookVars   == <<hook, cancelled>>
socketVars == <<socket, state, since, first, at>>
attachVars == <<attach, backfilled>>
viewVars   == <<expected, view, applied>>
vars == <<hookVars, last, attachVars, socketVars, timers, viewVars, drops>>

MaxSeq == LastSeq[hook]
Seqs == -1..MaxSeq

\* "closing": onclose is to come; "failing": onerror and onclose are, in one task.
SocketState == {"none", "connecting", "open", "closing", "failing"}
Live == {s \in Socket : state[s] \in {"connecting", "open"}}

Init ==
    /\ last = -1
    /\ hook \in Hook /\ cancelled = FALSE
    /\ attach = IF hook = "runtime" THEN "snapshot" ELSE "done"
    /\ backfilled = None
    /\ timers = [n \in Seqs \cup {None} |-> 0]
    /\ first = [s \in Socket |-> None] /\ at = [s \in Socket |-> -1]
    /\ since = [s \in Socket |-> None]
    /\ expected = None /\ view = -1 /\ applied = {} /\ drops = 0
    /\ \* useEffect ends in connect(), or in `void attach()`
       IF hook = "runtime"
       THEN socket = None /\ state = [s \in Socket |-> "none"]
       ELSE /\ socket = CHOOSE s \in Socket : TRUE
            /\ state = [s \in Socket |-> IF s = socket THEN "connecting" ELSE "none"]

Publish ==
    /\ last < MaxSeq
    /\ last' = last + 1
    /\ UNCHANGED <<hookVars, attachVars, socketVars, timers, viewVars, drops>>

----------------------------------------------------------------------------
\* connect(n): the new WebSocket replaces the hook's variable, not the old one.
Free == {s \in Socket : state[s] = "none"}

Connect(n) ==
    /\ Free # {}
    /\ LET s == CHOOSE t \in Free : TRUE
       IN  /\ socket' = s
           /\ state' = [state EXCEPT ![s] = "connecting"]
           /\ since' = [since EXCEPT ![s] = n]
    /\ UNCHANGED <<first, at>>

\* scheduleReconnect(n): a timer that is already pending is not cleared.
Scheduled(n) == IF cancelled THEN timers ELSE [timers EXCEPT ![n] = @ + 1]

TimerFires ==
    \E n \in Seqs \cup {None} :
      /\ timers[n] > 0
      /\ timers' = [timers EXCEPT ![n] = @ - 1]
      /\ Connect(n)
      /\ UNCHANGED <<hookVars, last, attachVars, viewVars, drops>>

\* attach(): GET /snapshot, then GET /events?since_seq=-1, then connect().
ReadSnapshot ==
    /\ attach = "snapshot"
    /\ attach' = "events"
    /\ backfilled' = last
    /\ view' = last /\ expected' = last + 1 /\ applied' = {}
    /\ UNCHANGED <<hookVars, last, socketVars, timers, drops>>

ReadEvents ==
    /\ attach = "events"
    /\ last < RingSize
    /\ attach' = "done"
    /\ view' = last /\ expected' = last + 1
    /\ Connect(backfilled)
    /\ UNCHANGED <<hookVars, last, backfilled, timers, applied, drops>>

\* The page is refused (409: the history was evicted) or a request fails: the
\* `catch` falls back to connect().
AttachFails ==
    /\ attach # "done"
    /\ \/ attach = "events" /\ last >= RingSize /\ UNCHANGED drops
       \/ drops < Drops[hook] /\ drops' = drops + 1
    /\ attach' = "done"
    /\ Connect(None)
    /\ UNCHANGED <<hookVars, last, backfilled, timers, viewVars>>

----------------------------------------------------------------------------
\* `socket?.close()`: of the hook's variable, whichever socket the callback is of.
\* A connection closed before it is made has failed.
CloseNewest(states) ==
    [s \in Socket |->
       IF s = socket /\ states[s] = "connecting" THEN "failing"
       ELSE IF s = socket /\ states[s] = "open" THEN "closing" ELSE states[s]]

\* The server's handler subscribes and decides between snapshot and backlog.
ServerAccepts(s) ==
    /\ state[s] = "connecting"
    /\ state' = [state EXCEPT ![s] = "open"]
    /\ IF since[s] = None \/ since[s] < last - RingSize
       THEN first' = [first EXCEPT ![s] = last] /\ at' = at
       ELSE first' = [first EXCEPT ![s] = None] /\ at' = [at EXCEPT ![s] = since[s]]
    /\ UNCHANGED <<hookVars, last, attachVars, socket, since, timers, viewVars, drops>>

SnapshotArrives(s) ==
    /\ state[s] = "open" /\ first[s] # None
    /\ at' = [at EXCEPT ![s] = first[s]]
    /\ first' = [first EXCEPT ![s] = None]
    /\ view' = first[s] /\ expected' = first[s] + 1
    /\ UNCHANGED <<hookVars, last, attachVars, socket, state, since, timers, applied, drops>>

Arrives(s) == state[s] = "open" /\ first[s] = None /\ at[s] < last
Gap(s)     == Arrives(s) /\ expected # None /\ at[s] + 1 # expected

EventArrives(s) ==
    /\ Arrives(s) /\ ~Gap(s)
    /\ at' = [at EXCEPT ![s] = @ + 1]
    /\ view' = at[s] + 1 /\ expected' = at[s] + 2
    /\ applied' = applied \cup {at[s] + 1}
    /\ UNCHANGED <<hookVars, last, attachVars, socket, state, since, first, timers, drops>>

\* A frame out of order: `socket?.close(); scheduleReconnect(undefined)`.  It is
\* the newest socket that is closed, and closing it will call onclose as well.
GapArrives(s) ==
    /\ Gap(s)
    /\ at' = [at EXCEPT ![s] = @ + 1]
    /\ state' = CloseNewest(state)
    /\ timers' = Scheduled(None)
    /\ UNCHANGED <<hookVars, last, attachVars, socket, since, first, viewVars, drops>>

\* Where onclose resumes: after the last frame applied.
\* Variant: it names the frame it still wants, which the server then skips.
ResumeAtExpected == IF expected = MaxSeq + 1 THEN MaxSeq ELSE expected

ResumeAt == IF expected = None THEN None ELSE expected - 1

\* Variant: onerror schedules a reconnect of its own, besides the one of onclose.
BreaksAndReconnects(s) ==
    /\ s \in Live /\ drops < Drops[hook]
    /\ drops' = drops + 1
    /\ state' = [state EXCEPT ![s] = "closing"]
    /\ timers' = Scheduled(ResumeAt)
    /\ UNCHANGED <<hookVars, last, attachVars, socket, since, first, at, viewVars>>

\* The server closes the connection, or it is lost: an error.
ConnectionBreaks(s) ==
    /\ s \in Live /\ drops < Drops[hook]
    /\ drops' = drops + 1
    /\ \E how \in {"closing", "failing"} : state' = [state EXCEPT ![s] = how]
    /\ UNCHANGED <<hookVars, last, attachVars, socket, since, first, at, timers, viewVars>>

\* onclose, after onerror if the connection failed: an older socket that fails
\* takes the newest one with it.
OnClose(s) ==
    /\ state[s] \in {"closing", "failing"}
    /\ LET gone == [state EXCEPT ![s] = "none"]
       IN  state' = IF state[s] = "failing" THEN CloseNewest(gone) ELSE gone
    /\ since' = [since EXCEPT ![s] = None]
    /\ first' = [first EXCEPT ![s] = None] /\ at' = [at EXCEPT ![s] = -1]
    /\ timers' = Scheduled(ResumeAt)
    /\ UNCHANGED <<hookVars, last, attachVars, socket, viewVars, drops>>

\* The effect's cleanup, when the component goes or follows another run: the
\* request is aborted, and a timer that is not cleared finds `cancelled` and does
\* nothing.  Of the sockets, the newest is closed.
\* Variant: the cleanup only clears the timer.
UnmountKeepsTheSocket ==
    /\ ~cancelled
    /\ cancelled' = TRUE
    /\ attach' = "done"
    /\ timers' = [n \in DOMAIN timers |-> 0]
    /\ UNCHANGED <<hook, last, backfilled, socketVars, viewVars, drops>>

Unmount ==
    /\ ~cancelled
    /\ cancelled' = TRUE
    /\ attach' = "done"
    /\ timers' = [n \in DOMAIN timers |-> 0]
    /\ state' = CloseNewest(state)
    /\ UNCHANGED <<hook, last, backfilled, socket, since, first, at, viewVars, drops>>

Deliver(s) == SnapshotArrives(s) \/ EventArrives(s) \/ GapArrives(s)

Next ==
    \/ Publish \/ TimerFires \/ Unmount
    \/ ReadSnapshot \/ ReadEvents \/ AttachFails
    \/ \E s \in Socket : ServerAccepts(s) \/ Deliver(s) \/ ConnectionBreaks(s) \/ OnClose(s)

\* Strong for ServerAccepts: the two connections that a gap leaves the live session's hook
\* may fail each other, by onerror, before either is made.  A retry waits at least a
\* quarter of a second, and an error is told at once: what is ruled out is that a blocked
\* page reverses the two every time, for ever.
Fairness ==
    /\ WF_vars(TimerFires) /\ WF_vars(ReadSnapshot \/ ReadEvents \/ AttachFails)
    /\ \A s \in Socket : SF_vars(ServerAccepts(s)) /\ WF_vars(Deliver(s)) /\ WF_vars(OnClose(s))

Spec == Init /\ [][Next]_vars
FairSpec == Spec /\ Fairness

----------------------------------------------------------------------------
(* Properties *)

TypeOK ==
    /\ hook \in Hook /\ cancelled \in BOOLEAN
    /\ last \in Seqs /\ view \in Seqs
    /\ attach \in {"snapshot", "events", "done"}
    /\ backfilled \in Seqs \cup {None}
    /\ socket \in Socket \cup {None}
    /\ state \in [Socket -> SocketState]
    /\ since \in [Socket -> Seqs \cup {None}]
    /\ first \in [Socket -> Seqs \cup {None}]
    /\ at \in [Socket -> Seqs]
    /\ timers \in [Seqs \cup {None} -> Nat]
    /\ expected \in 0..(MaxSeq + 1) \cup {None}
    /\ applied \subseteq Seqs
    /\ drops \in 0..Drops[hook]

\* "Owns the socket" (SPEC.md:305): the simulator's hook never feeds its state
\* from two connections at the same time, and lets go of the one it has when its
\* component is gone.
SocketIsOwned ==
    hook = "experiment" => Cardinality(Live) <= (IF cancelled THEN 0 ELSE 1)

\* The same of the live session's hook, whose backfill does meet a gap: the gap
\* branch and the onclose it causes schedule a reconnect each.
OneSocket == Cardinality(Live) <= 1

\* "No gap, no replayed duplicates" (SPEC.md:392): over any number of broken
\* connections no frame of a healthy server is taken for a gap, and no event is
\* handed to the reducer twice or after a later one.
EachEventOnce ==
    [][hook = "experiment" =>
         \A s \in Socket :
           /\ ~GapArrives(s)
           /\ EventArrives(s) => \A n \in applied : n < at[s] + 1]_vars

\* The network breaks finitely many connections, by whose errors older sockets may take
\* the newest with them: the view of a mounted hook catches up for good.
CatchesUp == <>[](cancelled \/ view = last)
============================================================================
