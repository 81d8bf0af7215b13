----------------------------- MODULE EventStream -----------------------------
(***************************************************************************)
(* The path of an event from EventEmitter to a browser: the emitter numbers *)
(* it, EventBus appends it to a bounded replay buffer and to the queue of   *)
(* every subscriber, and one WebSocket handler per connection              *)
(* (backend/app/api/ws.py and runtime_stream in routes_runtime.py, which   *)
(* are line by line the same) sends a snapshot or a backlog and then       *)
(* drains its queue.                                                       *)
(*                                                                         *)
(* publish() never suspends and neither do subscribe, since and snapshot,  *)
(* so each is atomic; every send_text does suspend, so other steps fall    *)
(* between any two frames.  Frames travel in order and are lost when the   *)
(* connection drops.  One client is followed over its reconnects; each of  *)
(* its connections gets a handler of its own, and a handler whose client   *)
(* is gone stays subscribed until a send fails.                            *)
(***************************************************************************)
EXTENDS Integers, Sequences, FiniteSets

CONSTANTS
    Conn,      \* connections, each with its handler
    None,
    RingSize,  \* EventBus.RING_SIZE, 2000 in the code
    MaxBatch,  \* bound on the events of one publish()
    MaxSeq     \* bound on the events of the whole log

ASSUME RingAssumption  == RingSize \in Nat \ {0}
ASSUME BoundAssumption == MaxBatch \in Nat /\ MaxSeq \in Nat
ASSUME NoneAssumption  == None \notin Conn /\ None \notin [type : {"snapshot", "event"}, seq : Int]

VARIABLES
    next_seq,   \* EventEmitter._next_seq
    buffer,     \* EventBus._buffer
    queue,      \* queue[h]: the subscriber queue of handler h
    phase,      \* "none", "starting" (sending `todo`) or "live" (draining the queue)
    todo,       \* the snapshot or backlog frames a handler has still to send
    last_sent,  \* last_sent_seq of a handler
    current,    \* the connection the client is on, None while it is disconnected
    wire,       \* frames sent on `current` and not yet received
    frame       \* the last frame the client has applied, kept over reconnects

busVars     == <<next_seq, buffer>>
handlerVars == <<queue, phase, todo, last_sent>>
clientVars  == <<current, wire, frame>>
vars == <<busVars, handlerVars, clientVars>>

----------------------------------------------------------------------------
last_seq == next_seq - 1

Frame == [type : {"snapshot", "event"}, seq : Int]
Snapshot(n)   == [type |-> "snapshot", seq |-> n]
EventFrame(n) == [type |-> "event", seq |-> n]

\* Where the client is in the log: the reducer's lastSeq.
seen == IF frame = None THEN None ELSE frame.seq

\* deque(maxlen=RING_SIZE): appending to a full buffer drops the oldest.
KeepLast(s, n) == IF Len(s) <= n THEN s ELSE SubSeq(s, Len(s) - n + 1, Len(s))

\* Whether `seq` is outside the replay buffer (EventBus.since returns None).
\* Variant: off by one, so that an evicted event passes for a buffered one.
OutsideByTwo(seq) == buffer # << >> /\ seq < buffer[1] - 2

Outside(seq) == buffer # << >> /\ seq < buffer[1] - 1

\* The events after `seq`: of a log in order, what follows those up to it.
After(log, seq) ==
    SubSeq(log, 1 + Cardinality({i \in DOMAIN log : log[i] <= seq}), Len(log))

\* What since() returns otherwise.
\* Variant: the named event is sent again.
SinceInclusive(seq) == After(buffer, seq - 1)

Since(seq) == After(buffer, seq)

Init ==
    /\ next_seq = 0 /\ buffer = << >>
    /\ queue = [h \in Conn |-> << >>]
    /\ phase = [h \in Conn |-> "none"]
    /\ todo = [h \in Conn |-> << >>]
    /\ last_sent = [h \in Conn |-> -1]
    /\ current = None /\ wire = << >> /\ frame = None

\* The bus's subscriber set.
Subscribed == {h \in Conn : phase[h] # "none"}

\* emit(drafts) followed by bus.publish(events), n events long.
Publish(n) ==
    /\ next_seq + n <= MaxSeq
    /\ next_seq' = next_seq + n
    /\ LET new == [i \in 1..n |-> next_seq + i - 1] IN
         /\ buffer' = KeepLast(buffer \o new, RingSize)
         /\ queue' = [h \in Conn |-> IF h \in Subscribed THEN queue[h] \o new
                                     ELSE queue[h]]
    /\ UNCHANGED <<phase, todo, last_sent, clientVars>>

----------------------------------------------------------------------------
\* accept(), subscribe(), then snapshot() or since(): no publish in between.
Accept(h, frames, start) ==
    /\ current = None /\ h \notin Subscribed
    /\ current' = h /\ wire' = << >>
    /\ phase' = [phase EXCEPT ![h] = "starting"]
    /\ queue' = [queue EXCEPT ![h] = << >>]
    /\ todo' = [todo EXCEPT ![h] = frames]
    /\ last_sent' = [last_sent EXCEPT ![h] = start]
    /\ UNCHANGED <<busVars, frame>>

AcceptFresh(h) == Accept(h, <<Snapshot(last_seq)>>, last_seq)

\* since_seq is the last event the client has applied.
AcceptSince(h) ==
    /\ seen # None
    /\ IF Outside(seen) THEN AcceptFresh(h)
       ELSE LET backlog == Since(seen) IN
            Accept(h, [i \in DOMAIN backlog |-> EventFrame(backlog[i])], seen)

SendStart(h) ==
    /\ phase[h] = "starting" /\ todo[h] # << >> /\ current = h
    /\ wire' = Append(wire, Head(todo[h]))
    /\ last_sent' = [last_sent EXCEPT ![h] = Head(todo[h]).seq]
    /\ todo' = [todo EXCEPT ![h] = Tail(@)]
    /\ UNCHANGED <<busVars, queue, phase, current, frame>>

GoLive(h) ==
    /\ phase[h] = "starting" /\ todo[h] = << >>
    /\ phase' = [phase EXCEPT ![h] = "live"]
    /\ UNCHANGED <<busVars, queue, todo, last_sent, clientVars>>

\* One turn of the loop; `if event.seq <= last_sent_seq: continue` sends nothing.
SendLive(h) ==
    /\ phase[h] = "live" /\ queue[h] # << >> /\ current = h
    /\ queue' = [queue EXCEPT ![h] = Tail(@)]
    /\ LET n == Head(queue[h]) IN
         IF n <= last_sent[h] THEN UNCHANGED <<wire, last_sent>>
         ELSE /\ wire' = Append(wire, EventFrame(n))
              /\ last_sent' = [last_sent EXCEPT ![h] = n]
    /\ UNCHANGED <<busVars, phase, todo, current, frame>>

\* Variant: the exception is swallowed inside the loop.
SendIgnoresFailure(h) ==
    /\ current # h
    /\ phase[h] = "live" /\ queue[h] # << >> /\ Head(queue[h]) > last_sent[h]
    /\ queue' = [queue EXCEPT ![h] = Tail(@)]
    /\ UNCHANGED <<busVars, phase, todo, last_sent, clientVars>>

\* A send to a client that is gone raises; the finally clause unsubscribes.
SendFails(h) ==
    /\ current # h
    /\ \/ phase[h] = "starting" /\ todo[h] # << >>
       \/ phase[h] = "live" /\ queue[h] # << >> /\ Head(queue[h]) > last_sent[h]
    /\ phase' = [phase EXCEPT ![h] = "none"]
    /\ queue' = [queue EXCEPT ![h] = << >>]
    /\ todo' = [todo EXCEPT ![h] = << >>]
    /\ UNCHANGED <<busVars, last_sent, clientVars>>

----------------------------------------------------------------------------
\* The client applies the next frame; a snapshot replaces what it had.
Receive ==
    /\ current # None /\ wire # << >>
    /\ frame' = Head(wire)
    /\ wire' = Tail(wire)
    /\ UNCHANGED <<busVars, handlerVars, current>>

\* The connection drops; its handler finds out at its next send, if any.
Drop ==
    /\ current # None
    /\ current' = None /\ wire' = << >>
    /\ UNCHANGED <<busVars, handlerVars, frame>>

Connect == \E h \in Conn : AcceptFresh(h) \/ AcceptSince(h)

Handler(h) == SendStart(h) \/ GoLive(h) \/ SendLive(h) \/ SendFails(h)

Next ==
    \/ \E n \in 1..MaxBatch : Publish(n)
    \/ Connect \/ Receive \/ Drop
    \/ \E h \in Conn : Handler(h)

Spec == Init /\ [][Next]_vars

----------------------------------------------------------------------------
(* Properties *)

TypeOK ==
    /\ next_seq \in 0..MaxSeq
    /\ buffer \in Seq(Nat) /\ Len(buffer) <= RingSize
    /\ queue \in [Conn -> Seq(Nat)]
    /\ phase \in [Conn -> {"none", "starting", "live"}]
    /\ todo \in [Conn -> Seq(Frame)]
    /\ last_sent \in [Conn -> Int]
    /\ current \in Conn \cup {None}
    /\ wire \in Seq(Frame)
    /\ frame \in Frame \cup {None}

Seqs(frames) == [i \in DOMAIN frames |-> frames[i].seq]

\* What the client on connection h will still receive if nothing is published.
Coming(h) ==
    LET begun == Seqs(wire) \o Seqs(todo[h])
        from  == IF todo[h] = << >> THEN last_sent[h] ELSE begun[Len(begun)]
    IN  begun \o After(queue[h], from)

StartsWithSnapshot(h) ==
    \/ wire # << >> /\ Head(wire).type = "snapshot"
    \/ wire = << >> /\ todo[h] # << >> /\ Head(todo[h]).type = "snapshot"

\* Subscribe before snapshot: at every moment the frames on the wire, the frames
\* the handler still holds and its queue join, without gap or repetition, what
\* the client has to the end of the log ("a concurrent publish can never slip
\* through the gap between the two", ws.py:22).
NothingSlipsThrough ==
    current # None =>
      LET coming == Coming(current) IN
      /\ \A i \in 1..(Len(coming) - 1) : coming[i + 1] = coming[i] + 1
      /\ IF coming = << >> THEN seen = last_seq
         ELSE coming[Len(coming)] = last_seq
              /\ (StartsWithSnapshot(current) \/ coming[1] = seen + 1)

\* No gap and no replayed duplicate (SPEC.md:392), over reconnects too: the
\* stream implements the abstract feed.
Feed == INSTANCE GaplessFeed WITH last <- last_seq
ImplementsFeed == Feed!Spec

----------------------------------------------------------------------------
\* The event loop runs every handler that can run, and delivers what was sent.
Fairness == WF_vars(Receive) /\ \A h \in Conn : WF_vars(Handler(h))
FairSpec == Spec /\ Fairness

\* A handler whose client left is dropped by the bus once an event comes that it
\* would have to send.  (Without one it stays subscribed for good.)
GoneHandlersLeave ==
    \A h \in Conn :
        (/\ phase[h] # "none" /\ current # h
         /\ \E i \in DOMAIN queue[h] : queue[h][i] > last_sent[h])
        ~> phase[h] = "none"
============================================================================
