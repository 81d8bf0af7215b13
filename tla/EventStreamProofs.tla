-------------------------- MODULE EventStreamProofs --------------------------
(* Theorems about EventStream for every size of the replay buffer, every number *)
(* of connections and every length of the log.                                 *)
EXTENDS EventStream, FiniteSetTheorems, SequenceTheorems, TLAPS

\* The n events after `start`, in order.
Run(log, start, n) ==
    /\ log \in Seq(Int) /\ Len(log) = n
    /\ \A i \in 1..n : log[i] = start + i

\* The buffer is the newest part of the log, and empty only before the first event.
Buffer ==
    /\ next_seq \in Nat
    /\ Run(buffer, last_seq - Len(buffer), Len(buffer))
    /\ buffer = << >> => next_seq = 0

\* A handler has a snapshot to send, or the events after the last one it sent.
HoldsSnapshot(h) == todo[h] = <<Snapshot(last_sent[h])>>
HoldsEvents(h) ==
    /\ todo[h] \in Seq(Frame)
    /\ \A i \in 1..Len(todo[h]) : todo[h][i] = EventFrame(last_sent[h] + i)

\* The position up to which a handler has frames outside its queue.
Begun(h) == IF HoldsSnapshot(h) THEN last_sent[h] ELSE last_sent[h] + Len(todo[h])

\* A subscribed handler's queue is the rest of the log.
HandlerJoins(h) ==
    /\ last_sent[h] \in Int /\ last_sent[h] >= -1
    /\ HoldsSnapshot(h) \/ HoldsEvents(h)
    /\ phase[h] = "live" => todo[h] = << >>
    /\ Run(queue[h], Begun(h), last_seq - Begun(h)) /\ Begun(h) <= last_seq

\* Only the frame at the head of the wire may be a snapshot.
WireEvents(h) ==
    \A i \in 2..Len(wire) : wire[i] = EventFrame(last_sent[h] - Len(wire) + i)
WireJoins(h) ==
    /\ wire \in Seq(Frame) /\ WireEvents(h)
    /\ IF HoldsSnapshot(h)
       THEN wire = << >> /\ (frame # None => frame.seq <= last_sent[h])
       ELSE \/ /\ wire # << >> /\ wire[1] = Snapshot(last_sent[h] - Len(wire) + 1)
               /\ frame # None => frame.seq < last_sent[h] - Len(wire) + 2
               /\ last_sent[h] - Len(wire) + 1 >= -1
            \/ /\ frame # None /\ frame.seq = last_sent[h] - Len(wire)
               /\ wire # << >> => wire[1] = EventFrame(last_sent[h] - Len(wire) + 1)

Types ==
    /\ DOMAIN queue = Conn /\ DOMAIN todo = Conn /\ DOMAIN last_sent = Conn
    /\ phase \in [Conn -> {"none", "starting", "live"}]
    /\ current \in Conn \cup {None}
    /\ frame # None => frame \in Frame /\ frame.seq >= -1 /\ frame.seq <= last_seq

IInv ==
    /\ Buffer /\ Types
    /\ \A h \in Subscribed : HandlerJoins(h)
    /\ \A h \in Conn : current = h => h \in Subscribed /\ WireJoins(h)

----------------------------------------------------------------------------
(* Runs of events *)

LEMMA RunsConcatenate ==
    ASSUME NEW log, NEW new, NEW start \in Int, NEW n \in Nat, NEW m \in Nat,
           Run(log, start, n), Run(new, start + n, m)
    PROVE  Run(log \o new, start, n + m)
<1>0. log \in Seq(Int) /\ new \in Seq(Int) /\ Len(log) = n /\ Len(new) = m
  BY DEF Run
<1>1. /\ log \o new \in Seq(Int) /\ Len(log \o new) = n + m
      /\ \A i \in 1..(n + m) : (log \o new)[i] = IF i <= n THEN log[i] ELSE new[i - n]
  BY <1>0, ConcatProperties
<1>2. ASSUME NEW i \in 1..(n + m)
      PROVE  (log \o new)[i] = start + i
  <2>1. CASE i <= n
    <3>1. (log \o new)[i] = log[i] /\ i \in 1..n
      BY <1>1, <2>1
    <3> QED
      BY <3>1 DEF Run
  <2>2. CASE i > n
    <3>1. (log \o new)[i] = new[i - n] /\ i - n \in 1..m
      BY <1>1, <2>2
    <3>2. new[i - n] = (start + n) + (i - n)
      BY <3>1 DEF Run
    <3>3. (start + n) + (i - n) = start + i
      OBVIOUS
    <3> QED
      BY <3>1, <3>2, <3>3, Zenon
  <2>3. i <= n \/ i > n
    OBVIOUS
  <2> QED
    BY <2>1, <2>2, <2>3, Zenon
<1> QED
  BY <1>1, <1>2 DEF Run

LEMMA RunsHaveTails ==
    ASSUME NEW log, NEW start \in Int, NEW n \in Nat, Run(log, start, n), log # << >>
    PROVE  /\ n > 0 /\ Head(log) = start + 1
           /\ Run(Tail(log), start + 1, n - 1)
<1>1. n > 0 /\ Head(log) = start + 1
  BY DEF Run
<1>2. Tail(log) \in Seq(Int) /\ Len(Tail(log)) = n - 1
  BY <1>1 DEF Run
<1>3. ASSUME NEW i \in 1..(n - 1)
      PROVE  Tail(log)[i] = (start + 1) + i
  <2>1. Tail(log)[i] = log[i + 1] /\ i + 1 \in 1..n
    BY <1>2 DEF Run
  <2> QED
    BY <2>1 DEF Run
<1> QED
  BY <1>1, <1>2, <1>3 DEF Run

\* The end of a run is a run.
LEMMA RunsHaveEnds ==
    ASSUME NEW log, NEW start \in Int, NEW n \in Nat, Run(log, start, n),
           NEW k \in 0..n
    PROVE  Run(SubSeq(log, k + 1, Len(log)), start + k, n - k)
<1> DEFINE end == SubSeq(log, k + 1, Len(log))
<1>0. log \in Seq(Int) /\ Len(log) = n
  BY DEF Run
<1>1. end \in Seq(Int) /\ Len(end) = n - k
  BY <1>0
<1>2. ASSUME NEW i \in 1..(n - k)
      PROVE  end[i] = (start + k) + i
  <2>1. k + i \in 1..n /\ k + 1 + i - 1 = k + i
    OBVIOUS
  <2>2. \A j \in 1..Len(end) : end[j] = log[k + 1 + j - 1]
    BY <1>0
  <2>3. end[i] = log[k + i]
    BY <1>1, <2>1, <2>2
  <2>4. log[k + i] = start + (k + i)
    BY <2>1 DEF Run
  <2> HIDE DEF end
  <2> QED
    BY <2>3, <2>4
<1> QED
  BY <1>1, <1>2 DEF Run

\* Eviction leaves the newest events, and one at least.
LEMMA KeepLastKeepsARun ==
    ASSUME NEW log, NEW start \in Int, NEW n \in Nat, Run(log, start, n),
           NEW size \in Nat \ {0}
    PROVE  LET kept == KeepLast(log, size) IN
           /\ Run(kept, start + n - Len(kept), Len(kept))
           /\ kept = << >> => log = << >>
<1>1. CASE n <= size
  <2>1. KeepLast(log, size) = log /\ Len(log) = n
    BY <1>1 DEF KeepLast, Run
  <2> QED
    BY <2>1
<1>2. CASE n > size
  <2>1. KeepLast(log, size) = SubSeq(log, (n - size) + 1, Len(log))
    BY <1>2 DEF KeepLast, Run
  <2>2. n - size \in 0..n /\ n - (n - size) = size
    BY <1>2
  <2>3. Run(KeepLast(log, size), start + (n - size), n - (n - size))
    BY <2>1, <2>2, RunsHaveEnds
  <2>4. Len(KeepLast(log, size)) = size
    BY <2>2, <2>3 DEF Run
  <2>5. start + n - size = start + (n - size) /\ KeepLast(log, size) # << >>
    BY <2>4
  <2> QED
    BY <2>2, <2>3, <2>4, <2>5
<1> QED
  BY <1>1, <1>2

LEMMA RunsAreUnique ==
    ASSUME NEW log, NEW other, NEW start \in Int, NEW n \in Nat,
           Run(log, start, n), Run(other, start, n)
    PROVE  log = other
<1>1. /\ log \in Seq(Int) /\ other \in Seq(Int) /\ Len(log) = n /\ Len(other) = n
      /\ \A i \in 1..n : log[i] = other[i]
  BY DEF Run
<1> QED
  BY <1>1, SeqEqual

\* Frames in order make a run of their numbers.
LEMMA SeqsOfARun ==
    ASSUME NEW frames \in Seq(Frame), NEW start \in Int,
           \A i \in 1..Len(frames) : frames[i].seq = start + i
    PROVE  Run(Seqs(frames), start, Len(frames))
<1> DEFINE n == Len(frames)
<1>1. n \in Nat /\ DOMAIN frames = 1..n
  OBVIOUS
<1>2. Seqs(frames) = [i \in 1..n |-> start + i]
  BY <1>1 DEF Seqs
<1> HIDE DEF n
<1>3. [i \in 1..n |-> start + i] \in Seq(Int) /\ Len([i \in 1..n |-> start + i]) = n
  BY <1>1
<1> USE DEF n
<1> QED
  BY <1>1, <1>2, <1>3 DEF Run

\* What lies after a position in or just before a run.
LEMMA AfterIsTheRest ==
    ASSUME NEW log, NEW start \in Int, NEW n \in Nat, Run(log, start, n),
           NEW seq \in Int, start <= seq, seq <= start + n
    PROVE  Run(After(log, seq), seq, start + n - seq)
<1> DEFINE k == seq - start
<1>1. {i \in DOMAIN log : log[i] <= seq} = 1..k
  BY DEF Run
<1>2. k \in 0..n /\ start + k = seq /\ n - k = start + n - seq
  OBVIOUS
<1>3. Cardinality(1..k) = k
  BY <1>2, FS_Interval
<1> HIDE DEF k
<1>4. After(log, seq) = SubSeq(log, k + 1, Len(log))
  <2>1. After(log, seq) = SubSeq(log, 1 + k, Len(log))
    BY <1>1, <1>3 DEF After
  <2>2. 1 + k = k + 1
    BY <1>2
  <2> QED
    BY <2>1, <2>2
<1>5. Run(SubSeq(log, k + 1, Len(log)), start + k, n - k)
  BY <1>2, RunsHaveEnds
<1> QED
  BY <1>2, <1>4, <1>5

----------------------------------------------------------------------------
(* What the steps preserve *)

\* A handler that a step leaves alone still joins, and so does its wire.
LEMMA UntouchedJoins ==
    ASSUME NEW h, UNCHANGED <<next_seq, queue[h], todo[h], last_sent[h], phase[h]>>
    PROVE  /\ HandlerJoins(h) => HandlerJoins(h)'
           /\ UNCHANGED <<wire, frame>> /\ WireJoins(h) => WireJoins(h)'
BY DEF HandlerJoins, HoldsSnapshot, HoldsEvents, Begun, Run, last_seq, WireJoins, WireEvents

LEMMA PublishJoins ==
    ASSUME IInv, NEW n \in 1..MaxBatch, Publish(n)
    PROVE  IInv'
<1> DEFINE new == [i \in 1..n |-> next_seq + i - 1]
<1>1. n \in Nat \ {0} /\ next_seq \in Nat /\ last_seq \in Int
  BY BoundAssumption DEF IInv, Buffer, last_seq
<1>2. next_seq' = next_seq + n /\ last_seq' = last_seq + n
  BY <1>1 DEF Publish, last_seq
<1>3. Run(new, last_seq, n)
  BY <1>1 DEF Run, last_seq
<1>4. /\ buffer' = KeepLast(buffer \o new, RingSize)
      /\ \A h \in Conn : queue'[h] = IF h \in Subscribed THEN queue[h] \o new ELSE queue[h]
      /\ DOMAIN queue' = Conn
      /\ UNCHANGED <<phase, todo, last_sent, current, wire, frame>>
  BY DEF Publish, clientVars
<1> HIDE DEF new
<1>5. Buffer'
  <2>1. Len(buffer) \in Nat /\ Run(buffer, last_seq - Len(buffer), Len(buffer))
    BY DEF IInv, Buffer, Run
  <2>2. last_seq - Len(buffer) \in Int /\ (last_seq - Len(buffer)) + Len(buffer) = last_seq
    BY <1>1, <2>1
  <2>3. Run(buffer \o new, last_seq - Len(buffer), Len(buffer) + n)
    BY <1>1, <1>3, <2>1, <2>2, RunsConcatenate
  <2> DEFINE all == buffer \o new
             start == last_seq - Len(buffer)
             size == Len(buffer) + n
  <2>4. /\ start \in Int /\ size \in Nat \ {0} /\ Run(all, start, size)
        /\ buffer' = KeepLast(all, RingSize)
    BY <1>1, <1>4, <2>1, <2>2, <2>3
  <2>5. start + size = last_seq'
    BY <1>1, <1>2, <2>1
  <2> HIDE DEF all, start, size
  <2>6. /\ Run(buffer', start + size - Len(buffer'), Len(buffer'))
        /\ buffer' = << >> => all = << >>
    BY <2>4, RingAssumption, KeepLastKeepsARun
  <2>7. all # << >>
    BY <2>4 DEF Run
  <2>8. Run(buffer', last_seq' - Len(buffer'), Len(buffer'))
    <3>1. start + size - Len(buffer') = last_seq' - Len(buffer')
      BY <1>1, <1>2, <2>4, <2>5
    <3> QED
      BY <2>6, <3>1
  <2>9. next_seq' \in Nat /\ buffer' # << >>
    BY <1>1, <1>2, <2>6, <2>7
  <2> QED
    BY <2>8, <2>9 DEF Buffer
<1>6. ASSUME NEW h \in Subscribed
      PROVE  HandlerJoins(h)'
  <2>1. HandlerJoins(h) /\ h \in Conn
    BY DEF IInv, Subscribed
  <2>2. Begun(h) \in Int /\ Begun(h)' = Begun(h)
    BY <1>4, <2>1 DEF HandlerJoins, Begun, HoldsSnapshot, HoldsEvents
  <2>3. last_seq - Begun(h) \in Nat /\ Run(queue[h], Begun(h), last_seq - Begun(h))
    BY <1>1, <2>1, <2>2 DEF HandlerJoins
  <2>4. Begun(h) + (last_seq - Begun(h)) = last_seq
    BY <1>1, <2>2
  <2>5. Run(queue[h] \o new, Begun(h), (last_seq - Begun(h)) + n)
    BY <1>1, <1>3, <2>2, <2>3, <2>4, RunsConcatenate
  <2>6. (last_seq - Begun(h)) + n = last_seq' - Begun(h) /\ Begun(h) <= last_seq'
    BY <1>1, <1>2, <2>2, <2>3
  <2>7. Run(queue'[h], Begun(h)', last_seq' - Begun(h)')
    BY <1>4, <2>1, <2>2, <2>5, <2>6
  <2>8. /\ last_sent'[h] \in Int /\ last_sent'[h] >= -1
        /\ HoldsSnapshot(h)' \/ HoldsEvents(h)'
        /\ phase'[h] = "live" => todo'[h] = << >>
    BY <1>4, <2>1 DEF HandlerJoins, HoldsSnapshot, HoldsEvents
  <2> QED
    BY <2>2, <2>6, <2>7, <2>8 DEF HandlerJoins
<1>7. Types'
  BY <1>1, <1>2, <1>4 DEF IInv, Types, Frame
<1>8. ASSUME NEW h \in Conn, current' = h
      PROVE  h \in Subscribed' /\ WireJoins(h)'
  <2>1. h \in Subscribed /\ WireJoins(h)
    BY <1>4, <1>8 DEF IInv
  <2>2. h \in Subscribed'
    BY <1>4, <2>1 DEF Subscribed
  <2>3. WireJoins(h)'
    BY <1>4, <2>1 DEF WireJoins, WireEvents, HoldsSnapshot
  <2> QED
    BY <2>2, <2>3
<1>9. Subscribed' = Subscribed
  BY <1>4 DEF Subscribed
<1>10. \A h \in Subscribed' : HandlerJoins(h)'
  BY <1>6, <1>9
<1> QED
  BY <1>5, <1>7, <1>8, <1>10 DEF IInv

\* Subscribing and reading the snapshot or the backlog are one step, so the queue
\* starts where the frames end.
LEMMA AcceptJoins ==
    ASSUME IInv, NEW h \in Conn, NEW frames, NEW start \in Int, start >= -1,
           Accept(h, frames, start), start <= last_seq,
           \/ frames = <<Snapshot(start)>> /\ start = last_seq
           \/ /\ frames \in Seq(Frame) /\ \A i \in 1..Len(frames) : frames[i] = EventFrame(start + i)
              /\ start + Len(frames) = last_seq
              /\ frame # None /\ frame.seq = start
    PROVE  IInv'
<1>1. /\ current' = h /\ wire' = << >> /\ phase' = [phase EXCEPT ![h] = "starting"]
      /\ queue' = [queue EXCEPT ![h] = << >>] /\ todo' = [todo EXCEPT ![h] = frames]
      /\ last_sent' = [last_sent EXCEPT ![h] = start]
      /\ UNCHANGED <<next_seq, buffer, frame>>
  BY DEF Accept, busVars
<1>2. /\ phase'[h] = "starting" /\ queue'[h] = << >> /\ todo'[h] = frames
      /\ last_sent'[h] = start
  BY <1>1 DEF IInv, Types
<1>3. last_seq \in Int /\ last_seq' = last_seq
  BY <1>1 DEF IInv, Buffer, last_seq
<1>4. HandlerJoins(h)' /\ WireJoins(h)'
  <2>1. CASE frames = <<Snapshot(start)>> /\ start = last_seq
    <3>1. HoldsSnapshot(h)' /\ Begun(h)' = last_seq
      BY <1>2, <2>1 DEF HoldsSnapshot, Begun
    <3>2. Run(queue'[h], last_seq, 0)
      BY <1>2 DEF Run
    <3>3. HandlerJoins(h)'
      BY <1>2, <1>3, <3>1, <3>2, <2>1 DEF HandlerJoins
    <3>4. frame' # None => frame'.seq <= last_sent'[h]
      BY <1>1, <1>2, <2>1 DEF IInv, Types
    <3> QED
      BY <1>1, <3>1, <3>3, <3>4 DEF WireJoins, WireEvents
  <2>2. CASE /\ frames \in Seq(Frame)
             /\ \A i \in 1..Len(frames) : frames[i] = EventFrame(start + i)
             /\ start + Len(frames) = last_seq
             /\ frame # None /\ frame.seq = start
    <3>1. HoldsEvents(h)'
      BY <1>2, <2>2 DEF HoldsEvents
    <3>2. frames # <<Snapshot(start)>>
      <4>1. SUFFICES ASSUME frames = <<Snapshot(start)>> PROVE FALSE
        OBVIOUS
      <4>2. Snapshot(start) = EventFrame(start + 1)
        BY <2>2, <4>1
      <4>3. Snapshot(start).type # EventFrame(start + 1).type
        BY DEF Snapshot, EventFrame
      <4> QED
        BY <4>2, <4>3
    <3>3. ~HoldsSnapshot(h)' /\ Begun(h)' = last_seq
      BY <1>2, <2>2, <3>2 DEF HoldsSnapshot, Begun
    <3>4. Run(queue'[h], last_seq, 0)
      BY <1>2 DEF Run
    <3>5. HandlerJoins(h)'
      BY <1>2, <1>3, <3>1, <3>3, <3>4 DEF HandlerJoins
    <3>6. wire' = << >> /\ frame' # None /\ frame'.seq = last_sent'[h] - Len(wire')
      BY <1>1, <1>2, <2>2
    <3> QED
      BY <3>3, <3>5, <3>6 DEF WireJoins, WireEvents
  <2> QED
    BY <2>1, <2>2
<1>5. ASSUME NEW g \in Subscribed', g # h
      PROVE  HandlerJoins(g)'
  <2>1. g \in Subscribed /\ UNCHANGED <<next_seq, queue[g], todo[g], last_sent[g], phase[g]>>
    BY <1>1, <1>5 DEF IInv, Types, Subscribed
  <2> QED
    BY <2>1, UntouchedJoins DEF IInv
<1>6. h \in Subscribed'
  BY <1>2 DEF Subscribed
<1>7. Types'
  BY <1>1, <1>3 DEF IInv, Types
<1>8. Buffer'
  BY <1>1, <1>3 DEF IInv, Buffer
<1>9. \A g \in Conn : current' = g => g \in Subscribed' /\ WireJoins(g)'
  BY <1>1, <1>4, <1>6
<1>10. \A g \in Subscribed' : HandlerJoins(g)'
  BY <1>4, <1>5
<1> QED
  BY <1>7, <1>8, <1>9, <1>10 DEF IInv

\* Inside the buffer, what since() returns is the rest of the log.
LEMMA ConnectJoins ==
    ASSUME IInv, NEW h \in Conn, AcceptFresh(h) \/ AcceptSince(h)
    PROVE  IInv'
<1>1. last_seq \in Int /\ last_seq >= -1
  BY DEF IInv, Buffer, last_seq
<1>2. ASSUME AcceptFresh(h)
      PROVE  IInv'
  BY <1>1, <1>2, AcceptJoins DEF AcceptFresh
<1>3. ASSUME AcceptSince(h), ~Outside(seen)
      PROVE  IInv'
  <2> DEFINE start == last_seq - Len(buffer)
             backlog == Since(seen)
             frames == [i \in DOMAIN backlog |-> EventFrame(backlog[i])]
  <2>1. /\ frame # None /\ seen = frame.seq /\ seen \in Int
        /\ seen >= -1 /\ seen <= last_seq
    BY <1>3 DEF AcceptSince, seen, IInv, Types, Frame
  <2>2. Len(buffer) \in Nat /\ start \in Int /\ Run(buffer, start, Len(buffer))
    BY <1>1 DEF IInv, Buffer, Run
  <2>3. start <= seen
    <3>1. CASE buffer = << >>
      BY <3>1, <1>1, <2>1, <2>2 DEF IInv, Buffer, last_seq
    <3>2. CASE buffer # << >>
      <4>1. buffer[1] = start + 1
        BY <2>2, <3>2 DEF Run
      <4>2. ~(seen < buffer[1] - 1)
        BY <1>3, <3>2 DEF Outside
      <4> QED
        BY <2>1, <2>2, <4>1, <4>2
    <3> QED
      BY <3>1, <3>2
  <2>4. start + Len(buffer) = last_seq
    BY <1>1, <2>2
  <2>5. Run(backlog, seen, last_seq - seen)
    <3>1. Run(After(buffer, seen), seen, start + Len(buffer) - seen)
      BY <2>1, <2>2, <2>3, <2>4, AfterIsTheRest
    <3>2. start + Len(buffer) - seen = last_seq - seen
      BY <1>1, <2>1, <2>2
    <3> QED
      BY <3>1, <3>2 DEF Since
  <2> HIDE DEF start, backlog
  <2>6. last_seq - seen \in Nat
    BY <1>1, <2>1
  <2>7. frames \in Seq(Frame) /\ Len(frames) = last_seq - seen
    <3>1. backlog \in Seq(Int) /\ Len(backlog) = last_seq - seen
      BY <2>5 DEF Run
    <3>2. DOMAIN backlog = 1..(last_seq - seen) /\ \A i \in DOMAIN backlog : backlog[i] \in Int
      BY <2>6, <3>1
    <3>3. \A i \in 1..(last_seq - seen) : EventFrame(backlog[i]) \in Frame
      BY <3>2 DEF EventFrame, Frame
    <3>4. frames = [i \in 1..(last_seq - seen) |-> EventFrame(backlog[i])]
      BY <3>2
    <3> QED
      BY <2>6, <3>3, <3>4
  <2>8. \A i \in 1..Len(frames) : frames[i] = EventFrame(seen + i)
    BY <2>5, <2>6, <2>7 DEF Run
  <2>9. Accept(h, frames, seen)
    BY <1>3 DEF AcceptSince, backlog
  <2> HIDE DEF frames
  <2>10. seen + Len(frames) = last_seq
    BY <1>1, <2>1, <2>7
  <2> QED
    BY <2>1, <2>7, <2>8, <2>9, <2>10, AcceptJoins
<1> QED
  BY <1>2, <1>3 DEF AcceptSince

\* A step of one handler leaves the others, the log and the client's place alone.
LEMMA HandlerStepJoins ==
    ASSUME IInv, NEW h \in Conn, NEW p \in {"none", "starting", "live"},
           \A g \in Conn \ {h} : UNCHANGED <<queue[g], todo[g], last_sent[g]>>,
           phase' = [phase EXCEPT ![h] = p], UNCHANGED <<busVars, current, frame>>,
           /\ DOMAIN queue' = Conn /\ DOMAIN todo' = Conn /\ DOMAIN last_sent' = Conn,
           p # "none" => HandlerJoins(h)',
           current = h => p # "none" /\ WireJoins(h)',
           current # h => UNCHANGED wire
    PROVE  IInv'
<1>1. UNCHANGED <<next_seq, buffer, last_seq>>
  BY DEF busVars, last_seq
<1>2. phase'[h] = p /\ \A g \in Conn \ {h} : phase'[g] = phase[g]
  BY DEF IInv, Types
<1>3. ASSUME NEW g \in Conn, g # h
      PROVE  /\ HandlerJoins(g) => HandlerJoins(g)'
             /\ UNCHANGED wire /\ WireJoins(g) => WireJoins(g)'
  <2>1. UNCHANGED <<next_seq, queue[g], todo[g], last_sent[g], phase[g]>>
    BY <1>1, <1>2, <1>3
  <2> QED
    BY <2>1, UntouchedJoins
<1>4. ASSUME NEW g \in Subscribed'
      PROVE  HandlerJoins(g)'
  <2>1. CASE g = h
    BY <1>2, <2>1 DEF Subscribed
  <2>2. CASE g # h
    BY <1>2, <1>3, <2>2 DEF Subscribed, IInv
  <2> QED
    BY <2>1, <2>2
<1>5. ASSUME NEW g \in Conn, current' = g
      PROVE  g \in Subscribed' /\ WireJoins(g)'
  <2>1. CASE g = h
    BY <1>2, <1>5, <2>1 DEF Subscribed
  <2>2. CASE g # h
    <3>1. g \in Subscribed /\ WireJoins(g) /\ UNCHANGED wire
      BY <1>5, <2>2 DEF IInv
    <3>2. g \in Subscribed'
      BY <1>2, <2>2, <3>1 DEF Subscribed
    <3> QED
      BY <1>3, <2>2, <3>1, <3>2
  <2> QED
    BY <2>1, <2>2
<1>6. Buffer'
  BY <1>1 DEF IInv, Buffer
<1>7. Types'
  BY <1>1 DEF IInv, Types
<1> QED
  BY <1>4, <1>5, <1>6, <1>7 DEF IInv

\* The next event after those sent goes to the end of the wire.
LEMMA WireTakesTheNext ==
    ASSUME IInv, NEW h \in Subscribed, current = h, ~HoldsSnapshot(h), ~HoldsSnapshot(h)',
           wire' = Append(wire, EventFrame(last_sent[h] + 1)),
           last_sent'[h] = last_sent[h] + 1, UNCHANGED frame
    PROVE  WireJoins(h)'
<1>1. WireJoins(h) /\ last_sent[h] \in Int /\ last_sent[h] >= -1
  BY DEF IInv, Subscribed, HandlerJoins
<1>2. wire \in Seq(Frame) /\ Len(wire) \in Nat
  BY <1>1 DEF WireJoins
<1>3. EventFrame(last_sent[h] + 1) \in Frame
  BY <1>1 DEF EventFrame, Frame
<1>4. /\ wire' \in Seq(Frame) /\ Len(wire') = Len(wire) + 1
      /\ \A i \in 1..Len(wire) : wire'[i] = wire[i]
      /\ wire'[Len(wire) + 1] = EventFrame(last_sent[h] + 1)
  BY <1>2, <1>3, AppendProperties
<1>5. last_sent'[h] - Len(wire') = last_sent[h] - Len(wire)
  BY <1>1, <1>2, <1>4
<1>6. \A i \in 2..Len(wire') : wire'[i] = EventFrame(last_sent'[h] - Len(wire') + i)
  <2> SUFFICES ASSUME NEW i \in 2..Len(wire')
               PROVE  wire'[i] = EventFrame(last_sent[h] - Len(wire) + i)
    BY <1>5
  <2>1. CASE i <= Len(wire)
    <3>1. i \in 2..Len(wire) /\ i \in 1..Len(wire)
      BY <1>2, <2>1
    <3> QED
      BY <1>1, <1>4, <3>1 DEF WireJoins, WireEvents
  <2>2. CASE i = Len(wire) + 1
    <3>1. last_sent[h] - Len(wire) + i = last_sent[h] + 1
      BY <1>1, <1>2, <2>2
    <3> QED
      BY <1>4, <2>2, <3>1
  <2> QED
    BY <1>2, <1>4, <2>1, <2>2
<1>7. CASE wire = << >>
  <2>1. Len(wire) = 0 /\ last_sent[h] - Len(wire) = last_sent[h]
    BY <1>1, <1>7
  <2>2. frame' # None /\ frame'.seq = last_sent'[h] - Len(wire')
    BY <1>1, <1>5, <1>7 DEF WireJoins
  <2>3. wire'[1] = EventFrame(last_sent'[h] - Len(wire') + 1)
    BY <1>4, <1>5, <2>1
  <2> QED
    BY <1>4, <1>6, <2>2, <2>3 DEF WireJoins, WireEvents
<1>8. CASE wire # << >>
  <2>1. wire'[1] = wire[1] /\ wire' # << >>
    BY <1>2, <1>4, <1>8
  <2> QED
    BY <1>1, <1>4, <1>5, <1>6, <1>8, <2>1 DEF WireJoins, WireEvents
<1> QED
  BY <1>7, <1>8

----------------------------------------------------------------------------
(* The handler's steps *)

\* A handler has a snapshot or events to send, never both.
LEMMA SnapshotOrEvents ==
    ASSUME NEW h, HandlerJoins(h)
    PROVE  /\ todo[h] \in Seq(Frame) /\ Begun(h) \in Int /\ last_sent[h] <= Begun(h)
           /\ todo[h] = << >> => ~HoldsSnapshot(h) /\ Begun(h) = last_sent[h]
           /\ ~HoldsSnapshot(h) => HoldsEvents(h) /\ Begun(h) = last_sent[h] + Len(todo[h])
<1>1. last_sent[h] \in Int
  BY DEF HandlerJoins
<1>2. HoldsSnapshot(h) => todo[h] \in Seq(Frame) /\ todo[h] # << >>
  BY <1>1 DEF HoldsSnapshot, Snapshot, Frame
<1>3. todo[h] \in Seq(Frame)
  BY <1>2 DEF HandlerJoins, HoldsEvents
<1> QED
  BY <1>1, <1>2, <1>3 DEF HandlerJoins, Begun

LEMMA SendStartJoins ==
    ASSUME IInv, NEW h \in Conn, SendStart(h)
    PROVE  IInv'
<1>1. h \in Subscribed /\ HandlerJoins(h) /\ WireJoins(h) /\ current = h
  BY DEF SendStart, IInv
<1>2. /\ phase[h] = "starting" /\ todo[h] # << >> /\ wire' = Append(wire, Head(todo[h]))
      /\ last_sent' = [last_sent EXCEPT ![h] = Head(todo[h]).seq]
      /\ todo' = [todo EXCEPT ![h] = Tail(todo[h])]
      /\ UNCHANGED <<next_seq, buffer, queue, phase, current, frame>>
  BY DEF SendStart, busVars
<1>3. last_sent'[h] = Head(todo[h]).seq /\ todo'[h] = Tail(todo[h])
  BY <1>2 DEF IInv, Types
<1>4. last_sent[h] \in Int /\ last_sent[h] >= -1 /\ last_seq' = last_seq /\ last_seq \in Int
  BY <1>1, <1>2 DEF HandlerJoins, last_seq, IInv, Buffer
<1>5. HandlerJoins(h)' /\ WireJoins(h)'
  <2>1. CASE HoldsSnapshot(h)
    <3>1. Head(todo[h]) = Snapshot(last_sent[h]) /\ Tail(todo[h]) = << >>
      BY <2>1 DEF HoldsSnapshot
    <3>2. last_sent'[h] = last_sent[h] /\ todo'[h] = << >>
      BY <1>3, <3>1 DEF Snapshot
    <3>3. ~HoldsSnapshot(h)' /\ HoldsEvents(h)' /\ Begun(h)' = last_sent[h]
      BY <1>4, <3>2 DEF HoldsSnapshot, HoldsEvents, Begun
    <3>4. Begun(h) = last_sent[h]
      BY <2>1 DEF Begun
    <3>5. Run(queue'[h], Begun(h)', last_seq' - Begun(h)') /\ Begun(h)' <= last_seq'
      BY <1>1, <1>2, <1>4, <3>3, <3>4 DEF HandlerJoins
    <3>6. HandlerJoins(h)'
      BY <1>4, <3>2, <3>3, <3>5 DEF HandlerJoins
    <3>7. wire = << >> /\ (frame # None => frame.seq <= last_sent[h])
      BY <1>1, <2>1 DEF WireJoins
    <3>8. wire' = <<Snapshot(last_sent[h])>>
      BY <1>2, <3>1, <3>7
    <3>9. wire' \in Seq(Frame) /\ Len(wire') = 1 /\ wire'[1] = Snapshot(last_sent[h])
      BY <1>4, <3>8 DEF Snapshot, Frame
    <3>10. frame # None => frame.seq \in Int
      BY DEF IInv, Types, Frame
    <3>11. /\ last_sent'[h] - Len(wire') + 1 = last_sent[h]
           /\ frame' # None => frame'.seq < last_sent'[h] - Len(wire') + 2
      BY <1>2, <1>4, <3>2, <3>7, <3>9, <3>10
    <3>12. WireJoins(h)'
      BY <1>4, <3>3, <3>9, <3>11 DEF WireJoins, WireEvents
    <3> QED
      BY <3>6, <3>12
  <2>2. CASE ~HoldsSnapshot(h)
    <3>1. HoldsEvents(h) /\ Begun(h) = last_sent[h] + Len(todo[h]) /\ todo[h] \in Seq(Frame)
      BY <1>1, <2>2, SnapshotOrEvents
    <3>2. Head(todo[h]) = EventFrame(last_sent[h] + 1)
      BY <1>2, <3>1 DEF HoldsEvents
    <3>3. last_sent'[h] = last_sent[h] + 1
      BY <1>3, <3>2 DEF EventFrame
    <3>4. /\ todo'[h] \in Seq(Frame) /\ Len(todo'[h]) = Len(todo[h]) - 1
          /\ \A i \in 1..Len(todo'[h]) : todo'[h][i] = todo[h][i + 1]
      <4>1. /\ Tail(todo[h]) \in Seq(Frame) /\ Len(Tail(todo[h])) = Len(todo[h]) - 1
            /\ \A i \in 1..Len(Tail(todo[h])) : Tail(todo[h])[i] = todo[h][i + 1]
        BY <1>2, <3>1, HeadTailProperties, Zenon
      <4> QED
        BY <1>3, <4>1, Zenon
    <3>5. HoldsEvents(h)'
      <4> SUFFICES ASSUME NEW i \in 1..Len(todo'[h])
                   PROVE  todo'[h][i] = EventFrame(last_sent'[h] + i)
        BY <3>4 DEF HoldsEvents
      <4>1. todo'[h][i] = todo[h][i + 1] /\ i + 1 \in 1..Len(todo[h])
        BY <3>1, <3>4
      <4>2. todo[h][i + 1] = EventFrame(last_sent[h] + (i + 1))
        BY <3>1, <4>1 DEF HoldsEvents
      <4>3. last_sent[h] + (i + 1) = last_sent'[h] + i
        BY <1>4, <3>3
      <4> QED
        BY <4>1, <4>2, <4>3
    <3>6. ~HoldsSnapshot(h)'
      <4>1. SUFFICES ASSUME todo'[h] = <<Snapshot(last_sent'[h])>> PROVE FALSE
        BY DEF HoldsSnapshot
      <4>2. Snapshot(last_sent'[h]) = EventFrame(last_sent'[h] + 1)
        BY <3>5, <4>1 DEF HoldsEvents
      <4>3. Snapshot(last_sent'[h]).type # EventFrame(last_sent'[h] + 1).type
        BY DEF Snapshot, EventFrame
      <4> QED
        BY <4>2, <4>3
    <3>7. Begun(h)' = Begun(h)
      <4>1. Len(todo[h]) \in Nat
        BY <3>1
      <4> QED
        BY <1>4, <3>1, <3>3, <3>4, <3>6, <4>1 DEF Begun
    <3>8. HandlerJoins(h)'
      BY <1>1, <1>2, <1>4, <3>3, <3>5, <3>7 DEF HandlerJoins
    <3>9. WireJoins(h)'
      BY <1>1, <1>2, <2>2, <3>2, <3>3, <3>6, WireTakesTheNext
    <3> QED
      BY <3>8, <3>9
  <2> QED
    BY <2>1, <2>2
<1>6. \A g \in Conn \ {h} : UNCHANGED <<queue[g], todo[g], last_sent[g]>>
  BY <1>2 DEF IInv, Types
<1>7. phase' = [phase EXCEPT ![h] = "starting"]
  BY <1>2 DEF IInv, Types
<1>8. DOMAIN queue' = Conn /\ DOMAIN todo' = Conn /\ DOMAIN last_sent' = Conn
  BY <1>2 DEF IInv, Types
<1>9. UNCHANGED <<busVars, current, frame>>
  BY <1>2 DEF busVars
<1> QED
  BY <1>1, <1>5, <1>6, <1>7, <1>8, <1>9, HandlerStepJoins

LEMMA GoLiveJoins ==
    ASSUME IInv, NEW h \in Conn, GoLive(h)
    PROVE  IInv'
<1>1. /\ phase[h] = "starting" /\ todo[h] = << >> /\ phase' = [phase EXCEPT ![h] = "live"]
      /\ UNCHANGED <<next_seq, buffer, queue, todo, last_sent, current, wire, frame>>
  BY DEF GoLive, busVars, clientVars
<1>2. HandlerJoins(h)
  BY <1>1 DEF IInv, Subscribed
<1>3. HandlerJoins(h)'
  BY <1>1, <1>2 DEF HandlerJoins, HoldsSnapshot, HoldsEvents, Begun, Run, last_seq
<1>4. current = h => WireJoins(h)'
  <2>1. WireJoins(h) => WireJoins(h)'
    BY <1>1 DEF WireJoins, WireEvents, HoldsSnapshot
  <2> QED
    BY <2>1 DEF IInv
<1>5. UNCHANGED <<busVars, current, frame>> /\ UNCHANGED wire
  BY <1>1 DEF busVars
<1>6. DOMAIN queue' = Conn /\ DOMAIN todo' = Conn /\ DOMAIN last_sent' = Conn
  BY <1>1 DEF IInv, Types
<1>7. \A g \in Conn \ {h} : UNCHANGED <<queue[g], todo[g], last_sent[g]>>
  BY <1>1
<1> QED
  BY <1>1, <1>3, <1>4, <1>5, <1>6, <1>7, HandlerStepJoins

LEMMA SendLiveJoins ==
    ASSUME IInv, NEW h \in Conn, SendLive(h)
    PROVE  IInv'
<1>1. h \in Subscribed /\ HandlerJoins(h) /\ WireJoins(h) /\ current = h
  BY DEF SendLive, IInv
<1>2. /\ phase[h] = "live" /\ queue[h] # << >> /\ queue' = [queue EXCEPT ![h] = Tail(queue[h])]
      /\ UNCHANGED <<next_seq, buffer, phase, todo, current, frame>>
  BY DEF SendLive, busVars
<1>3. last_sent[h] \in Int /\ last_sent[h] >= -1 /\ last_seq' = last_seq /\ last_seq \in Int
  BY <1>1, <1>2 DEF HandlerJoins, last_seq, IInv, Buffer
<1>4. todo[h] = << >> /\ ~HoldsSnapshot(h) /\ Begun(h) = last_sent[h]
  BY <1>1, <1>2, SnapshotOrEvents DEF HandlerJoins
<1>5. /\ Head(queue[h]) = last_sent[h] + 1
      /\ Run(Tail(queue[h]), last_sent[h] + 1, last_seq - (last_sent[h] + 1))
      /\ last_sent[h] + 1 <= last_seq
  <2>1. last_seq - last_sent[h] \in Nat /\ Run(queue[h], last_sent[h], last_seq - last_sent[h])
    BY <1>1, <1>3, <1>4 DEF HandlerJoins
  <2>2. /\ last_seq - last_sent[h] > 0 /\ Head(queue[h]) = last_sent[h] + 1
        /\ Run(Tail(queue[h]), last_sent[h] + 1, last_seq - last_sent[h] - 1)
    BY <1>2, <1>3, <2>1, RunsHaveTails
  <2>3. last_seq - last_sent[h] - 1 = last_seq - (last_sent[h] + 1)
    BY <1>3
  <2> QED
    BY <1>3, <2>2, <2>3
<1>6. /\ wire' = Append(wire, EventFrame(last_sent[h] + 1))
      /\ last_sent' = [last_sent EXCEPT ![h] = last_sent[h] + 1]
  BY <1>3, <1>5 DEF SendLive
<1>7. last_sent'[h] = last_sent[h] + 1 /\ queue'[h] = Tail(queue[h]) /\ todo'[h] = << >>
  BY <1>2, <1>4, <1>6 DEF IInv, Types
<1>8. ~HoldsSnapshot(h)' /\ HoldsEvents(h)' /\ Begun(h)' = last_sent[h] + 1
  BY <1>3, <1>7 DEF HoldsSnapshot, HoldsEvents, Begun
<1>9. HandlerJoins(h)'
  BY <1>3, <1>5, <1>7, <1>8 DEF HandlerJoins
<1>10. WireJoins(h)'
  BY <1>1, <1>2, <1>4, <1>6, <1>7, <1>8, WireTakesTheNext
<1>11. \A g \in Conn \ {h} : UNCHANGED <<queue[g], todo[g], last_sent[g]>>
  BY <1>2, <1>6 DEF IInv, Types
<1>12. phase' = [phase EXCEPT ![h] = "live"]
  BY <1>2 DEF IInv, Types
<1>13. DOMAIN queue' = Conn /\ DOMAIN todo' = Conn /\ DOMAIN last_sent' = Conn
  BY <1>2, <1>6 DEF IInv, Types
<1>14. UNCHANGED <<busVars, current, frame>>
  BY <1>2 DEF busVars
<1> QED
  BY <1>1, <1>9, <1>10, <1>11, <1>12, <1>13, <1>14, HandlerStepJoins

LEMMA SendFailsJoins ==
    ASSUME IInv, NEW h \in Conn, SendFails(h)
    PROVE  IInv'
<1>1. /\ current # h /\ phase' = [phase EXCEPT ![h] = "none"]
      /\ queue' = [queue EXCEPT ![h] = << >>] /\ todo' = [todo EXCEPT ![h] = << >>]
      /\ UNCHANGED <<next_seq, buffer, last_sent, current, wire, frame>>
  BY DEF SendFails, busVars, clientVars
<1>2. \A g \in Conn \ {h} : UNCHANGED <<queue[g], todo[g], last_sent[g]>>
  BY <1>1 DEF IInv, Types
<1>3. DOMAIN queue' = Conn /\ DOMAIN todo' = Conn /\ DOMAIN last_sent' = Conn
  BY <1>1 DEF IInv, Types
<1>4. UNCHANGED <<busVars, current, frame>> /\ UNCHANGED wire
  BY <1>1 DEF busVars
<1> QED
  BY <1>1, <1>2, <1>3, <1>4, HandlerStepJoins

----------------------------------------------------------------------------
(* The client's steps *)

LEMMA ReceiveJoins ==
    ASSUME IInv, Receive
    PROVE  IInv'
<1>0. PICK h \in Conn : h = current
  BY DEF Receive, IInv, Types
<1>1. h \in Conn /\ h \in Subscribed /\ HandlerJoins(h) /\ WireJoins(h)
  BY <1>0 DEF IInv
<1>2. /\ wire # << >> /\ frame' = Head(wire) /\ wire' = Tail(wire)
      /\ UNCHANGED <<next_seq, buffer, queue, phase, todo, last_sent, current>>
  BY DEF Receive, busVars, handlerVars
<1>3. wire \in Seq(Frame) /\ ~HoldsSnapshot(h)
  BY <1>1, <1>2 DEF WireJoins
<1>4. /\ wire' \in Seq(Frame) /\ Len(wire') = Len(wire) - 1
      /\ \A i \in 1..Len(wire') : wire'[i] = wire[i + 1]
      /\ frame' = wire[1] /\ frame' \in Frame
  BY <1>2, <1>3, HeadTailProperties
<1>5. Len(wire) \in Nat \ {0}
  BY <1>2, <1>3
<1>6. /\ last_sent[h] \in Int /\ last_sent[h] <= last_seq /\ last_seq \in Int
      /\ last_seq' = last_seq
  <2>1. last_sent[h] \in Int /\ last_seq \in Int /\ last_seq' = last_seq
    BY <1>1, <1>2 DEF HandlerJoins, IInv, Buffer, last_seq
  <2>2. last_sent[h] <= Begun(h) /\ Begun(h) \in Int /\ Begun(h) <= last_seq
    BY <1>1, SnapshotOrEvents DEF HandlerJoins
  <2> QED
    BY <2>1, <2>2
<1>7. frame' # None
  BY <1>4, NoneAssumption DEF Frame
<1>8. frame'.seq = last_sent[h] - Len(wire) + 1 /\ frame'.seq >= -1
  <2>1. CASE wire[1] = Snapshot(last_sent[h] - Len(wire) + 1) /\ last_sent[h] - Len(wire) + 1 >= -1
    BY <1>4, <2>1 DEF Snapshot
  <2>2. CASE /\ wire[1] = EventFrame(last_sent[h] - Len(wire) + 1)
             /\ frame # None /\ frame.seq = last_sent[h] - Len(wire)
    <3>1. last_sent[h] - Len(wire) >= -1
      BY <2>2 DEF IInv, Types
    <3>2. frame'.seq = last_sent[h] - Len(wire) + 1
      BY <1>4, <2>2 DEF EventFrame
    <3> QED
      BY <1>5, <1>6, <3>1, <3>2
  <2> QED
    BY <1>1, <1>2, <1>3, <2>1, <2>2 DEF WireJoins
<1>9. last_sent'[h] - Len(wire') = last_sent[h] - Len(wire) + 1
  BY <1>2, <1>4, <1>5, <1>6
<1>10. \A i \in 1..Len(wire') : wire'[i] = EventFrame(last_sent'[h] - Len(wire') + i)
  <2> SUFFICES ASSUME NEW i \in 1..Len(wire')
               PROVE  wire'[i] = EventFrame(last_sent'[h] - Len(wire') + i)
    OBVIOUS
  <2>1. wire'[i] = wire[i + 1] /\ i + 1 \in 2..Len(wire)
    BY <1>4, <1>5
  <2>2. wire[i + 1] = EventFrame(last_sent[h] - Len(wire) + (i + 1))
    BY <1>1, <2>1 DEF WireJoins, WireEvents
  <2>3. last_sent[h] - Len(wire) + (i + 1) = last_sent'[h] - Len(wire') + i
    BY <1>5, <1>6, <1>9
  <2> QED
    BY <2>1, <2>2, <2>3
<1>11. WireJoins(h)'
  <2>1. ~HoldsSnapshot(h)'
    BY <1>2, <1>3 DEF HoldsSnapshot
  <2>2. WireEvents(h)'
    BY <1>4, <1>5, <1>10 DEF WireEvents
  <2>3. wire' # << >> => wire'[1] = EventFrame(last_sent'[h] - Len(wire') + 1)
    BY <1>4, <1>10
  <2>4. frame'.seq = last_sent'[h] - Len(wire')
    BY <1>8, <1>9
  <2> QED
    BY <1>4, <1>7, <2>1, <2>2, <2>3, <2>4 DEF WireJoins
<1>12. \A g \in Subscribed' : HandlerJoins(g)'
  <2> SUFFICES ASSUME NEW g \in Subscribed'
               PROVE  HandlerJoins(g)'
    OBVIOUS
  <2>1. g \in Subscribed /\ UNCHANGED <<next_seq, queue[g], todo[g], last_sent[g], phase[g]>>
    BY <1>2 DEF Subscribed
  <2> QED
    BY <2>1, UntouchedJoins DEF IInv
<1>13. frame'.seq <= last_seq'
  BY <1>5, <1>6, <1>8
<1>14. Types'
  BY <1>2, <1>4, <1>8, <1>13 DEF IInv, Types
<1>15. Buffer'
  BY <1>2, <1>6 DEF IInv, Buffer
<1>16. \A g \in Conn : current' = g => g \in Subscribed' /\ WireJoins(g)'
  <2>1. current' = h /\ h \in Subscribed'
    BY <1>0, <1>1, <1>2 DEF Subscribed
  <2> QED
    BY <1>11, <2>1
<1> QED
  BY <1>12, <1>14, <1>15, <1>16 DEF IInv

LEMMA DropJoins ==
    ASSUME IInv, Drop
    PROVE  IInv'
<1>1. current' = None /\ UNCHANGED <<next_seq, buffer, queue, phase, todo, last_sent, frame>>
  BY DEF Drop, busVars, handlerVars
<1>2. \A g \in Subscribed' : HandlerJoins(g)'
  <2> SUFFICES ASSUME NEW g \in Subscribed'
               PROVE  HandlerJoins(g)'
    OBVIOUS
  <2>1. g \in Subscribed /\ UNCHANGED <<next_seq, queue[g], todo[g], last_sent[g], phase[g]>>
    BY <1>1 DEF Subscribed
  <2> QED
    BY <2>1, UntouchedJoins DEF IInv
<1>3. last_seq' = last_seq
  BY <1>1 DEF last_seq
<1>4. Types' /\ Buffer'
  BY <1>1, <1>3 DEF IInv, Types, Buffer
<1> QED
  BY <1>1, <1>2, <1>4, NoneAssumption DEF IInv

----------------------------------------------------------------------------
(* The theorems *)

\* Every step keeps the buffer the end of the log, and what the client has, the wire,
\* the frames a handler still holds and its queue joined to the end of the log
\* (ws.py: subscribe before snapshot).
THEOREM StreamJoins == Spec => []IInv
<1>1. Init => IInv
  <2> SUFFICES ASSUME Init PROVE IInv
    OBVIOUS
  <2>1. Buffer
    BY DEF Init, Buffer, Run, last_seq
  <2>2. Types
    BY DEF Init, Types
  <2>3. Subscribed = {}
    BY DEF Init, Subscribed
  <2>4. current \notin Conn
    BY NoneAssumption DEF Init
  <2> QED
    BY <2>1, <2>2, <2>3, <2>4 DEF IInv
<1>2. IInv /\ [Next]_vars => IInv'
  <2> SUFFICES ASSUME IInv, [Next]_vars
               PROVE  IInv'
    OBVIOUS
  <2>1. ASSUME NEW n \in 1..MaxBatch, Publish(n)
        PROVE  IInv'
    BY <2>1, PublishJoins
  <2>2. CASE Connect
    BY <2>2, ConnectJoins DEF Connect
  <2>3. CASE Receive
    BY <2>3, ReceiveJoins
  <2>4. CASE Drop
    BY <2>4, DropJoins
  <2>5. ASSUME NEW h \in Conn, Handler(h)
        PROVE  IInv'
    BY <2>5, SendStartJoins, GoLiveJoins, SendLiveJoins, SendFailsJoins DEF Handler
  <2>6. CASE UNCHANGED vars
    <3>1. UNCHANGED <<next_seq, buffer, queue, phase, todo, last_sent, current, wire, frame>>
      BY <2>6 DEF vars, busVars, handlerVars, clientVars
    <3>2. Subscribed' = Subscribed
      BY <3>1 DEF Subscribed
    <3>3. ASSUME NEW h
          PROVE  /\ HandlerJoins(h) => HandlerJoins(h)'
                 /\ WireJoins(h) => WireJoins(h)'
      BY <3>1, UntouchedJoins
    <3>4. Buffer' /\ Types'
      BY <3>1 DEF IInv, Buffer, Types, last_seq
    <3> QED
      BY <3>1, <3>2, <3>3, <3>4 DEF IInv
  <2> QED
    BY <2>1, <2>2, <2>3, <2>4, <2>5, <2>6 DEF Next
<1> QED
  BY <1>1, <1>2, PTL DEF Spec

\* "a concurrent publish can never slip through the gap between the two" (ws.py:22),
\* for every buffer size, number of connections, batch and log.
THEOREM NothingIsLost == Spec => []NothingSlipsThrough
<1>1. IInv => NothingSlipsThrough
  <2> SUFFICES ASSUME IInv, NEW h \in Conn, h = current
               PROVE  LET coming == Coming(h) IN
                      /\ \A i \in 1..(Len(coming) - 1) : coming[i + 1] = coming[i] + 1
                      /\ IF coming = << >> THEN seen = last_seq
                         ELSE coming[Len(coming)] = last_seq
                              /\ (StartsWithSnapshot(h) \/ coming[1] = seen + 1)
    BY DEF NothingSlipsThrough, IInv, Types
  <2>1. h \in Subscribed /\ HandlerJoins(h) /\ WireJoins(h)
    BY DEF IInv
  <2>2. /\ todo[h] \in Seq(Frame) /\ wire \in Seq(Frame) /\ last_sent[h] \in Int
        /\ last_seq \in Int /\ Begun(h) \in Int
    BY <2>1, SnapshotOrEvents DEF HandlerJoins, WireJoins, IInv, Buffer, last_seq
  <2> DEFINE first == IF HoldsSnapshot(h) THEN last_sent[h] - 1 ELSE last_sent[h] - Len(wire)
             begun == Seqs(wire) \o Seqs(todo[h])
             size  == Len(wire) + Len(todo[h])
  <2> HIDE DEF begun, size, first
  <2>3. first \in Int /\ size \in Nat /\ first + size = Begun(h)
    <3>1. Len(wire) \in Nat /\ Len(todo[h]) \in Nat
      BY <2>2
    <3>2. CASE HoldsSnapshot(h)
      <4>1. wire = << >> /\ Len(todo[h]) = 1 /\ Begun(h) = last_sent[h]
        BY <2>1, <3>2 DEF WireJoins, HoldsSnapshot, Begun
      <4>2. first = last_sent[h] - 1 /\ size = 1
        BY <3>2, <4>1 DEF first, size
      <4> QED
        BY <2>2, <4>1, <4>2
    <3>3. CASE ~HoldsSnapshot(h)
      BY <2>2, <3>1, <3>3 DEF Begun, first, size
    <3> QED
      BY <3>2, <3>3
  <2>4. Run(begun, first, size)
    <3>1. CASE HoldsSnapshot(h)
      <4>1. wire = << >> /\ todo[h] = <<Snapshot(last_sent[h])>>
        BY <2>1, <3>1 DEF WireJoins, HoldsSnapshot
      <4>2. Seqs(wire) = << >>
        BY <4>1 DEF Seqs
      <4>3. Seqs(todo[h]) = <<last_sent[h]>>
        BY <4>1 DEF Seqs, Snapshot
      <4>4. begun = <<last_sent[h]>> /\ size = 1
        <5>1. << >> \o <<last_sent[h]>> = <<last_sent[h]>>
          BY <2>2, ConcatEmptySeq
        <5>2. begun = << >> \o <<last_sent[h]>>
          BY <4>2, <4>3 DEF begun
        <5> QED
          BY <4>1, <5>1, <5>2 DEF size
      <4>5. first = last_sent[h] - 1
        BY <3>1 DEF first
      <4> QED
        BY <2>2, <4>4, <4>5 DEF Run
    <3>2. CASE ~HoldsSnapshot(h)
      <4>1. HoldsEvents(h)
        BY <2>1, <3>2, SnapshotOrEvents
      <4>2. /\ first = last_sent[h] - Len(wire) /\ first + Len(wire) = last_sent[h]
            /\ Len(wire) \in Nat /\ Len(todo[h]) \in Nat
        BY <2>2, <3>2 DEF first
      <4>3. \A n : Snapshot(n).seq = n /\ EventFrame(n).seq = n
        BY DEF Snapshot, EventFrame
      <4>4. ASSUME NEW i \in 1..Len(wire)
            PROVE  wire[i].seq = first + i
        <5>1. CASE i = 1
          <6>1. wire # << >> /\ first + i = last_sent[h] - Len(wire) + 1
            BY <2>2, <4>2, <5>1
          <6>2. \/ wire[1] = Snapshot(last_sent[h] - Len(wire) + 1)
                \/ wire[1] = EventFrame(last_sent[h] - Len(wire) + 1)
            BY <2>1, <3>2, <6>1 DEF WireJoins
          <6> QED
            BY <4>3, <5>1, <6>1, <6>2
        <5>2. CASE i # 1
          <6>1. i \in 2..Len(wire)
            BY <4>2, <5>2
          <6>2. wire[i] = EventFrame(last_sent[h] - Len(wire) + i)
            BY <2>1, <6>1 DEF WireJoins, WireEvents
          <6> QED
            BY <4>2, <4>3, <6>2
        <5> QED
          BY <5>1, <5>2
      <4>5. \A i \in 1..Len(todo[h]) : todo[h][i].seq = last_sent[h] + i
        BY <4>1, <4>3 DEF HoldsEvents
      <4>6. Run(Seqs(wire), first, Len(wire))
        BY <2>2, <2>3, <4>4, SeqsOfARun
      <4>7. Run(Seqs(todo[h]), last_sent[h], Len(todo[h]))
        BY <2>2, <4>5, SeqsOfARun
      <4>8. Run(begun, first, Len(wire) + Len(todo[h]))
        BY <2>3, <4>2, <4>6, <4>7, RunsConcatenate DEF begun
      <4> QED
        BY <4>8 DEF size
    <3> QED
      BY <3>1, <3>2
  <2>5. Coming(h) = begun \o queue[h] /\ Run(Coming(h), first, size + (last_seq - Begun(h)))
    <3> DEFINE from == IF todo[h] = << >> THEN last_sent[h] ELSE begun[Len(begun)]
    <3>1. from = Begun(h)
      <4>1. CASE todo[h] = << >>
        BY <2>1, <4>1, SnapshotOrEvents
      <4>2. CASE todo[h] # << >>
        <5>1. size \in 1..size
          BY <2>2, <2>3, <4>2 DEF size
        <5> QED
          BY <2>3, <2>4, <4>2, <5>1 DEF Run
      <4> QED
        BY <4>1, <4>2
    <3>2. last_seq - Begun(h) \in Nat /\ Run(queue[h], Begun(h), last_seq - Begun(h))
      BY <2>1, <2>2 DEF HandlerJoins
    <3>3. Run(After(queue[h], Begun(h)), Begun(h), last_seq - Begun(h))
      <4>1. Begun(h) <= Begun(h) + (last_seq - Begun(h))
        BY <2>2, <3>2
      <4>2. Run(After(queue[h], Begun(h)), Begun(h), Begun(h) + (last_seq - Begun(h)) - Begun(h))
        BY <2>2, <3>2, <4>1, AfterIsTheRest
      <4>3. Begun(h) + (last_seq - Begun(h)) - Begun(h) = last_seq - Begun(h)
        BY <2>2
      <4> QED
        BY <4>2, <4>3
    <3>4. Coming(h) = begun \o After(queue[h], Begun(h))
      BY <3>1 DEF Coming, begun
    <3>5. After(queue[h], Begun(h)) = queue[h]
      BY <2>2, <3>2, <3>3, RunsAreUnique
    <3> QED
      BY <2>2, <2>3, <2>4, <3>2, <3>4, <3>5, RunsConcatenate
  <2> DEFINE all == Coming(h)
             n == size + (last_seq - Begun(h))
  <2>6. n \in Nat /\ first + n = last_seq
    <3>1. Begun(h) <= last_seq
      BY <2>1 DEF HandlerJoins
    <3> QED
      BY <2>2, <2>3, <3>1
  <2>7. Run(all, first, n)
    BY <2>5
  <2> HIDE DEF all, n
  <2>8. \A i \in 1..(Len(all) - 1) : all[i + 1] = all[i] + 1
    BY <2>3, <2>6, <2>7 DEF Run
  <2>9. StartsWithSnapshot(h) \/ (seen = first /\ ~HoldsSnapshot(h))
    <3>1. CASE HoldsSnapshot(h)
      BY <2>1, <3>1 DEF WireJoins, HoldsSnapshot, StartsWithSnapshot, Snapshot
    <3>2. CASE ~HoldsSnapshot(h)
      BY <2>1, <2>2, <3>2 DEF WireJoins, StartsWithSnapshot, Snapshot, first, seen
    <3> QED
      BY <3>1, <3>2
  <2>10. CASE all = << >>
    <3>1. n = 0 /\ size = 0
      BY <2>1, <2>2, <2>3, <2>6, <2>7, <2>10 DEF Run, n, HandlerJoins
    <3>2. wire = << >> /\ todo[h] = << >>
      BY <2>2, <3>1 DEF size
    <3>3. ~StartsWithSnapshot(h)
      BY <3>2 DEF StartsWithSnapshot
    <3> QED
      BY <2>3, <2>6, <2>8, <2>9, <2>10, <3>1, <3>3 DEF all
  <2>11. CASE all # << >>
    <3>1. n \in 1..n /\ all[n] = last_seq /\ Len(all) = n /\ all[1] = first + 1
      BY <2>3, <2>6, <2>7, <2>11 DEF Run
    <3> QED
      BY <2>8, <2>9, <2>11, <3>1 DEF all
  <2> QED
    BY <2>10, <2>11
<1> QED
  BY <1>1, StreamJoins, PTL

\* Every step of the bus, the handlers and the client is a step of the feed or none:
\* "no gap and no replayed duplicate" (SPEC.md:392), over any number of reconnects.
THEOREM StreamImplementsFeed == Spec => ImplementsFeed
<1>1. Init => Feed!Init
  BY DEF Init, Feed!Init, last_seq
<1>2. IInv /\ [Next]_vars => [Feed!Next]_(Feed!feedVars)
  <2> SUFFICES ASSUME IInv, [Next]_vars
               PROVE  Feed!Next \/ UNCHANGED <<last_seq, frame>>
    BY DEF Feed!feedVars
  <2>1. ASSUME NEW n \in 1..MaxBatch, Publish(n)
        PROVE  Feed!Next
    <3>1. next_seq \in Nat /\ n \in Nat \ {0}
      BY BoundAssumption DEF IInv, Buffer
    <3>2. last_seq' > last_seq
      BY <2>1, <3>1 DEF Publish, last_seq
    <3>3. UNCHANGED frame
      BY <2>1 DEF Publish, clientVars
    <3> QED
      BY <3>2, <3>3 DEF Feed!Next, Feed!Extend
  <2>2. CASE Receive
    <3>1. PICK h \in Conn : current = h
      BY <2>2 DEF Receive, IInv, Types
    <3>2. HandlerJoins(h) /\ WireJoins(h)
      BY <3>1 DEF IInv
    <3>3. /\ wire # << >> /\ frame' = Head(wire) /\ last_seq' = last_seq
      BY <2>2 DEF Receive, busVars, last_seq
    <3> DEFINE first == last_sent[h] - Len(wire) + 1
    <3>4. ~HoldsSnapshot(h) /\ wire \in Seq(Frame) /\ frame' = wire[1]
      BY <3>2, <3>3 DEF WireJoins
    <3>5. last_sent[h] \in Int /\ last_seq \in Int /\ first \in Int /\ first <= last_seq
      <4>1. last_sent[h] \in Int /\ last_seq \in Int /\ Len(wire) \in Nat \ {0}
        BY <3>2, <3>3, <3>4 DEF HandlerJoins, IInv, Buffer, last_seq
      <4>2. last_sent[h] <= Begun(h) /\ Begun(h) \in Int /\ Begun(h) <= last_seq
        BY <3>2, SnapshotOrEvents DEF HandlerJoins
      <4> QED
        BY <4>1, <4>2
    <3>6. Len(wire) \in Nat
      BY <3>4
    <3>7. CASE /\ wire[1] = Snapshot(first) /\ first >= -1
               /\ frame # None => frame.seq < last_sent[h] - Len(wire) + 2
      <4>1. frame # None => frame.seq \in Int
        BY DEF IInv, Types, Frame
      <4>2. frame # None => frame.seq <= first
        BY <3>5, <3>6, <3>7, <4>1
      <4> HIDE DEF first
      <4>3. first \in -1..last_seq /\ frame' = [type |-> "snapshot", seq |-> first]
        BY <3>4, <3>5, <3>7 DEF Snapshot
      <4> QED
        BY <3>3, <4>2, <4>3 DEF Feed!Next, Feed!TakeSnapshot
    <3>8. CASE /\ wire[1] = EventFrame(first)
               /\ frame # None /\ frame.seq = last_sent[h] - Len(wire)
      <4>1. frame.seq \in Int /\ first = frame.seq + 1
        BY <3>5, <3>6, <3>8
      <4>2. frame.seq < last_seq
        BY <3>5, <4>1
      <4>3. frame' = [type |-> "event", seq |-> frame.seq + 1]
        BY <3>4, <3>8, <4>1 DEF EventFrame
      <4> QED
        BY <3>3, <3>8, <4>2, <4>3 DEF Feed!Next, Feed!TakeEvent
    <3> QED
      BY <3>2, <3>3, <3>4, <3>7, <3>8 DEF WireJoins
  <2>3. CASE Connect
    BY <2>3 DEF Connect, AcceptFresh, AcceptSince, Accept, busVars, last_seq
  <2>4. CASE Drop
    BY <2>4 DEF Drop, busVars, last_seq
  <2>5. ASSUME NEW h \in Conn, Handler(h)
        PROVE  UNCHANGED <<last_seq, frame>>
    BY <2>5 DEF Handler, SendStart, GoLive, SendLive, SendFails, busVars, clientVars, last_seq
  <2>6. CASE UNCHANGED vars
    BY <2>6 DEF vars, busVars, clientVars, last_seq
  <2> QED
    BY <2>1, <2>2, <2>3, <2>4, <2>5, <2>6 DEF Next
<1> QED
  BY <1>1, <1>2, StreamJoins, PTL DEF Spec, Feed!Spec, ImplementsFeed
=============================================================================
