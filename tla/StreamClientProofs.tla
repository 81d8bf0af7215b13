-------------------------- MODULE StreamClientProofs --------------------------
(* Theorems about the simulator's hook of StreamClient, for every log, every *)
(* buffer and any number of broken connections.                             *)
EXTENDS StreamClient, FiniteSetTheorems, TLAPS

Timer == Seqs \cup {None}

\* While the hook is mounted it has one socket, or one pending reconnect.
HasSocket ==
    /\ socket \in Socket /\ state[socket] # "none"
    /\ \A s \in Socket \ {socket} : state[s] = "none"
    /\ \A n \in Timer : timers[n] = 0
    /\ state[socket] = "connecting" => since[socket] = ResumeAt
HasTimer ==
    /\ \A s \in Socket : state[s] = "none"
    /\ ResumeAt \in Timer /\ timers[ResumeAt] = 1
    /\ \A n \in Timer \ {ResumeAt} : timers[n] = 0

\* Afterwards it has neither, but for sockets that are closing.
HasNeither ==
    /\ Live = {}
    /\ \A n \in Timer : timers[n] = 0

\* What an open socket delivers next is the frame the hook expects.
InStep(s) ==
    state[s] = "open" =>
      IF first[s] = None THEN expected # None /\ at[s] = expected - 1
      ELSE first[s] \in -1..last /\ (expected # None => expected <= first[s] + 1)

\* What the reducer was given lies behind the frame expected.
Behind == \A n \in applied : expected # None /\ n < expected

Types ==
    /\ hook = "experiment" /\ attach = "done" /\ cancelled \in BOOLEAN
    /\ last \in Seqs
    /\ state \in [Socket -> SocketState]
    /\ DOMAIN since = Socket /\ DOMAIN first = Socket
    /\ DOMAIN at = Socket /\ at \in [Socket -> Int]
    /\ DOMAIN timers = Timer
    /\ applied \subseteq Int
    /\ expected # None => expected \in 0..(last + 1)

IInv ==
    /\ Types /\ Behind /\ \A s \in Socket : InStep(s)
    /\ IF cancelled THEN HasNeither ELSE HasSocket \/ HasTimer

\* The live session's hook is another matter.
Safe == hook = "experiment" => IInv

----------------------------------------------------------------------------
LEMMA Bounds == hook = "experiment" => MaxSeq \in Nat
  BY ClientAssumption DEF MaxSeq, Hook

\* Only the socket of a mounted hook is connecting or open.
LEMMA OpenIsTheSocket ==
    ASSUME IInv, NEW s \in Live
    PROVE  s \in Socket /\ s = socket /\ ~cancelled /\ HasSocket
  BY DEF IInv, HasNeither, HasTimer, HasSocket, Live

\* The place a reconnect names is in the log, or is none.
LEMMA ResumeIsATimer ==
    ASSUME IInv
    PROVE  ResumeAt \in Timer
<1>1. MaxSeq \in Nat /\ last \in -1..MaxSeq /\ (expected # None => expected \in 0..(last + 1))
  BY Bounds DEF IInv, Types, Seqs
<1> QED
  BY <1>1 DEF ResumeAt, Timer, Seqs

LEMMA PublishSafe ==
    ASSUME IInv, Publish
    PROVE  IInv'
<1>1. /\ last' = last + 1 /\ last < MaxSeq
      /\ UNCHANGED <<hook, cancelled, attach, socket, state, since, first, at, timers,
                     expected, applied>>
  BY DEF Publish, hookVars, attachVars, socketVars, viewVars
<1>2. MaxSeq \in Nat /\ last \in -1..MaxSeq
  BY Bounds DEF IInv, Types, Seqs
<1>3. MaxSeq' = MaxSeq /\ Timer' = Timer
  BY <1>1 DEF MaxSeq, Timer, Seqs
<1>4. Types'
  BY <1>1, <1>2, <1>3 DEF IInv, Types, Seqs
<1>5. \A s \in Socket : InStep(s)'
  BY <1>1, <1>2 DEF IInv, InStep
<1>6. Behind'
  BY <1>1 DEF IInv, Behind
<1>7. IF cancelled' THEN HasNeither' ELSE HasSocket' \/ HasTimer'
  BY <1>1, <1>3 DEF IInv, HasNeither, HasSocket, HasTimer, Live, ResumeAt
<1> QED
  BY <1>4, <1>5, <1>6, <1>7 DEF IInv

\* A pending timer is the only one, and there is no socket beside it.
LEMMA TimerSafe ==
    ASSUME IInv, TimerFires
    PROVE  IInv'
<1>1. PICK n \in Timer : /\ timers[n] > 0 /\ timers' = [timers EXCEPT ![n] = timers[n] - 1]
                         /\ Connect(n)
                         /\ UNCHANGED <<hook, cancelled, last, attach, expected, applied>>
  BY DEF TimerFires, Timer, hookVars, attachVars, viewVars
<1>2. PICK s \in Free : /\ socket' = s /\ state' = [state EXCEPT ![s] = "connecting"]
                        /\ since' = [since EXCEPT ![s] = n] /\ UNCHANGED <<first, at>>
  <2>1. (CHOOSE t \in Free : TRUE) \in Free
    BY <1>1 DEF Connect
  <2> QED
    BY <1>1, <2>1 DEF Connect
<1>3. ~cancelled /\ HasTimer /\ n = ResumeAt
  BY <1>1 DEF IInv, HasNeither, HasSocket, HasTimer
<1>4. Timer' = Timer /\ Seqs' = Seqs /\ ResumeAt' = ResumeAt
  BY <1>1 DEF Timer, Seqs, MaxSeq, ResumeAt
<1>5. s \in Socket
  BY <1>2 DEF Free
<1>6. /\ \A t \in Socket : state'[t] = IF t = s THEN "connecting" ELSE "none"
      /\ since'[s] = n /\ DOMAIN state' = Socket /\ DOMAIN since' = Socket
  BY <1>2, <1>3, <1>5 DEF IInv, Types, HasTimer
<1>7. DOMAIN timers' = Timer /\ \A m \in Timer : timers'[m] = 0
  BY <1>1, <1>3 DEF IInv, Types, HasTimer
<1>8. HasSocket'
  BY <1>2, <1>3, <1>4, <1>5, <1>6, <1>7 DEF HasSocket
<1>9. \A t \in Socket : InStep(t)'
  BY <1>6 DEF InStep
<1>10. Types'
  BY <1>1, <1>2, <1>4, <1>6, <1>7 DEF IInv, Types, SocketState
<1>11. Behind'
  BY <1>1 DEF IInv, Behind
<1> QED
  BY <1>1, <1>3, <1>8, <1>9, <1>10, <1>11 DEF IInv

\* A step of the one open socket that leaves it where it is.
LEMMA SocketStepSafe ==
    ASSUME IInv, NEW s \in Live, NEW p \in {"open", "closing", "failing"},
           state' = [state EXCEPT ![s] = p],
           UNCHANGED <<hook, cancelled, last, attach, socket, since, timers>>,
           DOMAIN first' = Socket, DOMAIN at' = Socket, at' \in [Socket -> Int],
           applied' \subseteq Int, expected' # None => expected' \in 0..(last + 1),
           Behind', InStep(s)'
    PROVE  IInv'
<1>1. s \in Socket /\ s = socket /\ ~cancelled /\ HasSocket
  BY OpenIsTheSocket
<1>2. \A t \in Socket : state'[t] = IF t = s THEN p ELSE "none"
  BY <1>1 DEF IInv, Types, HasSocket
<1>3. Timer' = Timer /\ Seqs' = Seqs
  BY DEF Timer, Seqs, MaxSeq
<1>4. HasSocket'
  BY <1>1, <1>2, <1>3 DEF HasSocket
<1>5. \A t \in Socket : InStep(t)'
  BY <1>2 DEF InStep
<1>6. Types'
  BY <1>3 DEF IInv, Types, SocketState
<1> QED
  BY <1>1, <1>4, <1>5, <1>6 DEF IInv

LEMMA ServerAcceptsSafe ==
    ASSUME IInv, NEW s \in Socket, ServerAccepts(s)
    PROVE  IInv'
<1>1. s \in Live
  BY DEF ServerAccepts, Live
<1>2. /\ state' = [state EXCEPT ![s] = "open"]
      /\ UNCHANGED <<hook, cancelled, last, attach, socket, since, timers, expected, applied>>
  BY DEF ServerAccepts, hookVars, attachVars, viewVars
<1>3. since[s] = ResumeAt
  BY <1>1, OpenIsTheSocket DEF ServerAccepts, HasSocket
<1>4. \/ /\ first' = [first EXCEPT ![s] = last] /\ at' = at
      \/ /\ since[s] # None
         /\ first' = [first EXCEPT ![s] = None] /\ at' = [at EXCEPT ![s] = since[s]]
  BY DEF ServerAccepts
<1>5. last \in Int /\ last >= -1 /\ (expected # None => expected \in 0..(last + 1))
  BY Bounds DEF IInv, Types, Seqs
<1>6. since[s] # None => expected # None /\ since[s] = expected - 1 /\ since[s] \in Int
  BY <1>3, <1>5 DEF ResumeAt
<1>7. DOMAIN first' = Socket /\ DOMAIN at' = Socket /\ at' \in [Socket -> Int]
  BY <1>4, <1>6 DEF IInv, Types
<1>8. InStep(s)'
  <2>1. CASE first' = [first EXCEPT ![s] = last] /\ at' = at
    <3>1. first'[s] = last
      BY <2>1 DEF IInv, Types
    <3>2. last # None /\ last \in -1..last
      BY <1>5, ClientAssumption
    <3>3. expected # None => expected <= last + 1
      BY <1>5
    <3> QED
      BY <1>2, <3>1, <3>2, <3>3 DEF InStep
  <2>2. CASE /\ since[s] # None
             /\ first' = [first EXCEPT ![s] = None] /\ at' = [at EXCEPT ![s] = since[s]]
    <3>1. first'[s] = None /\ at'[s] = expected - 1 /\ expected' # None
      BY <1>2, <1>6, <2>2 DEF IInv, Types
    <3> QED
      BY <1>2, <3>1 DEF InStep
  <2> QED
    BY <1>4, <2>1, <2>2
<1>9. Behind'
  BY <1>2 DEF IInv, Behind
<1>10. applied' \subseteq Int /\ (expected' # None => expected' \in 0..(last + 1))
  BY <1>2, <1>5 DEF IInv, Types
<1> QED
  BY <1>1, <1>2, <1>7, <1>8, <1>9, <1>10, SocketStepSafe

LEMMA SnapshotSafe ==
    ASSUME IInv, NEW s \in Socket, SnapshotArrives(s)
    PROVE  IInv'
<1>1. s \in Live /\ state[s] = "open" /\ first[s] # None
  BY DEF SnapshotArrives, Live
<1>2. /\ at' = [at EXCEPT ![s] = first[s]] /\ first' = [first EXCEPT ![s] = None]
      /\ expected' = first[s] + 1
      /\ UNCHANGED <<hook, cancelled, last, attach, socket, state, since, timers, applied>>
  BY DEF SnapshotArrives, hookVars, attachVars
<1>3. first[s] \in -1..last /\ (expected # None => expected <= first[s] + 1)
  BY <1>1 DEF IInv, InStep
<1>4. last \in Int /\ first[s] \in Int /\ first[s] >= -1 /\ first[s] <= last
  BY <1>3, Bounds DEF IInv, Types, Seqs
<1>5. expected' \in Int /\ expected' # None /\ expected' \in 0..(last + 1)
  BY <1>2, <1>4, ClientAssumption
<1>6. first'[s] = None /\ at'[s] = first[s]
  BY <1>2 DEF IInv, Types
<1>7. InStep(s)'
  <2>1. at'[s] = expected' - 1
    BY <1>2, <1>4, <1>6
  <2> QED
    BY <1>5, <1>6, <2>1 DEF InStep
<1>8. Behind'
  <2> SUFFICES ASSUME NEW n \in applied
               PROVE  n < expected'
    BY <1>2, <1>5 DEF Behind
  <2>1. expected # None /\ n < expected
    BY DEF IInv, Behind
  <2>2. n \in Int
    BY DEF IInv, Types
  <2>3. expected \in 0..(last + 1)
    BY <2>1 DEF IInv, Types
  <2>4. expected \in Int
    BY <2>3, <1>4
  <2>5. expected' = first[s] + 1
    BY <1>2
  <2>6. expected <= first[s] + 1
    BY <1>3, <2>1
  <2> QED
    BY <1>4, <2>1, <2>2, <2>4, <2>5, <2>6
<1>9. DOMAIN first' = Socket /\ DOMAIN at' = Socket /\ at' \in [Socket -> Int]
  BY <1>2, <1>4 DEF IInv, Types
<1>10. state' = [state EXCEPT ![s] = "open"] /\ applied' \subseteq Int
  BY <1>1, <1>2 DEF IInv, Types
<1> QED
  BY <1>1, <1>2, <1>5, <1>7, <1>8, <1>9, <1>10, SocketStepSafe

\* An event that arrives is the one expected: there is no gap.
LEMMA NoGap ==
    ASSUME IInv, NEW s \in Socket, Arrives(s)
    PROVE  expected # None /\ at[s] + 1 = expected /\ ~Gap(s)
<1>1. expected # None /\ at[s] = expected - 1
  BY DEF IInv, InStep, Arrives
<1>2. expected \in Int
  BY <1>1, Bounds DEF IInv, Types, Seqs
<1> QED
  BY <1>1, <1>2 DEF Gap

LEMMA EventSafe ==
    ASSUME IInv, NEW s \in Socket, EventArrives(s)
    PROVE  IInv'
<1>1. s \in Live /\ state[s] = "open" /\ first[s] = None /\ at[s] < last
  BY DEF EventArrives, Arrives, Live
<1>2. /\ at' = [at EXCEPT ![s] = at[s] + 1] /\ expected' = at[s] + 2
      /\ applied' = applied \cup {at[s] + 1}
      /\ UNCHANGED <<hook, cancelled, last, attach, socket, state, since, first, timers>>
  BY DEF EventArrives, hookVars, attachVars
<1>3. expected # None /\ at[s] + 1 = expected
  BY NoGap DEF EventArrives
<1>4. at[s] \in Int /\ last \in Int /\ expected \in 0..(last + 1)
  BY <1>3, Bounds DEF IInv, Types, Seqs
<1>5. expected' \in Int /\ expected' # None /\ expected' \in 0..(last + 1) /\ expected' = expected + 1
  BY <1>1, <1>2, <1>3, <1>4, ClientAssumption
<1>6. InStep(s)'
  <2>1. at'[s] = at[s] + 1 /\ first'[s] = None
    BY <1>1, <1>2 DEF IInv, Types
  <2> QED
    BY <1>2, <1>4, <1>5, <2>1 DEF InStep
<1>7. Behind'
  <2> SUFFICES ASSUME NEW n \in applied'
               PROVE  n < expected'
    BY <1>5 DEF Behind
  <2>1. CASE n = at[s] + 1
    BY <1>3, <1>4, <1>5, <2>1
  <2>2. CASE n \in applied
    <3>1. n < expected /\ n \in Int
      BY <2>2 DEF IInv, Behind, Types
    <3> QED
      BY <1>4, <1>5, <3>1
  <2> QED
    BY <1>2, <2>1, <2>2
<1>8. DOMAIN first' = Socket /\ DOMAIN at' = Socket /\ at' \in [Socket -> Int]
  BY <1>2, <1>4 DEF IInv, Types
<1>9. state' = [state EXCEPT ![s] = "open"]
  <2>1. state' = state /\ state[s] = "open"
    BY <1>1, <1>2
  <2>2. state \in [Socket -> SocketState]
    BY DEF IInv, Types
  <2> QED
    BY <2>1, <2>2
<1>10. applied' \subseteq Int
  <2>1. applied \subseteq Int
    BY DEF IInv, Types
  <2>2. applied' = applied \cup {at[s] + 1}
    BY <1>2
  <2>3. at[s] + 1 \in Int
    BY <1>4
  <2> QED
    BY <2>1, <2>2, <2>3
<1> QED
  BY <1>1, <1>2, <1>5, <1>6, <1>7, <1>8, <1>9, <1>10, SocketStepSafe

LEMMA BreakSafe ==
    ASSUME IInv, NEW s \in Socket, ConnectionBreaks(s)
    PROVE  IInv'
<1>1. /\ s \in Live
      /\ UNCHANGED <<hook, cancelled, last, attach, socket, since, first, at, timers,
                     expected, applied>>
  BY DEF ConnectionBreaks, hookVars, attachVars, viewVars
<1>2. PICK p \in {"closing", "failing"} : state' = [state EXCEPT ![s] = p]
  BY DEF ConnectionBreaks
<1>3. InStep(s)'
  BY <1>1, <1>2 DEF InStep, IInv, Types
<1>4. Behind'
  BY <1>1 DEF IInv, Behind
<1>5. /\ DOMAIN first' = Socket /\ DOMAIN at' = Socket /\ at' \in [Socket -> Int]
      /\ applied' \subseteq Int /\ (expected' # None => expected' \in 0..(last + 1))
  BY <1>1 DEF IInv, Types
<1> QED
  BY <1>1, <1>2, <1>3, <1>4, <1>5, SocketStepSafe

\* onclose of the only socket puts the only timer in its place.
LEMMA OnCloseSafe ==
    ASSUME IInv, NEW s \in Socket, OnClose(s)
    PROVE  IInv'
<1>1. /\ state[s] \in {"closing", "failing"}
      /\ since' = [since EXCEPT ![s] = None] /\ first' = [first EXCEPT ![s] = None]
      /\ at' = [at EXCEPT ![s] = -1] /\ timers' = Scheduled(ResumeAt)
      /\ UNCHANGED <<hook, cancelled, last, attach, socket, expected, applied>>
  BY DEF OnClose, hookVars, attachVars, viewVars
<1>2. Timer' = Timer /\ Seqs' = Seqs /\ ResumeAt' = ResumeAt
  BY <1>1 DEF Timer, Seqs, MaxSeq, ResumeAt
<1>3. /\ state'[s] = "none" /\ \A t \in Socket \ {s} : state'[t] = state[t]
      /\ state' \in [Socket -> SocketState]
  <2>1. PICK gone : gone = [state EXCEPT ![s] = "none"]
    OBVIOUS
  <2>2. /\ gone \in [Socket -> SocketState] /\ gone[s] = "none"
        /\ \A t \in Socket \ {s} : gone[t] = state[t]
    BY <2>1 DEF IInv, Types, SocketState
  <2>3. state' = gone \/ state' = CloseNewest(gone)
    BY <2>1 DEF OnClose
  <2>4. \A t \in Socket : t = socket => gone[t] \notin {"connecting", "open"}
    <3>1. ASSUME NEW t \in Live PROVE t = s
      <4>1. t = socket /\ HasSocket
        BY <3>1, OpenIsTheSocket
      <4> QED
        BY <1>1, <4>1 DEF HasSocket
    <3> QED
      BY <2>2, <3>1 DEF Live
  <2>5. CloseNewest(gone) = gone
    BY <2>2, <2>4 DEF CloseNewest
  <2> QED
    BY <2>2, <2>3, <2>5
<1>4. ASSUME cancelled PROVE HasNeither'
  <2>1. UNCHANGED timers /\ HasNeither
    BY <1>1, <1>4 DEF Scheduled, IInv
  <2> QED
    BY <1>2, <1>3, <2>1 DEF HasNeither, Live
<1>5. ASSUME ~cancelled PROVE HasTimer'
  <2>1. HasSocket /\ s = socket
    BY <1>1, <1>5 DEF IInv, HasSocket, HasTimer
  <2>2. timers' = [timers EXCEPT ![ResumeAt] = timers[ResumeAt] + 1]
    BY <1>1, <1>5 DEF Scheduled
  <2>3. ResumeAt \in Timer /\ DOMAIN timers = Timer
    BY ResumeIsATimer DEF IInv, Types
  <2>4. timers'[ResumeAt] = 1 /\ \A n \in Timer \ {ResumeAt} : timers'[n] = 0
    BY <2>1, <2>2, <2>3 DEF HasSocket
  <2> QED
    BY <1>2, <1>3, <2>1, <2>3, <2>4 DEF HasTimer, HasSocket
<1>6. IF cancelled' THEN HasNeither' ELSE HasSocket' \/ HasTimer'
  BY <1>1, <1>4, <1>5 DEF IInv
<1>7. DOMAIN timers' = Timer'
  BY <1>1, <1>2 DEF Scheduled, IInv, Types
<1>8. Types'
  <2>1. DOMAIN since' = Socket /\ DOMAIN first' = Socket
    BY <1>1 DEF IInv, Types
  <2>2. DOMAIN at' = Socket /\ at' \in [Socket -> Int]
    BY <1>1 DEF IInv, Types
  <2>3. state' \in [Socket -> SocketState]
    BY <1>3
  <2> QED
    BY <1>1, <1>2, <1>7, <2>1, <2>2, <2>3 DEF IInv, Types
<1>9. Behind'
  BY <1>1 DEF IInv, Behind
<1>10. \A t \in Socket : InStep(t)'
  <2> SUFFICES ASSUME NEW t \in Socket, t # s
               PROVE  InStep(t)'
    BY <1>3 DEF InStep
  <2>1. state'[t] = state[t] /\ first'[t] = first[t] /\ at'[t] = at[t]
    BY <1>1, <1>3 DEF IInv, Types
  <2> QED
    BY <1>1, <2>1 DEF IInv, InStep
<1> QED
  BY <1>6, <1>8, <1>9, <1>10 DEF IInv

LEMMA UnmountSafe ==
    ASSUME IInv, Unmount
    PROVE  IInv'
<1>1. /\ ~cancelled /\ cancelled' = TRUE /\ attach' = "done"
      /\ timers' = [n \in DOMAIN timers |-> 0]
      /\ state' = CloseNewest(state)
      /\ UNCHANGED <<hook, last, socket, since, first, at, expected, applied>>
  BY DEF Unmount, viewVars
<1>2. Timer' = Timer /\ Seqs' = Seqs
  BY <1>1 DEF Timer, Seqs, MaxSeq
<1>3. /\ state' \in [Socket -> SocketState]
      /\ \A s \in Socket : /\ s = socket => state'[s] \notin {"connecting", "open"}
                           /\ s # socket => state'[s] = state[s]
                           /\ state'[s] = state[s] \/ state'[s] \in {"closing", "failing"}
  BY <1>1 DEF IInv, Types, SocketState, CloseNewest
<1>4. Live' = {}
  BY <1>1, <1>3 DEF IInv, HasSocket, HasTimer, Live
<1>5. HasNeither'
  BY <1>1, <1>2, <1>4 DEF HasNeither, IInv, Types
<1>6. Types'
  BY <1>1, <1>2, <1>3 DEF IInv, Types
<1>7. \A s \in Socket : InStep(s)'
  BY <1>1, <1>3 DEF IInv, InStep
<1>8. Behind'
  BY <1>1 DEF IInv, Behind
<1> QED
  BY <1>1, <1>5, <1>6, <1>7, <1>8 DEF IInv

----------------------------------------------------------------------------
(* The theorems *)

LEMMA StepSafe == Safe /\ [Next]_vars => Safe'
<1> SUFFICES ASSUME Safe, [Next]_vars, hook' = "experiment"
             PROVE  IInv'
  BY DEF Safe
<1>1. hook' = hook
  BY DEF Next, Publish, TimerFires, Unmount, ReadSnapshot, ReadEvents, AttachFails, ServerAccepts,
         Deliver, SnapshotArrives, EventArrives, GapArrives, ConnectionBreaks, OnClose, hookVars, vars
<1>2. IInv
  BY <1>1 DEF Safe
<1>3. ~ReadSnapshot /\ ~ReadEvents /\ ~AttachFails
  BY <1>2 DEF IInv, Types, ReadSnapshot, ReadEvents, AttachFails
<1>4. ASSUME NEW s \in Socket, ServerAccepts(s) \/ Deliver(s) \/ ConnectionBreaks(s) \/ OnClose(s)
      PROVE  IInv'
  <2>1. ~GapArrives(s)
    BY <1>2, NoGap DEF GapArrives, Gap
  <2> QED
    BY <1>2, <1>4, <2>1, ServerAcceptsSafe, SnapshotSafe, EventSafe, BreakSafe, OnCloseSafe DEF Deliver
<1>5. CASE UNCHANGED vars
  <2>1. UNCHANGED <<hook, cancelled, last, attach, socket, state, since, first, at, timers,
                    expected, applied>>
    BY <1>5 DEF vars, hookVars, attachVars, socketVars, viewVars
  <2> QED
    BY <1>2, <2>1 DEF IInv, Types, Timer, Seqs, MaxSeq, Behind, InStep, HasNeither, HasSocket, HasTimer,
                      Live, ResumeAt
<1> QED
  BY <1>2, <1>3, <1>4, <1>5, PublishSafe, TimerSafe, UnmountSafe DEF Next

\* The simulator's hook has one socket or one pending reconnect while it is mounted,
\* and what its socket delivers is what it expects (useExperimentStream.ts).
THEOREM HookSafe == Spec => []Safe
<1>1. Init => Safe
  <2> SUFFICES ASSUME Init, hook = "experiment" PROVE IInv
    BY DEF Safe
  <2>1. /\ socket \in Socket /\ state[socket] = "connecting"
        /\ \A s \in Socket \ {socket} : state[s] = "none"
    <3>1. (CHOOSE s \in Socket : TRUE) \in Socket
      BY ClientAssumption
    <3> QED
      BY <3>1 DEF Init
  <2>2. HasSocket
    BY <2>1 DEF Init, HasSocket, Timer, ResumeAt
  <2>3. Types
    <3>1. last \in Seqs
      BY Bounds DEF Init, Seqs
    <3>2. state \in [Socket -> SocketState] /\ attach = "done"
      BY DEF Init, SocketState
    <3>3. DOMAIN since = Socket /\ DOMAIN first = Socket /\ DOMAIN timers = Timer
      BY DEF Init, Timer
    <3>4. at \in [Socket -> Int] /\ DOMAIN at = Socket
      BY DEF Init
    <3> QED
      BY <3>1, <3>2, <3>3, <3>4 DEF Init, Types
  <2>4. Behind
    BY DEF Init, Behind
  <2>5. \A s \in Socket : InStep(s)
    BY <2>1 DEF InStep
  <2> QED
    BY <2>2, <2>3, <2>4, <2>5 DEF IInv, Init
<1> QED
  BY <1>1, StepSafe, PTL DEF Spec

\* "Owns the socket" (SPEC.md:305), for any number of broken connections.
THEOREM OwnsTheSocket == Spec => []SocketIsOwned
<1>1. Safe => SocketIsOwned
  <2> SUFFICES ASSUME IInv
               PROVE  Cardinality(Live) <= (IF cancelled THEN 0 ELSE 1)
    BY DEF Safe, SocketIsOwned
  <2>1. CASE cancelled
    BY <2>1, FS_EmptySet DEF IInv, HasNeither
  <2>2. CASE ~cancelled
    <3>1. Live \subseteq {socket}
      BY OpenIsTheSocket
    <3>2. IsFiniteSet({socket}) /\ Cardinality({socket}) = 1
      BY FS_Singleton
    <3>3. Cardinality(Live) <= Cardinality({socket})
      BY <3>1, <3>2, FS_Subset
    <3> QED
      BY <2>2, <3>2, <3>3
  <2> QED
    BY <2>1, <2>2
<1> QED
  BY <1>1, HookSafe, PTL

\* "No gap, no replayed duplicates" (SPEC.md:392): no frame of a healthy server is taken
\* for a gap, and every event that is applied lies after all that were.
THEOREM NothingTwice == Spec => EachEventOnce
<1>1. Safe /\ [Next]_vars =>
        [hook = "experiment" =>
           \A s \in Socket :
             /\ ~GapArrives(s)
             /\ EventArrives(s) => \A n \in applied : n < at[s] + 1]_vars
  <2> SUFFICES ASSUME IInv, NEW s \in Socket
               PROVE  /\ ~GapArrives(s)
                      /\ EventArrives(s) => \A n \in applied : n < at[s] + 1
    BY DEF Safe
  <2>1. ~GapArrives(s)
    BY NoGap DEF GapArrives, Gap
  <2>2. ASSUME EventArrives(s), NEW n \in applied
        PROVE  n < at[s] + 1
    <3>1. at[s] + 1 = expected
      BY <2>2, NoGap DEF EventArrives
    <3> QED
      BY <3>1 DEF IInv, Behind
  <2> QED
    BY <2>1, <2>2
<1> QED
  BY <1>1, HookSafe, PTL DEF Spec, EachEventOnce
=============================================================================
