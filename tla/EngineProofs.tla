----------------------------- MODULE EngineProofs -----------------------------
(***************************************************************************)
(* Proofs about the model gateway (ModelGateway) and the simulation engine *)
(* (Outbreak), for every value of their constants.                         *)
(***************************************************************************)
EXTENDS ModelGateway, Outbreak, FiniteSetTheorems, WellFoundedInduction, TLAPS

----------------------------------------------------------------------------
(* The model gateway *)

Held(states) == {c \in Caller : states[c] \in {"woken", "calling", "backoff"}}

\* The queue holds waiting callers, each once, and none that is being cancelled.
Waiters ==
    /\ \A i \in 1..Len(queue) : call[queue[i]] = "waiting" /\ queue[i] \notin cancelling
    /\ \A i, j \in 1..Len(queue) : queue[i] = queue[j] => i = j

\* Only a caller on its way is cancelled, and between two ticks nobody is on the way.
Active ==
    /\ \A c \in cancelling : call[c] \notin Ended
    /\ round = "idle" => \A c \in Caller : call[c] \in Ended

IInv == TypeOK /\ WithinBudget /\ PermitsAreKept /\ Waiters /\ Active

----------------------------------------------------------------------------
LEMMA HeldIsFinite ==
    ASSUME NEW states
    PROVE  /\ IsFiniteSet(Held(states)) /\ Cardinality(Held(states)) \in Nat
<1>1. Held(states) \subseteq Caller
  BY DEF Held
<1>2. IsFiniteSet(Held(states))
  BY <1>1, CallerAssumption, FS_Subset
<1> QED
  BY <1>2, FS_CardinalityType

\* What one caller's change of place does to the number of permits in use.
LEMMA OneMoves ==
    ASSUME NEW before, NEW after, NEW c \in Caller,
           \A d \in Caller \ {c} : d \in Held(before) <=> d \in Held(after)
    PROVE  /\ c \in Held(before) /\ c \in Held(after)
                => Cardinality(Held(after)) = Cardinality(Held(before))
           /\ c \notin Held(before) /\ c \notin Held(after)
                => Cardinality(Held(after)) = Cardinality(Held(before))
           /\ c \in Held(before) /\ c \notin Held(after)
                => Cardinality(Held(after)) = Cardinality(Held(before)) - 1
           /\ c \notin Held(before) /\ c \in Held(after)
                => Cardinality(Held(after)) = Cardinality(Held(before)) + 1
<1>1. Held(before) \subseteq Caller /\ Held(after) \subseteq Caller
  BY DEF Held
<1>2. c \in Held(after) => Held(after) = Held(before) \cup {c}
  BY <1>1
<1>3. c \notin Held(after) => Held(after) = Held(before) \ {c}
  BY <1>1
<1>4. c \in Held(before) => Held(before) \cup {c} = Held(before)
  OBVIOUS
<1>5. c \notin Held(before) => Held(before) \ {c} = Held(before)
  OBVIOUS
<1>6. IsFiniteSet(Held(before))
  BY HeldIsFinite
<1>7. Cardinality(Held(before) \cup {c}) = IF c \in Held(before) THEN Cardinality(Held(before))
                                          ELSE Cardinality(Held(before)) + 1
  BY <1>6, FS_AddElement
<1>8. Cardinality(Held(before) \ {c}) = IF c \in Held(before) THEN Cardinality(Held(before)) - 1
                                       ELSE Cardinality(Held(before))
  BY <1>6, FS_RemoveElement
<1> QED
  BY <1>2, <1>3, <1>4, <1>5, <1>7, <1>8

\* The first k waiters are k callers.
LEMMA FirstWaiters ==
    ASSUME queue \in Seq(Caller), NEW k \in Nat, k <= Len(queue),
           \A i, j \in 1..Len(queue) : queue[i] = queue[j] => i = j
    PROVE  LET first == {queue[i] : i \in 1..k} IN
           first \subseteq Caller /\ IsFiniteSet(first) /\ Cardinality(first) = k
<1> DEFINE first == {queue[i] : i \in 1..k}
           f == [i \in 1..k |-> queue[i]]
<1>1. \A i \in 1..k : i \in 1..Len(queue) /\ queue[i] \in Caller
  OBVIOUS
<1>2. first \subseteq Caller
  BY <1>1
<1>3. f \in Bijection(1..k, first)
  BY <1>1 DEF Bijection, Injection, Surjection, IsInjective
<1>4. IsFiniteSet(1..k) /\ Cardinality(1..k) = k
  BY FS_Interval
<1>5. ExistsBijection(1..k, first)
  BY <1>3 DEF ExistsBijection
<1> QED
  BY <1>2, <1>4, <1>5, FS_Bijection

----------------------------------------------------------------------------
\* Granting conserves the permits, whoever gets them.
LEMMA GrantKeeps ==
    ASSUME queue \in Seq(Caller), Waiters,
           NEW states \in [Caller -> Phase], NEW permits \in Nat, NEW k \in Nat,
           k <= permits, k <= Len(queue),
           \A i \in 1..Len(queue) : states[queue[i]] = "waiting",
           Grant(states, permits, k)
    PROVE  /\ free' \in Nat /\ queue' \in Seq(Caller) /\ call' \in [Caller -> Phase]
           /\ free' + Cardinality(Holding') = permits + Cardinality(Held(states))
           /\ Len(queue') = Len(queue) - k
           /\ \A i \in 1..Len(queue') : queue'[i] = queue[i + k] /\ call'[queue'[i]] = "waiting"
           /\ \A i, j \in 1..Len(queue') : queue'[i] = queue'[j] => i = j
           /\ k > 0 => \E c \in Caller : call'[c] = "woken"
           /\ \A c \in Caller : call'[c] = states[c] \/ (call'[c] = "woken" /\ states[c] = "waiting")
<1> DEFINE first == {queue[i] : i \in 1..k}
<1>1. /\ free' = permits - k /\ queue' = SubSeq(queue, k + 1, Len(queue))
      /\ call' = [c \in Caller |-> IF \E i \in 1..k : queue[i] = c THEN "woken" ELSE states[c]]
  BY DEF Grant
<1>2. \A i, j \in 1..Len(queue) : queue[i] = queue[j] => i = j
  BY DEF Waiters
<1>3. first \subseteq Caller /\ IsFiniteSet(first) /\ Cardinality(first) = k
  BY <1>2, FirstWaiters
<1>4. \A c \in Caller : call'[c] = IF c \in first THEN "woken" ELSE states[c]
  BY <1>1
<1>5. \A c \in first : states[c] = "waiting"
  OBVIOUS
<1>6. Holding' = Held(states) \cup first /\ Held(states) \cap first = {}
  BY <1>3, <1>4, <1>5 DEF Holding, Held
<1>7. Cardinality(Holding') = Cardinality(Held(states)) + k
  <2> HIDE DEF first
  <2>1. IsFiniteSet(Held(states)) /\ Cardinality(Held(states)) \in Nat
    BY HeldIsFinite
  <2>2. Cardinality(Held(states) \cup first)
          = Cardinality(Held(states)) + Cardinality(first) - Cardinality(Held(states) \cap first)
    BY <2>1, <1>3, FS_Union
  <2>3. Cardinality(Held(states) \cap first) = 0
    BY <1>6, FS_EmptySet
  <2> QED
    BY <2>1, <2>2, <2>3, <1>3, <1>6
<1>8. /\ free' \in Nat
      /\ free' + Cardinality(Holding') = permits + Cardinality(Held(states))
  BY <1>1, <1>7, HeldIsFinite
<1>9. /\ queue' \in Seq(Caller) /\ Len(queue') = Len(queue) - k
      /\ \A i \in 1..Len(queue') : i + k \in 1..Len(queue) /\ queue'[i] = queue[i + k]
  BY <1>1
<1>10. \A i \in 1..Len(queue') : queue'[i] \notin first /\ queue'[i] \in Caller
  <2> SUFFICES ASSUME NEW i \in 1..Len(queue')
               PROVE  queue'[i] \notin first /\ queue'[i] \in Caller
    OBVIOUS
  <2>1. queue'[i] = queue[i + k] /\ i + k \in 1..Len(queue) /\ i + k > k
    BY <1>9
  <2>2. queue'[i] \in Caller
    BY <2>1
  <2>3. ASSUME NEW j \in 1..k, queue[j] = queue'[i] PROVE FALSE
    <3>1. j \in 1..Len(queue) /\ queue[j] = queue[i + k]
      BY <2>1, <2>3
    <3>2. j = i + k
      BY <3>1, <2>1, <1>2
    <3> QED
      BY <3>2, <2>1
  <2> QED
    BY <2>2, <2>3
<1>11. \A i \in 1..Len(queue') : call'[queue'[i]] = "waiting"
  <2> SUFFICES ASSUME NEW i \in 1..Len(queue')
               PROVE  call'[queue'[i]] = "waiting"
    OBVIOUS
  <2>1. queue'[i] = queue[i + k] /\ i + k \in 1..Len(queue)
    BY <1>9
  <2>2. states[queue'[i]] = "waiting"
    BY <2>1
  <2> HIDE DEF first
  <2>3. call'[queue'[i]] = states[queue'[i]]
    BY <1>4, <1>10
  <2> QED
    BY <2>2, <2>3
<1>12. \A i, j \in 1..Len(queue') : queue'[i] = queue'[j] => i = j
  <2> SUFFICES ASSUME NEW i \in 1..Len(queue'), NEW j \in 1..Len(queue'),
                      queue'[i] = queue'[j]
               PROVE  i = j
    OBVIOUS
  <2>1. /\ queue'[i] = queue[i + k] /\ i + k \in 1..Len(queue)
        /\ queue'[j] = queue[j + k] /\ j + k \in 1..Len(queue)
    BY <1>9
  <2>2. i + k = j + k
    BY <1>2, <2>1
  <2> QED
    BY <2>2
<1>13. call' \in [Caller -> Phase]
  BY <1>1 DEF Phase
<1>14. k > 0 => \E c \in Caller : call'[c] = "woken"
  <2>1. k > 0 => queue[1] \in first
    OBVIOUS
  <2> QED
    BY <2>1, <1>3, <1>4
<1> HIDE DEF first
<1> QED
  BY <1>4, <1>5, <1>8, <1>9, <1>11, <1>12, <1>13, <1>14

\* A caller moves to p, and k waiters get a permit each: every step of a caller is such a
\* move, and it keeps the invariant if the permits add up and nobody is left waiting who
\* should have been woken.
LEMMA CallerMoves ==
    ASSUME IInv, NEW c \in Caller, call[c] # "waiting" \/ c \in cancelling,
           NEW p \in Phase \ {"waiting"}, NEW permits \in Nat, NEW k \in Nat,
           k <= permits, k <= Len(queue),
           permits + Cardinality(Held([call EXCEPT ![c] = p])) = MaxConcurrency,
           Grant([call EXCEPT ![c] = p], permits, k),
           \/ k = Most(permits) \/ k = 1 \/ queue = <<>>
           \/ permits = free /\ call[c] # "woken",
           cancelling' \subseteq cancelling, c \notin cancelling', round' # "idle"
    PROVE  /\ free' \in Nat /\ queue' \in Seq(Caller) /\ call' \in [Caller -> Phase]
           /\ PermitsAreKept' /\ Waiters' /\ Active'
<1> DEFINE states == [call EXCEPT ![c] = p]
<1>1. /\ call \in [Caller -> Phase] /\ queue \in Seq(Caller) /\ free \in Nat
      /\ Waiters /\ Active /\ PermitsAreKept /\ MaxConcurrency \in Nat
  BY LimitAssumption DEF IInv, TypeOK
<1>2. states \in [Caller -> Phase] /\ states[c] = p /\ \A d \in Caller : d # c => states[d] = call[d]
  BY <1>1
<1>3. \A i \in 1..Len(queue) : queue[i] \in Caller /\ queue[i] # c
  BY <1>1 DEF Waiters
<1>4. \A i \in 1..Len(queue) : states[queue[i]] = "waiting"
  BY <1>1, <1>2, <1>3 DEF Waiters
<1>5. permits + Cardinality(Held(states)) = MaxConcurrency /\ Grant(states, permits, k)
  OBVIOUS
<1> HIDE DEF states
<1>6. /\ free' \in Nat /\ queue' \in Seq(Caller) /\ call' \in [Caller -> Phase]
      /\ free' + Cardinality(Holding') = permits + Cardinality(Held(states))
      /\ Len(queue') = Len(queue) - k
      /\ \A i \in 1..Len(queue') : queue'[i] = queue[i + k] /\ call'[queue'[i]] = "waiting"
      /\ \A i, j \in 1..Len(queue') : queue'[i] = queue'[j] => i = j
      /\ k > 0 => \E d \in Caller : call'[d] = "woken"
      /\ \A d \in Caller : call'[d] = states[d] \/ (call'[d] = "woken" /\ states[d] = "waiting")
  BY <1>1, <1>2, <1>4, <1>5, GrantKeeps
<1>7. free' + Cardinality(Holding') = MaxConcurrency
  BY <1>5, <1>6
<1>8. queue' # <<>> /\ free' > 0 => \E d \in Caller : call'[d] = "woken"
  <2> SUFFICES ASSUME queue' # <<>>, free' > 0 PROVE \E d \in Caller : call'[d] = "woken"
    OBVIOUS
  <2>1. Len(queue') > 0 /\ Len(queue) > k /\ Len(queue) \in Nat
    BY <1>1, <1>6
  <2>2. free' = permits - k
    BY <1>5 DEF Grant
  <2>3. k # Most(permits)
    BY <2>1, <2>2 DEF Most
  <2>4. CASE k = 1
    BY <2>4, <1>6
  <2>5. CASE k # 1
    <3>1. queue # <<>> /\ permits = free /\ call[c] # "woken"
      BY <2>1, <2>3, <2>5, <1>1
    <3>2. free > 0
      BY <3>1, <2>2
    <3>3. PICK d \in Caller : call[d] = "woken"
      BY <3>1, <3>2, <1>1 DEF PermitsAreKept
    <3>4. states[d] = "woken"
      BY <3>1, <3>3, <1>2
    <3> QED
      BY <3>4, <1>6
  <2> QED
    BY <2>4, <2>5
<1>9. Waiters'
  <2>1. ASSUME NEW i \in 1..Len(queue') PROVE call'[queue'[i]] = "waiting" /\ queue'[i] \notin cancelling'
    <3>1. i + k \in 1..Len(queue) /\ queue'[i] = queue[i + k] /\ call'[queue'[i]] = "waiting"
      BY <1>6, <1>1, <2>1
    <3>2. queue[i + k] \notin cancelling
      BY <3>1, <1>1 DEF Waiters
    <3> QED
      BY <3>1, <3>2
  <2> QED
    BY <2>1, <1>6 DEF Waiters
<1>10. Active'
  <2>1. ASSUME NEW d \in cancelling' PROVE call'[d] \notin Ended
    <3>1. d \in Caller /\ d # c /\ d \in cancelling
      BY <2>1 DEF IInv, TypeOK
    <3>2. states[d] = call[d] /\ call[d] \notin Ended
      BY <3>1, <1>1, <1>2 DEF Active
    <3> QED
      BY <3>1, <3>2, <1>6 DEF Ended
  <2> QED
    BY <2>1 DEF Active
<1> QED
  BY <1>6, <1>7, <1>8, <1>9, <1>10 DEF PermitsAreKept

----------------------------------------------------------------------------
Holds(p) == p \in {"woken", "calling", "backoff"}

LEMMA PermitsAfter ==
    ASSUME IInv, NEW c \in Caller, NEW p \in Phase
    PROVE  LET held == Cardinality(Held([call EXCEPT ![c] = p])) IN
           /\ Holds(call[c]) <=> Holds(p) => free + held = MaxConcurrency
           /\ Holds(call[c]) /\ ~Holds(p) => free + 1 + held = MaxConcurrency
           /\ ~Holds(call[c]) /\ Holds(p) => free - 1 + held = MaxConcurrency
<1> DEFINE after == [call EXCEPT ![c] = p]
<1>1. call \in [Caller -> Phase] /\ free \in Nat /\ free + Cardinality(Held(call)) = MaxConcurrency
  BY DEF IInv, TypeOK, PermitsAreKept, Holding, Held
<1>2. (c \in Held(call) <=> Holds(call[c])) /\ (c \in Held(after) <=> Holds(p))
  BY <1>1 DEF Held, Holds
<1>3. Cardinality(Held(call)) \in Nat /\ Cardinality(Held(after)) \in Nat
  BY HeldIsFinite
<1>4. \A d \in Caller \ {c} : d \in Held(call) <=> d \in Held(after)
  BY <1>1 DEF Held
<1> HIDE DEF after
<1>5. /\ c \in Held(call) /\ c \in Held(after) => Cardinality(Held(after)) = Cardinality(Held(call))
      /\ c \notin Held(call) /\ c \notin Held(after) => Cardinality(Held(after)) = Cardinality(Held(call))
      /\ c \in Held(call) /\ c \notin Held(after) => Cardinality(Held(after)) = Cardinality(Held(call)) - 1
      /\ c \notin Held(call) /\ c \in Held(after) => Cardinality(Held(after)) = Cardinality(Held(call)) + 1
  BY <1>4, OneMoves
<1>6. LimitAssumption!1
  BY LimitAssumption
<1> QED
  BY <1>1, <1>2, <1>3, <1>5, <1>6 DEF after

LEMMA NoGrant ==
    ASSUME queue \in Seq(Caller), NEW states \in [Caller -> Phase], NEW permits \in Nat,
           call' = states, queue' = queue, free' = permits
    PROVE  Grant(states, permits, 0)
<1>1. SubSeq(queue, 1, Len(queue)) = queue
  OBVIOUS
<1>2. states = [c \in Caller |-> IF \E i \in 1..0 : queue[i] = c THEN "woken" ELSE states[c]]
  OBVIOUS
<1> QED
  BY <1>1, <1>2 DEF Grant

LEMMA MostOfThem ==
    ASSUME queue \in Seq(Caller), NEW permits \in Nat
    PROVE  Most(permits) \in Nat /\ Most(permits) <= permits /\ Most(permits) <= Len(queue)
BY DEF Most

\* What every caller's step keeps besides the semaphore.
LEMMA OnTheWay ==
    ASSUME IInv, NEW c \in Caller, call[c] \notin Ended
    PROVE  round # "idle"
BY DEF IInv, Active

----------------------------------------------------------------------------
Kept == PermitsAreKept' /\ Waiters' /\ Active'
          /\ free' \in Nat /\ queue' \in Seq(Caller) /\ call' \in [Caller -> Phase]

LEMMA QueuesKeeps ==
    ASSUME IInv, NEW c \in Caller, Queues(c)
    PROVE  Kept
<1>1. /\ call \in [Caller -> Phase] /\ queue \in Seq(Caller) /\ free \in Nat /\ MaxConcurrency \in Nat
      /\ PermitsAreKept /\ Waiters /\ Active
  BY LimitAssumption DEF IInv, TypeOK
<1>2. /\ call[c] = "new" /\ c \notin cancelling /\ locked
      /\ queue' = Append(queue, c) /\ call' = [call EXCEPT ![c] = "waiting"]
      /\ cancelling' = cancelling /\ free' = free /\ round' = round
  BY DEF Queues, run
<1>3. call' \in [Caller -> Phase] /\ queue' \in Seq(Caller) /\ free' \in Nat
  BY <1>1, <1>2 DEF Phase
<1>4. Holding' = Holding
  BY <1>1, <1>2 DEF Holding
<1>5. queue' # <<>> /\ free' > 0 => \E d \in Caller : call'[d] = "woken"
  BY <1>1, <1>2 DEF locked, PermitsAreKept
<1>6. \A i \in 1..Len(queue) : queue[i] # c /\ queue[i] \in Caller
  BY <1>1, <1>2 DEF Waiters
<1>7. /\ Len(queue') = Len(queue) + 1 /\ queue'[Len(queue) + 1] = c
      /\ \A i \in 1..Len(queue) : queue'[i] = queue[i]
  BY <1>1, <1>2
<1>8. \A i \in 1..Len(queue') : i \in 1..Len(queue) \/ i = Len(queue) + 1
  BY <1>1, <1>7
<1>9. \A i \in 1..Len(queue') : call'[queue'[i]] = "waiting" /\ queue'[i] \notin cancelling'
  BY <1>1, <1>2, <1>6, <1>7, <1>8 DEF Waiters
<1>10. \A i, j \in 1..Len(queue') : queue'[i] = queue'[j] => i = j
  BY <1>1, <1>6, <1>7, <1>8 DEF Waiters
<1>11. Active'
  BY <1>1, <1>2 DEF Active, Ended
<1> QED
  BY <1>1, <1>2, <1>3, <1>4, <1>5, <1>9, <1>10, <1>11 DEF Kept, PermitsAreKept, Waiters

\* A caller moves to p without touching the queue, while the permits stay right.
LEMMA MoveKeeps ==
    ASSUME IInv, NEW c \in Caller, call[c] \notin Ended \cup {"waiting"},
           NEW p \in Phase \ {"waiting"},
           call' = [call EXCEPT ![c] = p], queue' = queue, free' \in Nat,
           \/ free' = free /\ (Holds(call[c]) <=> Holds(p)) /\ (call[c] # "woken" \/ queue = <<>>)
           \/ free' = free - 1 /\ ~Holds(call[c]) /\ Holds(p) /\ queue = <<>>,
           cancelling' \subseteq cancelling, c \notin cancelling', round' = round
    PROVE  Kept
<1>1. call \in [Caller -> Phase] /\ queue \in Seq(Caller) /\ free \in Nat
  BY DEF IInv, TypeOK
<1>2. free' + Cardinality(Held([call EXCEPT ![c] = p])) = MaxConcurrency
  BY <1>1, PermitsAfter
<1>3. [call EXCEPT ![c] = p] \in [Caller -> Phase]
  BY <1>1
<1>4. Grant([call EXCEPT ![c] = p], free', 0)
  BY <1>1, <1>3, NoGrant
<1>5. round' # "idle"
  BY OnTheWay
<1>6. 0 \in Nat /\ 0 <= free' /\ 0 <= Len(queue)
  BY <1>1
<1> QED
  BY <1>2, <1>4, <1>5, <1>6, CallerMoves DEF Kept

LEMMA ReleaseKeeps ==
    ASSUME IInv, NEW c \in Caller, Holds(call[c]),
           NEW p \in Ended, release(c, p),
           cancelling' \subseteq cancelling, c \notin cancelling', round' # "idle"
    PROVE  Kept
<1> DEFINE k == IF queue = <<>> THEN 0 ELSE 1
<1>1. call \in [Caller -> Phase] /\ queue \in Seq(Caller) /\ free \in Nat
  BY DEF IInv, TypeOK
<1>2. p \in Phase \ {"waiting"} /\ ~Holds(p) /\ call[c] # "waiting"
  BY DEF Phase, Ended, Holds
<1>3. free + 1 + Cardinality(Held([call EXCEPT ![c] = p])) = MaxConcurrency
  BY <1>2, PermitsAfter
<1>4. Grant([call EXCEPT ![c] = p], free + 1, k)
  BY DEF release
<1>5. k \in Nat /\ k <= free + 1 /\ k <= Len(queue) /\ (k = 1 \/ queue = <<>>) /\ free + 1 \in Nat
  BY <1>1
<1> HIDE DEF k
<1> QED
  BY <1>2, <1>3, <1>4, <1>5, CallerMoves DEF Kept

LEMMA AcquiredKeeps ==
    ASSUME IInv, NEW c \in Caller, call[c] # "waiting" \/ c \in cancelling,
           NEW p \in Phase \ {"waiting"}, NEW permits \in Nat,
           permits + Cardinality(Held([call EXCEPT ![c] = p])) = MaxConcurrency,
           Acquired([call EXCEPT ![c] = p], permits),
           cancelling' \subseteq cancelling, c \notin cancelling', round' # "idle"
    PROVE  Kept
<1>1. queue \in Seq(Caller)
  BY DEF IInv, TypeOK
<1>2. Most(permits) \in Nat /\ Most(permits) <= permits /\ Most(permits) <= Len(queue)
  BY <1>1, MostOfThem
<1>3. Grant([call EXCEPT ![c] = p], permits, Most(permits))
  BY DEF Acquired
<1> QED
  BY <1>2, <1>3, CallerMoves DEF Kept

----------------------------------------------------------------------------
\* The counters and the run, which every step changes in the same few ways.
Counters ==
    /\ used \in Nat /\ used <= Budget /\ attempt \in [Caller -> Nat] /\ calls \in Nat
    /\ round \in {"idle", "gathering", "stopping", "stopped", "failed"} /\ tick \in Nat
    /\ cancelling \subseteq Caller

LEMMA KeptIsEnough ==
    ASSUME Kept, Counters'
    PROVE  IInv'
BY DEF Kept, Counters, IInv, TypeOK, WithinBudget

LEMMA CallerKeeps ==
    ASSUME IInv, NEW c \in Caller, CallEnds(c) \/ Runs(c)
    PROVE  IInv'
<1>1. /\ call \in [Caller -> Phase] /\ queue \in Seq(Caller) /\ free \in Nat
      /\ Counters /\ MaxConcurrency \in Nat /\ Budget \in Nat /\ MaxRetries \in Nat
  BY LimitAssumption DEF IInv, TypeOK, WithinBudget, Counters
<1>2. CASE Queues(c)
  <2>1. Counters'
    BY <1>1, <1>2 DEF Queues, NotCounted, run, Counters
  <2> QED
    BY <1>2, <2>1, QueuesKeeps, KeptIsEnough
<1>3. CASE Enters(c)
  <2>1. /\ call[c] = "new" /\ c \notin cancelling /\ queue = <<>> /\ queue' = queue /\ free > 0
        /\ cancelling' = cancelling /\ round' = round
    BY <1>1, <1>3 DEF Enters, locked, run
  <2>2. call[c] \notin Ended \cup {"waiting"} /\ ~Holds(call[c])
    BY <2>1 DEF Ended, Holds
  <2>3. CASE used >= Budget
    <3>1. call' = [call EXCEPT ![c] = "none"] /\ free' = free /\ NotCounted
      BY <1>3, <2>3 DEF Enters
    <3>2. "none" \in Phase \ {"waiting"} /\ ~Holds("none")
      BY DEF Phase, Ended, Holds
    <3>3. Kept
      BY <1>1, <2>1, <2>2, <3>1, <3>2, MoveKeeps
    <3>4. Counters'
      BY <1>1, <1>3, <3>1 DEF Enters, NotCounted, run, Counters
    <3> QED
      BY <3>3, <3>4, KeptIsEnough
  <2>4. CASE ~(used >= Budget)
    <3>1. call' = [call EXCEPT ![c] = "calling"] /\ free' = free - 1 /\ Counted(c)
      BY <1>3, <2>4 DEF Enters
    <3>2. "calling" \in Phase \ {"waiting"} /\ Holds("calling") /\ free' \in Nat
      BY <1>1, <2>1, <3>1 DEF Phase, Ended, Holds
    <3>3. Kept
      BY <2>1, <2>2, <3>1, <3>2, MoveKeeps
    <3>4. Counters'
      BY <1>1, <1>3, <2>4, <3>1 DEF Enters, Counted, run, Counters
    <3> QED
      BY <3>3, <3>4, KeptIsEnough
  <2> QED
    BY <2>3, <2>4
<1>4. CASE Admitted(c)
  <2>1. call[c] = "woken" /\ c \notin cancelling /\ cancelling' = cancelling /\ round' = round
    BY <1>4 DEF Admitted, run
  <2>2. call[c] \notin Ended \cup {"waiting"} /\ Holds(call[c])
    BY <2>1 DEF Ended, Holds
  <2>3. round' # "idle"
    BY <2>1, <2>2, OnTheWay
  <2>4. CASE used >= Budget
    <3>1. Acquired([call EXCEPT ![c] = "none"], free + 1) /\ NotCounted
      BY <1>4, <2>4 DEF Admitted
    <3>2. "none" \in Phase \ {"waiting"} /\ ~Holds("none") /\ free + 1 \in Nat
      BY <1>1 DEF Phase, Ended, Holds
    <3>3. free + 1 + Cardinality(Held([call EXCEPT ![c] = "none"])) = MaxConcurrency
      BY <2>2, <3>2, PermitsAfter
    <3>4. Kept
      BY <2>1, <2>2, <2>3, <3>1, <3>2, <3>3, AcquiredKeeps
    <3>5. Counters'
      BY <1>1, <1>4, <3>1 DEF Admitted, NotCounted, run, Counters
    <3> QED
      BY <3>4, <3>5, KeptIsEnough
  <2>5. CASE ~(used >= Budget)
    <3>1. Acquired([call EXCEPT ![c] = "calling"], free) /\ Counted(c)
      BY <1>4, <2>5 DEF Admitted
    <3>2. "calling" \in Phase \ {"waiting"} /\ Holds("calling")
      BY DEF Phase, Ended, Holds
    <3>3. free + Cardinality(Held([call EXCEPT ![c] = "calling"])) = MaxConcurrency
      BY <2>2, <3>2, PermitsAfter
    <3>4. Kept
      BY <1>1, <2>1, <2>2, <2>3, <3>1, <3>2, <3>3, AcquiredKeeps
    <3>5. Counters'
      BY <1>1, <1>4, <2>5, <3>1 DEF Admitted, Counted, run, Counters
    <3> QED
      BY <3>4, <3>5, KeptIsEnough
  <2> QED
    BY <2>4, <2>5
<1>5. CASE Retries(c)
  <2>1. /\ call[c] = "backoff" /\ c \notin cancelling /\ call' = [call EXCEPT ![c] = "calling"]
        /\ queue' = queue /\ free' = free /\ cancelling' = cancelling /\ round' = round
    BY <1>5 DEF Retries, semaphore, run
  <2>2. call[c] \notin Ended \cup {"waiting"} /\ Holds(call[c]) /\ "calling" \in Phase \ {"waiting"} /\ Holds("calling")
    BY <2>1 DEF Ended, Holds, Phase
  <2>3. Kept
    BY <1>1, <2>1, <2>2, MoveKeeps
  <2>4. Counters'
    BY <1>1, <1>5 DEF Retries, run, Counters
  <2> QED
    BY <2>3, <2>4, KeptIsEnough
<1>6. CASE CallEnds(c)
  <2>1. /\ call[c] = "calling" /\ c \notin cancelling /\ cancelling' = cancelling /\ tick' = tick
        /\ round' \in {round, "failed"} /\ NotCounted
    BY <1>6 DEF CallEnds, Answers, Fails, Raises, run
  <2>2. call[c] \notin Ended \cup {"waiting"} /\ Holds(call[c])
    BY <2>1 DEF Ended, Holds
  <2>3. round' # "idle"
    BY <2>1, <2>2, OnTheWay
  <2>4. Counters'
    BY <1>1, <2>1 DEF NotCounted, Counters
  <2>5. ASSUME NEW p \in Ended, release(c, p) PROVE IInv'
    BY <2>1, <2>2, <2>3, <2>4, <2>5, ReleaseKeeps, KeptIsEnough
  <2>6. CASE call' = [call EXCEPT ![c] = "backoff"] /\ UNCHANGED semaphore /\ round' = round
    <3>1. "backoff" \in Phase \ {"waiting"} /\ Holds("backoff")
      BY DEF Phase, Holds
    <3>2. queue' = queue /\ free' = free
      BY <2>6 DEF semaphore
    <3>3. Kept
      BY <1>1, <2>1, <2>2, <2>6, <3>1, <3>2, MoveKeeps
    <3> QED
      BY <3>3, <2>4, KeptIsEnough
  <2>7. "answered" \in Ended /\ "none" \in Ended /\ "raised" \in Ended
    BY DEF Ended
  <2>8. \/ release(c, "answered") \/ release(c, "none") \/ release(c, "raised")
        \/ call' = [call EXCEPT ![c] = "backoff"] /\ UNCHANGED semaphore /\ round' = round
    BY <1>6 DEF CallEnds, Answers, Fails, Raises, run
  <2> QED
    BY <2>5, <2>6, <2>7, <2>8
<1>7. CASE Cancelled(c)
  <2>1. c \in cancelling /\ cancelling' = cancelling \ {c} /\ NotCounted /\ round' = round /\ tick' = tick
    BY <1>7 DEF Cancelled, run
  <2>2. call[c] \notin Ended
    BY <2>1 DEF IInv, Active
  <2>3. round' # "idle"
    BY <2>1, <2>2, OnTheWay
  <2>4. Counters'
    BY <1>1, <2>1 DEF NotCounted, Counters
  <2>5. "cancelled" \in Phase \ {"waiting"} /\ "cancelled" \in Ended /\ ~Holds("cancelled")
    BY DEF Phase, Ended, Holds
  <2>6. CASE call[c] = "new"
    <3>1. call' = [call EXCEPT ![c] = "cancelled"] /\ queue' = queue /\ free' = free
      BY <1>7, <2>6 DEF Cancelled, semaphore
    <3>2. ~Holds(call[c]) /\ call[c] \notin Ended \cup {"waiting"} /\ call[c] # "woken"
      BY <2>2, <2>6 DEF Holds
    <3>3. Kept
      BY <1>1, <2>1, <2>5, <3>1, <3>2, MoveKeeps
    <3> QED
      BY <3>3, <2>4, KeptIsEnough
  <2>7. CASE call[c] = "waiting"
    <3>1. Acquired([call EXCEPT ![c] = "cancelled"], free)
      BY <1>7, <2>7 DEF Cancelled
    <3>2. free + Cardinality(Held([call EXCEPT ![c] = "cancelled"])) = MaxConcurrency
      <4>1. ~Holds(call[c])
        BY <2>7 DEF Holds
      <4> QED
        BY <4>1, <2>5, PermitsAfter
    <3>3. Kept
      BY <1>1, <2>1, <2>3, <2>5, <3>1, <3>2, AcquiredKeeps
    <3> QED
      BY <3>3, <2>4, KeptIsEnough
  <2>8. CASE call[c] = "woken"
    <3>1. Acquired([call EXCEPT ![c] = "cancelled"], free + 1)
      BY <1>7, <2>8 DEF Cancelled
    <3>2. free + 1 + Cardinality(Held([call EXCEPT ![c] = "cancelled"])) = MaxConcurrency
      <4>1. Holds(call[c])
        BY <2>8 DEF Holds
      <4> QED
        BY <4>1, <2>5, PermitsAfter
    <3>3. /\ free + 1 \in Nat /\ call[c] # "waiting" /\ cancelling' \subseteq cancelling
          /\ c \notin cancelling'
      BY <1>1, <2>1, <2>8
    <3>4. Kept
      BY <2>3, <2>5, <3>1, <3>2, <3>3, AcquiredKeeps
    <3> QED
      BY <3>4, <2>4, KeptIsEnough
  <2>9. CASE call[c] \notin {"new", "waiting", "woken"}
    <3>1. release(c, "cancelled")
      BY <1>7, <2>9 DEF Cancelled
    <3>2. Holds(call[c])
      BY <1>1, <2>2, <2>9 DEF Phase, Holds
    <3>3. Kept
      BY <2>1, <2>3, <2>5, <3>1, <3>2, ReleaseKeeps
    <3> QED
      BY <3>3, <2>4, KeptIsEnough
  <2> QED
    BY <2>6, <2>7, <2>8, <2>9
<1> QED
  BY <1>2, <1>3, <1>4, <1>5, <1>6, <1>7 DEF Runs

----------------------------------------------------------------------------
LEMMA InitIsSafe == Init => IInv
<1> SUFFICES ASSUME Init PROVE IInv
  OBVIOUS
<1>1. MaxConcurrency \in Nat /\ Budget \in Nat
  BY LimitAssumption
<1>2. \A c \in Caller : call[c] = "idle"
  BY DEF Init
<1>3. Holding = {}
  BY <1>2 DEF Holding
<1>4. Cardinality(Holding) = 0
  BY <1>3, FS_EmptySet
<1>5. PermitsAreKept
  BY <1>1, <1>4 DEF Init, PermitsAreKept
<1>6. TypeOK /\ WithinBudget
  BY <1>1 DEF Init, TypeOK, WithinBudget, Phase, Ended
<1>7. Waiters /\ Active
  BY <1>2 DEF Init, Waiters, Active, Ended
<1> QED
  BY <1>5, <1>6, <1>7 DEF IInv

LEMMA NobodyOnTheWay ==
    ASSUME IInv, \A c \in Caller : call[c] \in Ended
    PROVE  free = MaxConcurrency /\ queue = <<>> /\ cancelling = {}
<1>1. Holding = {}
  BY DEF Holding, Ended
<1>2. free + 0 = MaxConcurrency /\ free \in Nat
  BY <1>1, FS_EmptySet DEF IInv, PermitsAreKept, TypeOK
<1>3. queue = <<>>
  <2>1. queue \in Seq(Caller) /\ \A i \in 1..Len(queue) : queue[i] \in Caller /\ call[queue[i]] = "waiting"
    BY DEF IInv, TypeOK, Waiters
  <2>2. Len(queue) = 0
    BY <2>1 DEF Ended
  <2> QED
    BY <2>1, <2>2
<1>4. cancelling = {}
  BY DEF IInv, TypeOK, Active
<1> QED
  BY <1>2, <1>3, <1>4

LEMMA StepIsSafe == IInv /\ [Next]_vars => IInv'
<1> SUFFICES ASSUME IInv, [Next]_vars PROVE IInv'
  OBVIOUS
<1>1. /\ call \in [Caller -> Phase] /\ queue \in Seq(Caller) /\ free \in Nat
      /\ Counters /\ PermitsAreKept /\ Waiters /\ Active
  BY DEF IInv, TypeOK, WithinBudget, Counters
<1>2. ASSUME NEW attempts \in SUBSET Caller, Gather(attempts) PROVE IInv'
  <2>1. /\ call' = [c \in Caller |-> IF c \in attempts THEN "new" ELSE "idle"]
        /\ round = "idle" /\ round' = "gathering" /\ tick' = tick + 1 /\ NotCounted
        /\ cancelling' = cancelling /\ queue' = queue /\ free' = free
    BY <1>2 DEF Gather, semaphore, NotCounted
  <2>2. free = MaxConcurrency /\ queue = <<>> /\ cancelling = {}
    BY <1>1, <2>1, NobodyOnTheWay DEF Active
  <2>3. \A c \in Caller : call'[c] \in {"new", "idle"}
    BY <2>1
  <2>4. Holding' = {}
    BY <2>3 DEF Holding
  <2>5. Cardinality(Holding') = 0
    BY <2>4, FS_EmptySet
  <2>6. PermitsAreKept' /\ Waiters' /\ Active'
    BY <1>1, <2>1, <2>2, <2>5 DEF PermitsAreKept, Waiters, Active
  <2>7. call' \in [Caller -> Phase]
    BY <2>1 DEF Phase, Ended
  <2>8. Counters'
    BY <1>1, <2>1 DEF Counters, NotCounted
  <2> QED
    BY <1>1, <2>1, <2>6, <2>7, <2>8, KeptIsEnough DEF Kept
<1>3. ASSUME NEW c \in Caller, CallEnds(c) \/ Runs(c) PROVE IInv'
  BY <1>3, CallerKeeps
<1>4. CASE Stop
  <2>1. /\ round = "gathering" /\ round' = "stopping" /\ queue' = <<>> /\ NotCounted
        /\ cancelling' = {c \in Caller : call[c] \notin Ended}
        /\ call' = call /\ free' = free /\ tick' = tick
    BY <1>4 DEF Stop
  <2>2. Holding' = Holding
    BY <2>1 DEF Holding
  <2>3. PermitsAreKept' /\ Waiters' /\ Active'
    BY <1>1, <2>1, <2>2 DEF PermitsAreKept, Waiters, Active
  <2>4. Counters'
    BY <1>1, <2>1 DEF Counters, NotCounted
  <2> QED
    BY <1>1, <2>1, <2>3, <2>4, KeptIsEnough DEF Kept
<1>5. CASE GatherEnds
  <2>1. /\ \A c \in Caller : call[c] \in Ended
        /\ round' \in {"idle", "stopped"} /\ tick' = tick /\ NotCounted
        /\ call' = call /\ cancelling' = cancelling /\ queue' = queue /\ free' = free
    BY <1>5 DEF GatherEnds, semaphore
  <2>2. Holding' = Holding
    BY <2>1 DEF Holding
  <2>3. PermitsAreKept' /\ Waiters' /\ Active'
    BY <1>1, <2>1, <2>2 DEF PermitsAreKept, Waiters, Active
  <2>4. Counters'
    BY <1>1, <2>1 DEF Counters, NotCounted
  <2> QED
    BY <1>1, <2>1, <2>3, <2>4, KeptIsEnough DEF Kept
<1>6. CASE UNCHANGED vars
  BY <1>6 DEF vars, semaphore, run, IInv, TypeOK, WithinBudget, PermitsAreKept, Holding, Waiters, Active
<1> QED
  BY <1>2, <1>3, <1>4, <1>5, <1>6 DEF Next

\* The inductive invariant holds in every behaviour of the gateway.
THEOREM GatewaySafe == Spec => []IInv
BY InitIsSafe, StepIsSafe, PTL DEF Spec

\* However many callers, permits and ticks, complete() admits no more requests than the
\* experiment's budget, because the count is read after the semaphore.
THEOREM BudgetHolds == Spec => []WithinBudget
<1>1. IInv => WithinBudget
  BY DEF IInv
<1> QED
  BY <1>1, GatewaySafe, PTL

\* Answers, errors, retries and cancellations at any await neither lose nor make a permit,
\* and no caller is left waiting while a permit is free for it.
THEOREM PermitsHold == Spec => []PermitsAreKept
<1>1. IInv => PermitsAreKept
  BY DEF IInv
<1> QED
  BY <1>1, GatewaySafe, PTL

\* The state of callers, semaphore and counters keeps its type.
THEOREM GatewayTypeCorrect == Spec => []TypeOK
<1>1. IInv => TypeOK
  BY DEF IInv
<1> QED
  BY <1>1, GatewaySafe, PTL

----------------------------------------------------------------------------
(* The calls the provider gets, retries included *)

\* The callers that are with the provider or between two of its calls.
Flying == {c \in Caller : call[c] \in {"calling", "backoff"}}

\* The retries they may still make, one pair for each.
ToCome == {t \in Caller \X (1..MaxRetries) : t[1] \in Flying /\ attempt[t[1]] < t[2]}

Tries ==
    \A c \in Caller :
        /\ call[c] = "calling" => attempt[c] <= MaxRetries
        /\ call[c] = "backoff" => attempt[c] < MaxRetries

\* Every admitted request pays for its first call and for all its retries.
Ledger == calls + Cardinality(ToCome) <= used * (MaxRetries + 1)

CallsInv == Tries /\ Ledger

\* The retries one request may make.
Row(c) == {c} \X (1..MaxRetries)

LEMMA RowIsSmall ==
    ASSUME NEW c \in Caller
    PROVE  /\ IsFiniteSet(Row(c)) /\ Cardinality(Row(c)) \in Nat
           /\ Cardinality(Row(c)) <= MaxRetries
<1> DEFINE f == [k \in 1..MaxRetries |-> <<c, k>>]
<1>1. MaxRetries \in Nat
  BY LimitAssumption
<1>2. f \in Surjection(1..MaxRetries, Row(c))
  BY DEF Surjection, Row
<1>3. IsFiniteSet(1..MaxRetries) /\ Cardinality(1..MaxRetries) = MaxRetries
  <2>1. Cardinality(1..MaxRetries) = IF 1 > MaxRetries THEN 0 ELSE MaxRetries - 1 + 1
    BY <1>1, FS_Interval
  <2>2. IsFiniteSet(1..MaxRetries)
    BY <1>1, FS_Interval
  <2> QED
    BY <1>1, <2>1, <2>2
<1> HIDE DEF f
<1>4. IsFiniteSet(Row(c)) /\ Cardinality(Row(c)) <= Cardinality(1..MaxRetries)
  BY <1>2, <1>3, FS_Surjection
<1> QED
  BY <1>3, <1>4, FS_CardinalityType

LEMMA ToComeIsFinite == IsFiniteSet(ToCome) /\ Cardinality(ToCome) \in Nat
<1>1. MaxRetries \in Nat
  BY LimitAssumption
<1>2. IsFiniteSet(1..MaxRetries)
  BY <1>1, FS_Interval
<1>3. IsFiniteSet(Caller \X (1..MaxRetries))
  BY <1>2, CallerAssumption, FS_Product
<1>4. ToCome \subseteq Caller \X (1..MaxRetries)
  BY DEF ToCome
<1>5. IsFiniteSet(ToCome)
  BY <1>3, <1>4, FS_Subset
<1> QED
  BY <1>5, FS_CardinalityType

LEMMA ToComeIsFiniteNext == IsFiniteSet(ToCome') /\ Cardinality(ToCome') \in Nat
<1>1. MaxRetries \in Nat
  BY LimitAssumption
<1>2. IsFiniteSet(1..MaxRetries)
  BY <1>1, FS_Interval
<1>3. IsFiniteSet(Caller \X (1..MaxRetries))
  BY <1>2, CallerAssumption, FS_Product
<1>4. ToCome' \subseteq Caller \X (1..MaxRetries)
  BY DEF ToCome
<1>5. IsFiniteSet(ToCome')
  BY <1>3, <1>4, FS_Subset
<1> QED
  BY <1>5, FS_CardinalityType

\* Whatever the semaphore does for others, it starts nobody's call.
Others(c) == \A d \in Caller \ {c} : call'[d] \in {"calling", "backoff"} => call'[d] = call[d]

LEMMA OthersWait ==
    ASSUME IInv, NEW c \in Caller, NEW p, NEW permits, NEW k,
           Grant([call EXCEPT ![c] = p], permits, k)
    PROVE  Others(c) /\ call'[c] \in {p, "woken"}
<1>1. call \in [Caller -> Phase]
  BY DEF IInv, TypeOK
<1>2. \A d \in Caller : call'[d] \in {[call EXCEPT ![c] = p][d], "woken"}
  BY DEF Grant
<1> QED
  BY <1>1, <1>2 DEF Others

LEMMA OneMovesAlone ==
    ASSUME IInv, NEW c \in Caller, NEW p, call' = [call EXCEPT ![c] = p]
    PROVE  Others(c) /\ call'[c] = p
BY DEF IInv, TypeOK, Others

\* A step that counts nothing and starts no call.
LEMMA QuietStep ==
    ASSUME IInv, CallsInv, NotCounted,
           \A d \in Caller : call'[d] \in {"calling", "backoff"} => call'[d] = call[d]
    PROVE  CallsInv'
<1>1. ToCome' \subseteq ToCome
  BY DEF ToCome, Flying, NotCounted
<1>2. Cardinality(ToCome') <= Cardinality(ToCome)
  BY <1>1, ToComeIsFinite, FS_Subset
<1>3. used' = used /\ calls' = calls /\ attempt' = attempt /\ calls \in Nat /\ used \in Nat
  BY DEF NotCounted, IInv, TypeOK
<1>4. Ledger'
  <2>1. used * (MaxRetries + 1) \in Nat
    BY <1>3, LimitAssumption
  <2> QED
    BY <1>2, <1>3, <2>1, ToComeIsFinite, ToComeIsFiniteNext DEF CallsInv, Ledger
<1> QED
  BY <1>3, <1>4 DEF CallsInv, Tries

LEMMA QuietCaller ==
    ASSUME IInv, CallsInv, NotCounted, NEW c \in Caller, Others(c),
           call'[c] \notin {"calling", "backoff"}
    PROVE  CallsInv'
BY QuietStep DEF Others

\* A request that is counted brings its retries.
LEMMA CountedStep ==
    ASSUME IInv, CallsInv, NEW c \in Caller, Counted(c), Others(c), call'[c] # "backoff",
           call[c] \notin {"calling", "backoff"}
    PROVE  CallsInv'
<1>1. /\ used' = used + 1 /\ calls' = calls + 1 /\ attempt' = [attempt EXCEPT ![c] = 0]
      /\ used \in Nat /\ calls \in Nat /\ attempt \in [Caller -> Nat]
  BY DEF Counted, IInv, TypeOK
<1>2. MaxRetries \in Nat
  BY LimitAssumption
<1>3. ToCome' \subseteq ToCome \cup Row(c)
  BY <1>1 DEF ToCome, Flying, Row, Others
<1>4. Cardinality(ToCome') <= Cardinality(ToCome) + MaxRetries
  <2>1. /\ IsFiniteSet(ToCome \cup Row(c))
        /\ Cardinality(ToCome \cup Row(c)) =
             Cardinality(ToCome) + Cardinality(Row(c)) - Cardinality(ToCome \cap Row(c))
    BY ToComeIsFinite, RowIsSmall, FS_Union
  <2>2. IsFiniteSet(ToCome \cap Row(c))
    <3>1. ToCome \cap Row(c) \subseteq ToCome
      OBVIOUS
    <3> QED
      BY <3>1, ToComeIsFinite, FS_Subset
  <2>3. Cardinality(ToCome \cap Row(c)) \in Nat
    BY <2>2, FS_CardinalityType
  <2>4. Cardinality(ToCome') <= Cardinality(ToCome \cup Row(c))
    BY <1>3, <2>1, FS_Subset
  <2>5. Cardinality(Row(c)) \in Nat /\ Cardinality(Row(c)) <= MaxRetries
    BY RowIsSmall
  <2> QED
    BY <1>2, <2>1, <2>3, <2>4, <2>5, ToComeIsFinite, ToComeIsFiniteNext
<1>5. Ledger'
  <2>1. (used + 1) * (MaxRetries + 1) = used * (MaxRetries + 1) + (MaxRetries + 1)
    BY <1>1, <1>2
  <2>2. used * (MaxRetries + 1) \in Nat
    BY <1>1, <1>2
  <2>3. calls + Cardinality(ToCome) <= used * (MaxRetries + 1)
    BY DEF CallsInv, Ledger
  <2> DEFINE paid == used * (MaxRetries + 1)
  <2> HIDE DEF paid
  <2>4. used' * (MaxRetries + 1) = paid + (MaxRetries + 1)
    BY <1>1, <2>1 DEF paid
  <2>5. paid \in Nat /\ calls + Cardinality(ToCome) <= paid
    BY <2>2, <2>3 DEF paid
  <2>6. calls' + Cardinality(ToCome') <= paid + (MaxRetries + 1)
    BY <1>1, <1>2, <1>4, <2>5, ToComeIsFinite, ToComeIsFiniteNext
  <2> QED
    BY <2>4, <2>6 DEF Ledger
<1>6. Tries'
  BY <1>1, <1>2 DEF CallsInv, Tries, Others
<1> QED
  BY <1>5, <1>6 DEF CallsInv

\* A retry is one of those to come.
LEMMA RetryStep ==
    ASSUME IInv, CallsInv, NEW c \in Caller, Retries(c)
    PROVE  CallsInv'
<1>1. /\ used' = used /\ calls' = calls + 1 /\ attempt' = [attempt EXCEPT ![c] = attempt[c] + 1]
      /\ call' = [call EXCEPT ![c] = "calling"] /\ call[c] = "backoff"
      /\ used \in Nat /\ calls \in Nat /\ attempt \in [Caller -> Nat] /\ call \in [Caller -> Phase]
  BY DEF Retries, IInv, TypeOK
<1>2. attempt[c] < MaxRetries /\ attempt[c] \in Nat /\ MaxRetries \in Nat
  BY <1>1, LimitAssumption DEF CallsInv, Tries
<1> DEFINE next == <<c, attempt[c] + 1>>
<1>3. next \in ToCome
  BY <1>1, <1>2 DEF ToCome, Flying
<1>4. ToCome' \subseteq ToCome \ {next}
  BY <1>1, <1>2 DEF ToCome, Flying
<1> HIDE DEF next
<1>5. IsFiniteSet(ToCome \ {next}) /\ Cardinality(ToCome \ {next}) = Cardinality(ToCome) - 1
  BY <1>3, ToComeIsFinite, FS_RemoveElement
<1>6. Cardinality(ToCome') <= Cardinality(ToCome \ {next})
  BY <1>4, <1>5, FS_Subset
<1>7. Ledger'
  <2>1. used * (MaxRetries + 1) \in Nat
    BY <1>1, <1>2
  <2>2. calls + Cardinality(ToCome) <= used * (MaxRetries + 1)
    BY DEF CallsInv, Ledger
  <2> DEFINE paid == used * (MaxRetries + 1)
  <2> HIDE DEF paid
  <2>3. used' * (MaxRetries + 1) = paid /\ paid \in Nat /\ calls + Cardinality(ToCome) <= paid
    BY <1>1, <2>1, <2>2 DEF paid
  <2>4. calls' + Cardinality(ToCome') <= paid
    BY <1>1, <1>5, <1>6, <2>3, ToComeIsFinite, ToComeIsFiniteNext
  <2> QED
    BY <2>3, <2>4 DEF Ledger
<1>8. Tries'
  BY <1>1, <1>2 DEF CallsInv, Tries
<1> QED
  BY <1>7, <1>8 DEF CallsInv

LEMMA FailStep ==
    ASSUME IInv, CallsInv, NEW c \in Caller, Fails(c)
    PROVE  CallsInv'
<1>1. CASE attempt[c] = MaxRetries
  <2>1. NotCounted /\ release(c, "none")
    BY <1>1 DEF Fails
  <2>2. Others(c) /\ call'[c] \in {"none", "woken"}
    BY <2>1, OthersWait DEF release
  <2> QED
    BY <2>1, <2>2, QuietCaller
<1>2. CASE attempt[c] # MaxRetries
  <2>1. /\ call' = [call EXCEPT ![c] = "backoff"] /\ call[c] = "calling"
        /\ used' = used /\ calls' = calls /\ attempt' = attempt
        /\ call \in [Caller -> Phase] /\ attempt \in [Caller -> Nat] /\ MaxRetries \in Nat
    BY <1>2, LimitAssumption DEF Fails, NotCounted, IInv, TypeOK
  <2>2. Flying' = Flying
    BY <2>1 DEF Flying
  <2>3. ToCome' = ToCome
    BY <2>1, <2>2 DEF ToCome
  <2>4. attempt[c] < MaxRetries
    BY <1>2, <2>1 DEF CallsInv, Tries
  <2>5. Tries'
    BY <2>1, <2>4 DEF CallsInv, Tries
  <2>6. Ledger'
    BY <2>1, <2>3 DEF CallsInv, Ledger
  <2> QED
    BY <2>5, <2>6 DEF CallsInv
<1> QED
  BY <1>1, <1>2

LEMMA CallerPays ==
    ASSUME IInv, CallsInv, NEW c \in Caller, CallEnds(c) \/ Runs(c)
    PROVE  CallsInv'
<1>1. CASE Queues(c)
  <2>1. NotCounted /\ call' = [call EXCEPT ![c] = "waiting"]
    BY <1>1 DEF Queues
  <2> QED
    BY <2>1, OneMovesAlone, QuietCaller
<1>2. CASE Enters(c)
  <2>1. CASE used >= Budget
    <3>1. NotCounted /\ call' = [call EXCEPT ![c] = "none"]
      BY <1>2, <2>1 DEF Enters
    <3> QED
      BY <3>1, OneMovesAlone, QuietCaller
  <2>2. CASE ~(used >= Budget)
    <3>1. Counted(c) /\ call' = [call EXCEPT ![c] = "calling"] /\ call[c] = "new"
      BY <1>2, <2>2 DEF Enters
    <3>2. Others(c) /\ call'[c] = "calling"
      BY <3>1, OneMovesAlone
    <3> QED
      BY <3>1, <3>2, CountedStep
  <2> QED
    BY <2>1, <2>2
<1>3. CASE Admitted(c)
  <2>1. CASE used >= Budget
    <3>1. NotCounted /\ Grant([call EXCEPT ![c] = "none"], free + 1, Most(free + 1))
      BY <1>3, <2>1 DEF Admitted, Acquired
    <3>2. Others(c) /\ call'[c] \in {"none", "woken"}
      BY <3>1, OthersWait
    <3> QED
      BY <3>1, <3>2, QuietCaller
  <2>2. CASE ~(used >= Budget)
    <3>1. Counted(c) /\ Grant([call EXCEPT ![c] = "calling"], free, Most(free)) /\ call[c] = "woken"
      BY <1>3, <2>2 DEF Admitted, Acquired
    <3>2. Others(c) /\ call'[c] \in {"calling", "woken"}
      BY <3>1, OthersWait
    <3> QED
      BY <3>1, <3>2, CountedStep
  <2> QED
    BY <2>1, <2>2
<1>4. CASE Retries(c)
  BY <1>4, RetryStep
<1>5. CASE Cancelled(c)
  <2>1. NotCounted
    BY <1>5 DEF Cancelled
  <2>2. Others(c) /\ call'[c] \in {"cancelled", "woken"}
    <3>1. CASE call' = [call EXCEPT ![c] = "cancelled"]
      BY <3>1, OneMovesAlone
    <3>2. CASE Acquired([call EXCEPT ![c] = "cancelled"], free)
      BY <3>2, OthersWait DEF Acquired
    <3>3. CASE Acquired([call EXCEPT ![c] = "cancelled"], free + 1)
      BY <3>3, OthersWait DEF Acquired
    <3>4. CASE release(c, "cancelled")
      BY <3>4, OthersWait DEF release
    <3> QED
      BY <1>5, <3>1, <3>2, <3>3, <3>4 DEF Cancelled
  <2> QED
    BY <2>1, <2>2, QuietCaller
<1>6. CASE Answers(c)
  <2>1. NotCounted /\ release(c, "answered")
    BY <1>6 DEF Answers
  <2>2. Others(c) /\ call'[c] \in {"answered", "woken"}
    BY <2>1, OthersWait DEF release
  <2> QED
    BY <2>1, <2>2, QuietCaller
<1>7. CASE Fails(c)
  BY <1>7, FailStep
<1>8. CASE Raises(c)
  <2>1. NotCounted /\ release(c, "raised")
    BY <1>8 DEF Raises
  <2>2. Others(c) /\ call'[c] \in {"raised", "woken"}
    BY <2>1, OthersWait DEF release
  <2> QED
    BY <2>1, <2>2, QuietCaller
<1> QED
  BY <1>1, <1>2, <1>3, <1>4, <1>5, <1>6, <1>7, <1>8 DEF CallEnds, Runs

LEMMA CallsStep ==
    ASSUME IInv, CallsInv, [Next]_vars
    PROVE  CallsInv'
<1>1. ASSUME NEW attempts \in SUBSET Caller, Gather(attempts) PROVE CallsInv'
  <2>1. NotCounted /\ call' = [c \in Caller |-> IF c \in attempts THEN "new" ELSE "idle"]
    BY <1>1 DEF Gather, NotCounted
  <2> QED
    BY <2>1, QuietStep
<1>2. ASSUME NEW c \in Caller, CallEnds(c) \/ Runs(c) PROVE CallsInv'
  BY <1>2, CallerPays
<1>3. CASE Stop \/ GatherEnds \/ UNCHANGED vars
  <2>1. NotCounted /\ call' = call
    BY <1>3 DEF Stop, GatherEnds, vars, NotCounted
  <2> QED
    BY <2>1, QuietStep
<1> QED
  BY <1>1, <1>2, <1>3 DEF Next

\* The budget bounds what the provider gets in the end, for every number of callers and
\* retries: a request is admitted once and called at most once more for each retry, and a
\* caller that was admitted never comes back uncounted.
THEOREM CallsHold == Spec => []CallsAreBounded
<1>1. Init => CallsInv
  <2> SUFFICES ASSUME Init PROVE CallsInv
    OBVIOUS
  <2>1. \A c \in Caller : call[c] = "idle"
    BY DEF Init
  <2>2. Flying = {}
    BY <2>1 DEF Flying
  <2>3. ToCome = {}
    BY <2>2 DEF ToCome
  <2>4. 0 * (MaxRetries + 1) = 0
    BY LimitAssumption
  <2>5. Ledger
    BY <2>3, <2>4, FS_EmptySet DEF Init, Ledger
  <2> QED
    BY <2>1, <2>5 DEF CallsInv, Tries
<1>2. IInv /\ CallsInv /\ [Next]_vars => CallsInv'
  BY CallsStep
<1>3. IInv /\ CallsInv => CallsAreBounded
  <2> SUFFICES ASSUME IInv, CallsInv PROVE CallsAreBounded
    OBVIOUS
  <2>1. /\ used \in Nat /\ Budget \in Nat /\ MaxRetries \in Nat /\ calls \in Nat
        /\ used <= Budget
    BY LimitAssumption DEF IInv, TypeOK, WithinBudget
  <2>2. used * (MaxRetries + 1) <= Budget * (MaxRetries + 1)
    BY <2>1
  <2>3. used * (MaxRetries + 1) \in Nat /\ Budget * (MaxRetries + 1) \in Nat
    BY <2>1
  <2>4. calls + Cardinality(ToCome) <= used * (MaxRetries + 1)
    BY DEF CallsInv, Ledger
  <2> QED
    BY <2>1, <2>2, <2>3, <2>4, ToComeIsFinite DEF CallsAreBounded
<1> QED
  BY <1>1, <1>2, <1>3, GatewaySafe, PTL DEF Spec

----------------------------------------------------------------------------
(* The simulation engine *)

\* Induction over the naturals up to n, stated of a set.
LEMMA UpTo ==
    ASSUME NEW n \in Nat, NEW S, 0 \in S, \A k \in 0..(n - 1) : k \in S => k + 1 \in S
    PROVE  0..n \subseteq S
<1> DEFINE T == (0..n) \ S
<1> SUFFICES ASSUME T # {}
             PROVE  FALSE
  OBVIOUS
<1>1. T \subseteq Nat
  OBVIOUS
<1> HIDE DEF T
<1>2. PICK k \in T : \A y \in T : ~(<<y, k>> \in OpToRel(<, Nat))
  BY <1>1, NatLessThanWellFounded, WFMin, Zenon
<1>3. \A y \in T : ~(y < k)
  BY <1>1, <1>2 DEF OpToRel
<1>4. k # 0 /\ k - 1 \in 0..(n - 1) /\ k - 1 < k
  BY DEF T
<1>5. k - 1 \in S
  BY <1>3, <1>4 DEF T
<1> QED
  BY <1>4, <1>5 DEF T

LEMMA MinIs ==
    ASSUME NEW s \in SUBSET Nat, s # {}
    PROVE  Min(s) \in s /\ \A y \in s : Min(s) <= y
<1>1. PICK k \in s : \A y \in s : ~(<<y, k>> \in OpToRel(<, Nat))
  BY NatLessThanWellFounded, WFMin, Zenon
<1>2. \A y \in s : ~(y < k)
  BY <1>1 DEF OpToRel
<1>3. k \in Nat /\ \A y \in s : k <= y
  BY <1>2
<1> QED
  BY <1>3 DEF Min

----------------------------------------------------------------------------
(* sorted() *)

Before(x, S, R) == {q \in S : <<q, x>> \in R}

StrictOrder(S, R) ==
    /\ \A x \in S : <<x, x>> \notin R
    /\ \A x, y, z \in S : <<x, y>> \in R /\ <<y, z>> \in R => <<x, z>> \in R
    /\ \A x, y \in S : x = y \/ <<x, y>> \in R \/ <<y, x>> \in R

\* place numbers the elements of S from 0 on.
Numbers(S, place) ==
    /\ \A x \in S : place[x] \in 0..(Cardinality(S) - 1)
    /\ \A x, y \in S : place[x] = place[y] => x = y
    /\ \A n \in 0..(Cardinality(S) - 1) : \E x \in S : place[x] = n

\* In a finite set with a strict order, the number of those before an element tells
\* which one it is, and every number below the size of the set is one of these.
LEMMA RankTells ==
    ASSUME NEW S, IsFiniteSet(S), NEW R, StrictOrder(S, R)
    PROVE  Numbers(S, [x \in S |-> Cardinality(Before(x, S, R))])
<1>1. Cardinality(S) \in Nat
  BY FS_CardinalityType
<1>2. ASSUME NEW x \in S
      PROVE  IsFiniteSet(Before(x, S, R)) /\ Cardinality(Before(x, S, R)) \in 0..(Cardinality(S) - 1)
  <2>1. PICK B : B = Before(x, S, R)
    OBVIOUS
  <2>2. B \in SUBSET S /\ B # S
    BY <2>1 DEF Before, StrictOrder
  <2>3. IsFiniteSet(B) /\ Cardinality(B) <= Cardinality(S) /\ Cardinality(B) # Cardinality(S)
    BY <2>2, FS_Subset
  <2>4. Cardinality(B) \in Nat
    BY <2>3, FS_CardinalityType
  <2>5. Cardinality(B) \in 0..(Cardinality(S) - 1)
    BY <1>1, <2>3, <2>4
  <2> QED
    BY <2>1, <2>3, <2>5
<1>3. ASSUME NEW x \in S, NEW y \in S, <<x, y>> \in R
      PROVE  Cardinality(Before(x, S, R)) # Cardinality(Before(y, S, R))
  <2>1. PICK A : A = Before(x, S, R)
    OBVIOUS
  <2>2. PICK B : B = Before(y, S, R)
    OBVIOUS
  <2>3. A \in SUBSET B /\ A # B
    BY <1>3, <2>1, <2>2 DEF Before, StrictOrder
  <2>4. IsFiniteSet(B)
    BY <1>2, <2>2
  <2>5. Cardinality(A) # Cardinality(B)
    BY <2>3, <2>4, FS_Subset
  <2> QED
    BY <2>1, <2>2, <2>5
<1>4. ASSUME NEW x \in S, NEW y \in S, Cardinality(Before(x, S, R)) = Cardinality(Before(y, S, R))
      PROVE  x = y
  BY <1>3, <1>4 DEF StrictOrder
<1>5. ASSUME NEW n \in 0..(Cardinality(S) - 1)
      PROVE  \E x \in S : Cardinality(Before(x, S, R)) = n
  <2>1. PICK T : T = 0..(Cardinality(S) - 1)
    OBVIOUS
  <2>2. PICK f : f = [x \in S |-> Cardinality(Before(x, S, R))]
    OBVIOUS
  <2>3. f \in [S -> T] /\ \A x, y \in S : f[x] = f[y] => x = y
    BY <1>2, <1>4, <2>1, <2>2
  <2>4. f \in Injection(S, T)
    BY <2>3 DEF Injection, IsInjective
  <2>5. IsFiniteSet(T) /\ Cardinality(T) = Cardinality(S)
    BY <1>1, <2>1, FS_Interval
  <2>6. f \in Surjection(S, T)
    BY <2>4, <2>5, FS_Injection
  <2>7. \A t \in T : \E x \in S : f[x] = t
    BY <2>6 DEF Surjection
  <2> QED
    BY <2>1, <2>2, <2>7
<1> QED
  BY <1>2, <1>4, <1>5 DEF Numbers

LEMMA SortedIs ==
    ASSUME NEW S \in SUBSET Agent
    PROVE  Sorted(S) \in Seq(S) /\ \A a \in S : \E i \in 1..Len(Sorted(S)) : Sorted(S)[i] = a
<1>1. IsFiniteSet(S) /\ S \subseteq Nat
  BY AgentAssumption, FS_Subset
<1>2. PICK R : R = {p \in S \X S : p[1] < p[2]}
  OBVIOUS
<1>3. \A x, y \in S : <<x, y>> \in R <=> x < y
  BY <1>2
<1>4. /\ \A x \in S : <<x, x>> \notin R
      /\ \A x, y, z \in S : <<x, y>> \in R /\ <<y, z>> \in R => <<x, z>> \in R
      /\ \A x, y \in S : x = y \/ <<x, y>> \in R \/ <<y, x>> \in R
  BY <1>1, <1>3
<1>5. PICK place : place = [x \in S |-> Cardinality(Before(x, S, R))]
  OBVIOUS
<1>6. Numbers(S, place) /\ \A x \in S : place[x] = Rank(x, S)
  <2>1. StrictOrder(S, R)
    BY <1>4 DEF StrictOrder
  <2>2. Numbers(S, place)
    BY <1>1, <1>5, <2>1, RankTells
  <2>3. ASSUME NEW x \in S
        PROVE  Before(x, S, R) = {b \in S : b < x}
    BY <1>3 DEF Before
  <2> QED
    BY <1>5, <2>2, <2>3 DEF Rank
<1>7. PICK n : n = Cardinality(S)
  OBVIOUS
<1>8. n \in Nat
  BY <1>1, <1>7, FS_CardinalityType
<1>9. PICK t : t = Sorted(S)
  OBVIOUS
<1>10. ASSUME NEW i \in 1..n
       PROVE  t[i] \in S /\ Rank(t[i], S) = i - 1
  <2>1. t[i] = CHOOSE a \in S : Rank(a, S) = i - 1
    BY <1>7, <1>9 DEF Sorted
  <2>2. i - 1 \in 0..(n - 1)
    BY <1>8
  <2>3. \E a \in S : Rank(a, S) = i - 1
    BY <1>6, <1>7, <2>2 DEF Numbers
  <2> QED
    BY <2>1, <2>3
<1>11. DOMAIN t = 1..n /\ t = [i \in 1..n |-> t[i]]
  BY <1>7, <1>9 DEF Sorted
<1>12. t \in Seq(S) /\ Len(t) = n
  BY <1>8, <1>10, <1>11
<1>13. ASSUME NEW a \in S
       PROVE  \E i \in 1..Len(t) : t[i] = a
  <2>1. PICK r : r = Rank(a, S)
    OBVIOUS
  <2>2. r \in 0..(n - 1)
    BY <1>6, <1>7, <2>1 DEF Numbers
  <2>3. r + 1 \in 1..n /\ (r + 1) - 1 = r
    BY <1>8, <2>2
  <2>4. t[r + 1] \in S /\ Rank(t[r + 1], S) = r
    BY <1>10, <2>3
  <2>5. t[r + 1] = a
    BY <1>6, <2>1, <2>4 DEF Numbers
  <2> QED
    BY <1>12, <2>3, <2>5
<1> QED
  BY <1>9, <1>12, <1>13

LEMMA SortedPairsIs ==
    ASSUME NEW S \in SUBSET (Agent \X Agent)
    PROVE  /\ SortedPairs(S) \in Seq(S)
           /\ \A p \in S : \E i \in 1..Len(SortedPairs(S)) : SortedPairs(S)[i] = p
<1>1. IsFiniteSet(S)
  BY AgentAssumption, FS_Product, FS_Subset
<1>2. \A p \in S : p[1] \in Nat /\ p[2] \in Nat /\ p = <<p[1], p[2]>>
  <2>1. \A p \in Agent \X Agent : p[1] \in Agent /\ p[2] \in Agent /\ p = <<p[1], p[2]>>
    OBVIOUS
  <2>2. Agent \subseteq Nat
    BY AgentAssumption
  <2> QED
    BY <2>1, <2>2
<1>3. PICK R : R = {p \in S \X S : Earlier(p[1], p[2])}
  OBVIOUS
<1>4. \A x, y \in S : <<x, y>> \in R <=> Earlier(x, y)
  BY <1>3
<1>5. /\ \A x \in S : <<x, x>> \notin R
      /\ \A x, y, z \in S : <<x, y>> \in R /\ <<y, z>> \in R => <<x, z>> \in R
      /\ \A x, y \in S : x = y \/ <<x, y>> \in R \/ <<y, x>> \in R
  <2>1. \A x \in S : ~Earlier(x, x)
    BY <1>2 DEF Earlier
  <2>2. \A x, y, z \in S : Earlier(x, y) /\ Earlier(y, z) => Earlier(x, z)
    BY <1>2 DEF Earlier
  <2>3. \A x, y \in S : x = y \/ Earlier(x, y) \/ Earlier(y, x)
    BY <1>2 DEF Earlier
  <2> QED
    BY <1>4, <2>1, <2>2, <2>3
<1> DEFINE Place(x) == Cardinality({q \in S : Earlier(q, x)})
<1>6. PICK place : place = [x \in S |-> Cardinality(Before(x, S, R))]
  OBVIOUS
<1>7. Numbers(S, place) /\ \A x \in S : place[x] = Place(x)
  <2>1. StrictOrder(S, R)
    BY <1>5 DEF StrictOrder
  <2>2. Numbers(S, place)
    BY <1>1, <1>6, <2>1, RankTells
  <2>3. ASSUME NEW x \in S
        PROVE  Before(x, S, R) = {q \in S : Earlier(q, x)}
    BY <1>4 DEF Before
  <2> QED
    BY <1>6, <2>2, <2>3
<1>8. PICK n : n = Cardinality(S)
  OBVIOUS
<1>9. n \in Nat
  BY <1>1, <1>8, FS_CardinalityType
<1>10. PICK t : t = SortedPairs(S)
  OBVIOUS
<1>11. t = [i \in 1..n |-> CHOOSE p \in S : Place(p) = i - 1]
  BY <1>8, <1>10 DEF SortedPairs
<1> HIDE DEF Place
<1>12. ASSUME NEW i \in 1..n
       PROVE  t[i] \in S /\ Place(t[i]) = i - 1
  <2>1. t[i] = CHOOSE p \in S : Place(p) = i - 1
    BY <1>11
  <2>2. i - 1 \in 0..(n - 1)
    BY <1>9
  <2>3. \E p \in S : Place(p) = i - 1
    BY <1>7, <1>8, <2>2 DEF Numbers
  <2> QED
    BY <2>1, <2>3
<1>13. DOMAIN t = 1..n /\ t = [i \in 1..n |-> t[i]]
  BY <1>11
<1>14. t \in Seq(S) /\ Len(t) = n
  BY <1>9, <1>12, <1>13
<1>15. ASSUME NEW p \in S
       PROVE  \E i \in 1..Len(t) : t[i] = p
  <2>1. PICK r : r = Place(p)
    OBVIOUS
  <2>2. r \in 0..(n - 1)
    BY <1>7, <1>8, <2>1 DEF Numbers
  <2>3. r + 1 \in 1..n /\ (r + 1) - 1 = r
    BY <1>9, <2>2
  <2>4. t[r + 1] \in S /\ Place(t[r + 1]) = r
    BY <1>12, <2>3
  <2>5. t[r + 1] = p
    BY <1>7, <2>1, <2>4 DEF Numbers
  <2> QED
    BY <1>14, <2>3, <2>5
<1> QED
  BY <1>10, <1>14, <1>15

----------------------------------------------------------------------------
(* What a browser makes of the drafts *)

NodeRecord == [state : {"healthy", "compromised", "quarantined"},
               by : Agent \cup {None}, when : Nat \cup {None}]
View  == [node : [Agent -> NodeRecord]]
Draft == [type : {"COMPROMISE_SUCCEEDED"}, tick : Nat, agent : Agent, source : Agent,
          already_compromised : BOOLEAN]
         \cup [type : {"AGENT_QUARANTINED"}, tick : Nat, agent : Agent]

Folding(f, view, drafts, n) ==
    f[0] = view /\ \A i \in 1..n : f[i] = Reduce(f[i - 1], drafts[i])

IsFold(last, view, drafts, n) == \E f : Folding(f, view, drafts, n) /\ last = f[n]

\* The recursion of ReduceAll has a solution.
LEMMA ReduceAllIs ==
    ASSUME NEW view, NEW drafts, NEW count \in Nat, Len(drafts) = count
    PROVE  IsFold(ReduceAll(view, drafts), view, drafts, count)
<1> DEFINE Rec(f, n) ==
             f = [i \in 0..n |-> IF i = 0 THEN view ELSE Reduce(f[i - 1], drafts[i])]
           K == {n \in Nat : \E f : Rec(f, n)}
<1>1. 0 \in K
  <2>1. Rec([i \in 0..0 |-> view], 0)
    OBVIOUS
  <2> QED
    BY <2>1
<1>2. ASSUME NEW k \in 0..(count - 1), k \in K
      PROVE  k + 1 \in K
  <2>1. PICK f : Rec(f, k)
    BY <1>2
  <2> DEFINE last == Reduce(f[k], drafts[k + 1])
             g == [i \in 0..(k + 1) |-> IF i = k + 1 THEN last ELSE f[i]]
  <2>2. ASSUME NEW i \in 0..(k + 1)
        PROVE  g[i] = IF i = 0 THEN view ELSE Reduce(g[i - 1], drafts[i])
    <3>1. CASE i = k + 1
      <4>1. k \in 0..(k + 1) /\ k # k + 1 /\ i # 0 /\ i - 1 = k
        BY <3>1
      <4>2. g[i - 1] = f[k] /\ g[i] = last
        BY <3>1, <4>1
      <4> HIDE DEF g
      <4> QED
        BY <3>1, <4>1, <4>2
    <3>2. CASE i \in 0..k
      <4>1. g[i] = f[i] /\ (i # 0 => g[i - 1] = f[i - 1])
        BY <3>2
      <4>2. f[i] = IF i = 0 THEN view ELSE Reduce(f[i - 1], drafts[i])
        BY <2>1, <3>2
      <4> HIDE DEF g
      <4> QED
        BY <4>1, <4>2
    <3> QED
      BY <3>1, <3>2
  <2>3. Rec(g, k + 1)
    <3>1. g = [i \in 0..(k + 1) |-> g[i]]
      OBVIOUS
    <3> HIDE DEF g
    <3> QED
      BY <2>2, <3>1
  <2> HIDE DEF Rec, g
  <2> QED
    BY <2>3
<1>3. count \in K
  <2> HIDE DEF K
  <2>1. 0..count \subseteq K
    BY <1>1, <1>2, UpTo
  <2> QED
    BY <2>1
<1>4. PICK f : f = CHOOSE after : Rec(after, count)
  OBVIOUS
<1>5. Rec(f, count)
  BY <1>3, <1>4
<1>6. ReduceAll(view, drafts) = f[count]
  BY <1>4 DEF ReduceAll
<1>7. Folding(f, view, drafts, count)
  <2>1. f[0] = view
    BY <1>5
  <2>2. ASSUME NEW i \in 1..count
        PROVE  f[i] = Reduce(f[i - 1], drafts[i])
    <3>1. i \in 0..count /\ i # 0
      OBVIOUS
    <3> QED
      BY <1>5, <3>1
  <2> QED
    BY <2>1, <2>2 DEF Folding
<1> QED
  BY <1>6, <1>7 DEF IsFold

\* Two foldings of the same drafts end alike.
LEMMA FoldingIsOne ==
    ASSUME NEW n \in Nat, NEW f, NEW g, NEW view, NEW drafts,
           Folding(f, view, drafts, n), Folding(g, view, drafts, n)
    PROVE  f[n] = g[n]
<1> DEFINE S == {i \in 0..n : f[i] = g[i]}
<1>1. 0 \in S
  BY DEF Folding
<1>2. ASSUME NEW k \in 0..(n - 1), k \in S
      PROVE  k + 1 \in S
  <2>1. k + 1 \in 1..n /\ (k + 1) - 1 = k /\ f[k] = g[k]
    BY <1>2
  <2>2. f[k + 1] = Reduce(f[k], drafts[k + 1]) /\ g[k + 1] = Reduce(g[k], drafts[k + 1])
    BY <2>1 DEF Folding
  <2> QED
    BY <2>1, <2>2
<1> HIDE DEF S
<1>3. 0..n \subseteq S
  BY <1>1, <1>2, UpTo
<1> QED
  BY <1>3 DEF S

\* To fold two lists one after the other is to fold their concatenation.
LEMMA ReduceJoins ==
    ASSUME NEW view, NEW d1 \in Seq(Draft), NEW d2 \in Seq(Draft)
    PROVE  ReduceAll(view, d1 \o d2) = ReduceAll(ReduceAll(view, d1), d2)
<1>1. PICK m : m = Len(d1)
  OBVIOUS
<1>2. PICK n : n = Len(d2)
  OBVIOUS
<1>3. PICK d : d = d1 \o d2
  OBVIOUS
<1>4. m \in Nat /\ n \in Nat
  BY <1>1, <1>2
<1>5. /\ Len(d) = m + n
      /\ \A i \in 1..m : d[i] = d1[i]
      /\ \A i \in 1..n : d[m + i] = d2[i]
  BY <1>1, <1>2, <1>3
<1>6. PICK f : Folding(f, view, d, m + n) /\ ReduceAll(view, d) = f[m + n]
  <2>1. m + n \in Nat
    BY <1>4
  <2> QED
    BY <1>5, <2>1, ReduceAllIs DEF IsFold
<1>7. PICK g : Folding(g, view, d1, m) /\ ReduceAll(view, d1) = g[m]
  BY <1>1, <1>4, ReduceAllIs DEF IsFold
<1>8. PICK h : Folding(h, g[m], d2, n) /\ ReduceAll(g[m], d2) = h[n]
  BY <1>2, <1>4, ReduceAllIs DEF IsFold
<1>9. Folding(f, view, d1, m)
  <2>1. ASSUME NEW i \in 1..m
        PROVE  f[i] = Reduce(f[i - 1], d1[i])
    <3>1. i \in 1..(m + n)
      BY <1>4
    <3> QED
      BY <1>5, <1>6, <3>1 DEF Folding
  <2> QED
    BY <1>6, <2>1 DEF Folding
<1>10. f[m] = g[m]
  BY <1>4, <1>7, <1>9, FoldingIsOne
<1>11. PICK e : e = [i \in 0..n |-> f[m + i]]
  OBVIOUS
<1>12. Folding(e, g[m], d2, n)
  <2>1. e[0] = g[m]
    BY <1>4, <1>10, <1>11
  <2>2. ASSUME NEW i \in 1..n
        PROVE  e[i] = Reduce(e[i - 1], d2[i])
    <3>1. m + i \in 1..(m + n) /\ (m + i) - 1 = m + (i - 1) /\ i \in 0..n /\ i - 1 \in 0..n
      BY <1>4
    <3>2. f[m + i] = Reduce(f[(m + i) - 1], d[m + i])
      BY <1>6, <3>1 DEF Folding
    <3>3. e[i] = f[m + i] /\ e[i - 1] = f[m + (i - 1)]
      BY <1>11, <3>1
    <3> QED
      BY <1>5, <3>1, <3>2, <3>3
  <2> QED
    BY <2>1, <2>2 DEF Folding
<1>13. e[n] = h[n]
  BY <1>4, <1>8, <1>12, FoldingIsOne
<1>14. e[n] = f[m + n]
  BY <1>4, <1>11
<1> QED
  BY <1>3, <1>6, <1>7, <1>8, <1>13, <1>14

\* One draft: the node it names.
LEMMA ReduceIs ==
    ASSUME NEW view \in View, NEW e \in Draft
    PROVE  /\ Reduce(view, e) \in View
           /\ \A a \in Agent \ {e.agent} : Reduce(view, e).node[a] = view.node[a]
           /\ e.type = "COMPROMISE_SUCCEEDED" /\ ~e.already_compromised =>
                 Reduce(view, e).node[e.agent] = Compromised(e.source, e.tick)
           /\ e.type = "COMPROMISE_SUCCEEDED" /\ e.already_compromised =>
                 Reduce(view, e).node[e.agent] = [view.node[e.agent] EXCEPT !.state = "compromised"]
           /\ e.type = "AGENT_QUARANTINED" =>
                 Reduce(view, e).node[e.agent] = [view.node[e.agent] EXCEPT !.state = "quarantined"]
<1>1. e.agent \in Agent /\ view.node \in [Agent -> NodeRecord]
  BY DEF Draft, View
<1>2. CASE e.type = "COMPROMISE_SUCCEEDED" /\ ~e.already_compromised
  <2>1. e.source \in Agent /\ e.tick \in Nat
    BY <1>2 DEF Draft
  <2>2. Compromised(e.source, e.tick) \in NodeRecord
    BY <2>1 DEF Compromised, NodeRecord
  <2>3. Reduce(view, e) = [view EXCEPT !.node[e.agent] = Compromised(e.source, e.tick)]
    BY <1>2 DEF Reduce
  <2>4. Reduce(view, e).node = [view.node EXCEPT ![e.agent] = Compromised(e.source, e.tick)]
    BY <2>3 DEF View
  <2>5. Reduce(view, e) \in View
    BY <1>1, <2>2, <2>3 DEF View
  <2> QED
    BY <1>1, <1>2, <2>4, <2>5
<1>3. CASE e.type = "COMPROMISE_SUCCEEDED" /\ e.already_compromised
  <2>1. PICK x : x = [view.node[e.agent] EXCEPT !.state = "compromised"]
    OBVIOUS
  <2>2. x \in NodeRecord
    BY <1>1, <2>1 DEF NodeRecord
  <2>3. Reduce(view, e) = [view EXCEPT !.node[e.agent] = x]
    BY <1>1, <1>3, <2>1 DEF Reduce, View
  <2>4. Reduce(view, e).node = [view.node EXCEPT ![e.agent] = x]
    BY <2>3 DEF View
  <2>5. Reduce(view, e) \in View
    BY <1>1, <2>2, <2>3 DEF View
  <2> QED
    BY <1>1, <1>3, <2>1, <2>4, <2>5
<1>4. CASE e.type = "AGENT_QUARANTINED"
  <2>1. PICK x : x = [view.node[e.agent] EXCEPT !.state = "quarantined"]
    OBVIOUS
  <2>2. x \in NodeRecord
    BY <1>1, <2>1 DEF NodeRecord
  <2>3. Reduce(view, e) = [view EXCEPT !.node[e.agent] = x]
    BY <1>1, <1>4, <2>1 DEF Reduce, View
  <2>4. Reduce(view, e).node = [view.node EXCEPT ![e.agent] = x]
    BY <2>3 DEF View
  <2>5. Reduce(view, e) \in View
    BY <1>1, <2>2, <2>3 DEF View
  <2> QED
    BY <1>1, <1>4, <2>1, <2>4, <2>5
<1>5. e.type \in {"COMPROMISE_SUCCEEDED", "AGENT_QUARANTINED"}
  BY DEF Draft
<1> QED
  BY <1>2, <1>3, <1>4, <1>5

\* The source that wins a target is one of those that hit it.
LEMMA FirstIs ==
    ASSUME NEW hits \in SUBSET (Agent \X Agent), NEW a \in Claimed(hits)
    PROVE  /\ a \in Agent /\ FirstSource(hits, a) \in Agent
           /\ <<FirstSource(hits, a), a>> \in hits
<1>1. PICK p \in hits : a = p[2]
  BY DEF Claimed
<1>2. \A q \in hits : q[1] \in Agent /\ q[2] \in Agent /\ q = <<q[1], q[2]>>
  OBVIOUS
<1>3. PICK s : s = Sources(hits, a)
  OBVIOUS
<1>4. p[1] \in s /\ s \subseteq Agent
  BY <1>1, <1>2, <1>3 DEF Sources
<1>5. s \in SUBSET Nat /\ s # {}
  BY <1>4, AgentAssumption
<1>6. Min(s) \in s
  BY <1>5, MinIs
<1>7. PICK q \in hits : q[2] = a /\ q[1] = Min(s)
  BY <1>3, <1>6 DEF Sources
<1>8. FirstSource(hits, a) = q[1]
  BY <1>3, <1>7 DEF FirstSource
<1> QED
  BY <1>1, <1>2, <1>7, <1>8

\* A claimed target that view shows as claimed, or the rest of its claims have to.
ToldTill(view, old, hits, t, i) ==
    /\ view \in View
    /\ \A a \in Agent \ Claimed(hits) : view.node[a] = old.node[a]
    /\ \A a \in Claimed(hits) :
         (\E j \in 1..i : SortedPairs(hits)[j] = <<FirstSource(hits, a), a>>)
            => view.node[a] = Compromised(FirstSource(hits, a), t)

\* The first claim of a target sets the node, and the ones marked as repeated, before
\* or after it, leave that.
LEMMA ClaimsTold ==
    ASSUME NEW view \in View, NEW hits \in SUBSET (Agent \X Agent), NEW t \in Nat
    PROVE  /\ ClaimDrafts(hits, t) \in Seq(Draft)
           /\ ReduceAll(view, ClaimDrafts(hits, t)) \in View
           /\ \A a \in Agent :
                ReduceAll(view, ClaimDrafts(hits, t)).node[a] =
                  IF a \in Claimed(hits) THEN Compromised(FirstSource(hits, a), t)
                  ELSE view.node[a]
<1>1. PICK s : s = SortedPairs(hits)
  OBVIOUS
<1>2. PICK d : d = ClaimDrafts(hits, t)
  OBVIOUS
<1>3. PICK n : n = Len(s)
  OBVIOUS
<1>4. s \in Seq(hits) /\ \A p \in hits : \E i \in 1..Len(s) : s[i] = p
  BY <1>1, SortedPairsIs
<1>5. n \in Nat /\ DOMAIN s = 1..n /\ \A i \in 1..n : s[i] \in hits
  BY <1>3, <1>4
<1>6. \A p \in hits : p[1] \in Agent /\ p[2] \in Agent /\ p = <<p[1], p[2]>> /\ p[2] \in Claimed(hits)
  <2>1. \A p \in hits : p[1] \in Agent /\ p[2] \in Agent /\ p = <<p[1], p[2]>>
    OBVIOUS
  <2> QED
    BY <2>1 DEF Claimed
<1>7. d = [i \in 1..n |-> Succeeded(t, s[i][2], s[i][1], s[i][1] # FirstSource(hits, s[i][2]))]
  BY <1>1, <1>2, <1>5 DEF ClaimDrafts
<1>8. ASSUME NEW i \in 1..n
      PROVE  /\ d[i] \in Draft /\ d[i].type = "COMPROMISE_SUCCEEDED" /\ d[i].tick = t
             /\ d[i].agent = s[i][2] /\ d[i].source = s[i][1]
             /\ d[i].already_compromised <=> s[i][1] # FirstSource(hits, s[i][2])
  <2>1. d[i] = Succeeded(t, s[i][2], s[i][1], s[i][1] # FirstSource(hits, s[i][2]))
    BY <1>7
  <2>2. s[i] \in hits /\ s[i][1] \in Agent /\ s[i][2] \in Agent
    BY <1>5, <1>6
  <2>3. PICK b \in BOOLEAN : b = (s[i][1] # FirstSource(hits, s[i][2]))
    OBVIOUS
  <2>4. d[i] = Succeeded(t, s[i][2], s[i][1], b)
    BY <2>1, <2>3
  <2>5. d[i].already_compromised = b
    BY <2>4 DEF Succeeded
  <2>6. d[i] \in Draft
    BY <2>2, <2>3, <2>4 DEF Succeeded, Draft
  <2>7. /\ d[i].type = "COMPROMISE_SUCCEEDED" /\ d[i].tick = t
        /\ d[i].agent = s[i][2] /\ d[i].source = s[i][1]
    BY <2>4 DEF Succeeded
  <2> QED
    BY <2>3, <2>5, <2>6, <2>7
<1>9. d \in Seq(Draft) /\ Len(d) = n
  BY <1>5, <1>7, <1>8
<1>10. PICK f : Folding(f, view, d, n) /\ ReduceAll(view, d) = f[n]
  BY <1>5, <1>9, ReduceAllIs DEF IsFold
<1> DEFINE S == {i \in 0..n : ToldTill(f[i], view, hits, t, i)}
<1>11. 0 \in S
  <2>1. f[0] = view
    BY <1>10 DEF Folding
  <2> QED
    BY <1>5, <2>1 DEF ToldTill
<1>12. ASSUME NEW k \in 0..(n - 1), k \in S
       PROVE  k + 1 \in S
  <2>1. k + 1 \in 1..n /\ (k + 1) - 1 = k /\ k + 1 \in 0..n
    BY <1>5
  <2>2. f[k + 1] = Reduce(f[k], d[k + 1])
    BY <1>10, <2>1 DEF Folding
  <2>3. PICK v : v = f[k]
    OBVIOUS
  <2>4. PICK w : w = f[k + 1]
    OBVIOUS
  <2>5. PICK e : e = d[k + 1]
    OBVIOUS
  <2>6. PICK b : b = s[k + 1][2]
    OBVIOUS
  <2>7. v \in View /\ e \in Draft /\ w = Reduce(v, e)
    BY <1>8, <1>12, <2>1, <2>2, <2>3, <2>4, <2>5 DEF ToldTill
  <2>8. /\ e.type = "COMPROMISE_SUCCEEDED" /\ e.tick = t /\ e.agent = b /\ e.source = s[k + 1][1]
        /\ e.already_compromised <=> s[k + 1][1] # FirstSource(hits, b)
    BY <1>8, <2>1, <2>5, <2>6
  <2>9. b \in Claimed(hits) /\ b \in Agent /\ s[k + 1] = <<s[k + 1][1], b>>
    BY <1>5, <1>6, <2>1, <2>6
  <2>10. /\ w \in View /\ \A a \in Agent \ {b} : w.node[a] = v.node[a]
         /\ ~e.already_compromised => w.node[b] = Compromised(e.source, t)
         /\ e.already_compromised => w.node[b] = [v.node[b] EXCEPT !.state = "compromised"]
    <3>1. /\ Reduce(v, e) \in View
          /\ \A a \in Agent \ {e.agent} : Reduce(v, e).node[a] = v.node[a]
          /\ e.type = "COMPROMISE_SUCCEEDED" /\ ~e.already_compromised =>
                Reduce(v, e).node[e.agent] = Compromised(e.source, e.tick)
          /\ e.type = "COMPROMISE_SUCCEEDED" /\ e.already_compromised =>
                Reduce(v, e).node[e.agent] = [v.node[e.agent] EXCEPT !.state = "compromised"]
      BY <2>7, ReduceIs
    <3> QED
      BY <2>7, <2>8, <3>1
  <2>11. \A a \in Agent \ Claimed(hits) : w.node[a] = view.node[a]
    BY <1>12, <2>3, <2>9, <2>10 DEF ToldTill
  <2>12. ASSUME NEW a \in Claimed(hits), NEW j \in 1..(k + 1), s[j] = <<FirstSource(hits, a), a>>
         PROVE  w.node[a] = Compromised(FirstSource(hits, a), t)
    <3>1. a \in Agent
      BY FirstIs
    <3>2. CASE j = k + 1
      <4>1. a = b /\ s[k + 1][1] = FirstSource(hits, b)
        BY <2>6, <2>12, <3>2
      <4> QED
        BY <2>8, <2>10, <4>1
    <3>3. CASE j \in 1..k
      <4>1. v.node[a] = Compromised(FirstSource(hits, a), t)
        BY <1>1, <1>12, <2>3, <2>12, <3>3 DEF ToldTill
      <4>2. CASE a # b
        BY <2>10, <3>1, <4>1, <4>2
      <4>3. CASE a = b /\ ~e.already_compromised
        BY <2>8, <2>10, <4>3
      <4>4. CASE a = b /\ e.already_compromised
        <5>1. w.node[a] = [v.node[a] EXCEPT !.state = "compromised"]
          BY <2>10, <4>4
        <5> QED
          BY <4>1, <5>1 DEF Compromised
      <4> QED
        BY <4>2, <4>3, <4>4
    <3> QED
      BY <3>2, <3>3, <1>5
  <2>13. ToldTill(w, view, hits, t, k + 1)
    BY <1>1, <2>10, <2>11, <2>12 DEF ToldTill
  <2> QED
    BY <2>1, <2>4, <2>13
<1> HIDE DEF S
<1>13. n \in S
  <2>1. 0..n \subseteq S
    BY <1>5, <1>11, <1>12, UpTo
  <2> QED
    BY <1>5, <2>1
<1>14. ToldTill(f[n], view, hits, t, n)
  BY <1>13 DEF S
<1>15. \A a \in Claimed(hits) : f[n].node[a] = Compromised(FirstSource(hits, a), t)
  <2> SUFFICES ASSUME NEW a \in Claimed(hits)
               PROVE  f[n].node[a] = Compromised(FirstSource(hits, a), t)
    OBVIOUS
  <2>1. \E j \in 1..n : s[j] = <<FirstSource(hits, a), a>>
    BY <1>3, <1>4, FirstIs
  <2> QED
    BY <1>1, <1>14, <2>1 DEF ToldTill
<1> QED
  BY <1>2, <1>9, <1>10, <1>14, <1>15 DEF ToldTill

\* d tells view the quarantine of S.
TellsQuarantine(view, S, d) ==
    /\ d \in Seq(Draft) /\ ReduceAll(view, d) \in View
    /\ \A a \in Agent :
         ReduceAll(view, d).node[a] =
           IF a \in S THEN [view.node[a] EXCEPT !.state = "quarantined"] ELSE view.node[a]

\* Quarantines are told each of the agents, and nothing else of a node changes.
LEMMA QuarantinesTold ==
    ASSUME NEW view \in View, NEW S \in SUBSET Agent, NEW t \in Nat
    PROVE  TellsQuarantine(view, S, Quarantines(S, t))
<1>1. PICK s : s = Sorted(S)
  OBVIOUS
<1>2. PICK d : d = Quarantines(S, t)
  OBVIOUS
<1>3. PICK n : n = Len(s)
  OBVIOUS
<1>4. s \in Seq(S) /\ \A a \in S : \E i \in 1..Len(s) : s[i] = a
  BY <1>1, SortedIs
<1>5. n \in Nat /\ DOMAIN s = 1..n /\ \A i \in 1..n : s[i] \in S
  BY <1>3, <1>4
<1>6. d = [i \in 1..n |-> [type |-> "AGENT_QUARANTINED", tick |-> t, agent |-> s[i]]]
  BY <1>1, <1>2, <1>5 DEF Quarantines
<1>7. \A i \in 1..n : d[i] \in Draft /\ d[i].type = "AGENT_QUARANTINED" /\ d[i].agent = s[i]
  BY <1>5, <1>6 DEF Draft
<1>8. d \in Seq(Draft) /\ Len(d) = n
  BY <1>5, <1>6, <1>7
<1>9. PICK f : Folding(f, view, d, n) /\ ReduceAll(view, d) = f[n]
  BY <1>5, <1>8, ReduceAllIs DEF IsFold
<1> DEFINE Told(i) ==
             /\ f[i] \in View
             /\ \A a \in Agent :
                  f[i].node[a] = IF \E j \in 1..i : s[j] = a
                                 THEN [view.node[a] EXCEPT !.state = "quarantined"]
                                 ELSE view.node[a]
           T == {i \in 0..n : Told(i)}
<1>10. 0 \in T
  <2>1. f[0] = view
    BY <1>9 DEF Folding
  <2> QED
    BY <1>5, <2>1
<1>11. ASSUME NEW k \in 0..(n - 1), k \in T
       PROVE  k + 1 \in T
  <2>1. k + 1 \in 1..n /\ (k + 1) - 1 = k /\ k + 1 \in 0..n
    BY <1>5
  <2>2. f[k + 1] = Reduce(f[k], d[k + 1])
    BY <1>9, <2>1 DEF Folding
  <2>3. Told(k)
    BY <1>11
  <2>4. PICK b : b = s[k + 1]
    OBVIOUS
  <2>5. d[k + 1] \in Draft /\ d[k + 1].type = "AGENT_QUARANTINED" /\ d[k + 1].agent = b /\ b \in Agent
    BY <1>5, <1>7, <2>1, <2>4
  <2>6. /\ f[k + 1] \in View /\ \A a \in Agent \ {b} : f[k + 1].node[a] = f[k].node[a]
        /\ f[k + 1].node[b] = [f[k].node[b] EXCEPT !.state = "quarantined"]
    <3>1. PICK v : v = f[k]
      OBVIOUS
    <3>2. PICK e : e = d[k + 1]
      OBVIOUS
    <3>3. v \in View /\ e \in Draft
      BY <2>3, <2>5, <3>1, <3>2
    <3>4. /\ Reduce(v, e) \in View
          /\ \A a \in Agent \ {e.agent} : Reduce(v, e).node[a] = v.node[a]
          /\ e.type = "AGENT_QUARANTINED" =>
                Reduce(v, e).node[e.agent] = [v.node[e.agent] EXCEPT !.state = "quarantined"]
      BY <3>3, ReduceIs
    <3> HIDE DEF Told
    <3> QED
      BY <2>2, <2>5, <3>1, <3>2, <3>4
  <2>7. ASSUME NEW a \in Agent
        PROVE  f[k + 1].node[a] = IF \E j \in 1..(k + 1) : s[j] = a
                                  THEN [view.node[a] EXCEPT !.state = "quarantined"]
                                  ELSE view.node[a]
    <3>1. f[k].node[a] = IF \E j \in 1..k : s[j] = a
                         THEN [view.node[a] EXCEPT !.state = "quarantined"] ELSE view.node[a]
      BY <2>3
    <3>2. CASE a = b
      <4>1. f[k + 1].node[a] = [f[k].node[a] EXCEPT !.state = "quarantined"]
        BY <2>6, <3>2
      <4>2. view.node[a] \in NodeRecord
        BY DEF View
      <4>3. f[k + 1].node[a] = [view.node[a] EXCEPT !.state = "quarantined"]
        BY <3>1, <4>1, <4>2 DEF NodeRecord
      <4>4. k + 1 \in 1..(k + 1) /\ s[k + 1] = a
        BY <2>4, <3>2
      <4> QED
        BY <4>3, <4>4
    <3>3. CASE a # b
      <4>1. (\E j \in 1..(k + 1) : s[j] = a) <=> (\E j \in 1..k : s[j] = a)
        BY <2>4, <3>3
      <4> QED
        BY <2>6, <3>1, <3>3, <4>1
    <3> QED
      BY <3>2, <3>3
  <2>8. Told(k + 1)
    BY <2>6, <2>7
  <2> HIDE DEF Told
  <2> QED
    BY <2>1, <2>8
<1> HIDE DEF T
<1>12. n \in T
  <2>1. 0..n \subseteq T
    BY <1>5, <1>10, <1>11, UpTo
  <2> QED
    BY <1>5, <2>1
<1>13. Told(n)
  BY <1>12 DEF T
<1>14. \A a \in Agent : (\E j \in 1..n : s[j] = a) <=> a \in S
  BY <1>3, <1>4, <1>5
<1> QED
  BY <1>2, <1>8, <1>9, <1>13, <1>14 DEF TellsQuarantine

----------------------------------------------------------------------------
(* Chains of compromise *)

Touched(node) == {a \in Agent : node[a].when # None}

\* The numbers of depth go down along compromised_by, to the one nobody compromised.
Rooted(node, zero, depth) ==
    /\ node[zero].by = None /\ node[zero].when = 0
    /\ \A a \in Agent : node[a].state = "healthy" => node[a].when = None
    /\ \A a \in Agent : node[a].state = "compromised" => node[a].when # None
    /\ \A a \in Touched(node) :
         /\ depth[a] < Cardinality(Touched(node))
         /\ a # zero => node[a].by \in Touched(node) /\ depth[node[a].by] < depth[a]

Chains(node) == \E zero \in Agent, depth \in [Agent -> Nat] : Rooted(node, zero, depth)

\* Attacks from compromised on healthy nodes lengthen the chains by one.
LEMMA InfectKeepsChains ==
    ASSUME NEW node \in [Agent -> NodeRecord], Chains(node), NEW t \in Nat,
           NEW hits \in SUBSET (Agent \X Agent),
           \A p \in hits : node[p[1]].state = "compromised" /\ node[p[2]].state = "healthy",
           NEW new, new = [a \in Agent |-> IF a \in Claimed(hits)
                                           THEN Compromised(FirstSource(hits, a), t) ELSE node[a]]
    PROVE  new \in [Agent -> NodeRecord] /\ Chains(new)
<1>1. ASSUME NEW a \in Claimed(hits)
      PROVE  /\ a \in Agent /\ FirstSource(hits, a) \in Agent /\ node[a].state = "healthy"
             /\ node[FirstSource(hits, a)].state = "compromised"
  <2>1. a \in Agent /\ FirstSource(hits, a) \in Agent /\ <<FirstSource(hits, a), a>> \in hits
    BY FirstIs
  <2>2. PICK p \in hits : p = <<FirstSource(hits, a), a>>
    BY <2>1
  <2>3. p[1] = FirstSource(hits, a) /\ p[2] = a
    BY <2>2
  <2> QED
    BY <2>1, <2>3
<1>2. \A a \in Claimed(hits) :
        /\ new[a].state = "compromised" /\ new[a].by = FirstSource(hits, a) /\ new[a].when = t
        /\ new[a] \in NodeRecord
  BY <1>1 DEF Compromised, NodeRecord
<1>3. \A a \in Agent \ Claimed(hits) : new[a] = node[a]
  OBVIOUS
<1>4. new \in [Agent -> NodeRecord]
  BY <1>2, <1>3
<1>5. PICK zero \in Agent, depth \in [Agent -> Nat] : Rooted(node, zero, depth)
  BY DEF Chains
<1>6. t # None /\ 0 # None
  BY AgentAssumption
<1>7. Touched(new) = Touched(node) \cup Claimed(hits) /\ Claimed(hits) \cap Touched(node) = {}
  <2>1. \A a \in Claimed(hits) : a \in Agent /\ node[a].when = None
    BY <1>1, <1>5 DEF Rooted
  <2>2. \A a \in Claimed(hits) : new[a].when # None
    BY <1>2, <1>6
  <2>3. \A a \in Agent \ Claimed(hits) : new[a].when = node[a].when
    BY <1>3
  <2> QED
    BY <2>1, <2>2, <2>3 DEF Touched
<1>8. IsFiniteSet(Touched(new)) /\ IsFiniteSet(Touched(node))
  BY AgentAssumption, FS_Subset DEF Touched
<1>9. PICK c : c = Cardinality(Touched(node))
  OBVIOUS
<1>10. PICK d : d = Cardinality(Touched(new))
  OBVIOUS
<1>11. c \in Nat /\ d \in Nat
  BY <1>8, <1>9, <1>10, FS_CardinalityType
<1>12. c <= d
  BY <1>7, <1>8, <1>9, <1>10, FS_Subset
<1>13. ASSUME NEW a \in Claimed(hits)
       PROVE  c < d
  <2>1. PICK more : more = Touched(node) \cup {a}
    OBVIOUS
  <2>2. IsFiniteSet(more) /\ Cardinality(more) = c + 1
    BY <1>7, <1>8, <1>9, <2>1, FS_AddElement
  <2>3. more \in SUBSET Touched(new)
    BY <1>7, <2>1
  <2>4. Cardinality(more) <= d
    BY <1>8, <1>10, <2>3, FS_Subset
  <2> QED
    BY <1>11, <2>2, <2>4
<1>14. PICK deep : deep = [a \in Agent |-> IF a \in Claimed(hits) THEN c ELSE depth[a]]
  OBVIOUS
<1>15. deep \in [Agent -> Nat]
  BY <1>11, <1>14
<1>16. zero \notin Claimed(hits)
  BY <1>1, <1>5, <1>6 DEF Rooted
<1>17. new[zero].by = None /\ new[zero].when = 0
  BY <1>3, <1>5, <1>16 DEF Rooted
<1>18. /\ \A a \in Agent : new[a].state = "healthy" => new[a].when = None
       /\ \A a \in Agent : new[a].state = "compromised" => new[a].when # None
  BY <1>2, <1>3, <1>5, <1>6 DEF Rooted
<1>19. ASSUME NEW a \in Touched(new)
       PROVE  /\ deep[a] < d
              /\ a # zero => new[a].by \in Touched(new) /\ deep[new[a].by] < deep[a]
  <2>1. a \in Agent
    BY DEF Touched
  <2>2. CASE a \in Claimed(hits)
    <3>1. PICK s \in Agent : s = FirstSource(hits, a)
      BY <1>1, <2>2
    <3>2. node[s].state = "compromised" /\ new[a].by = s
      BY <1>1, <1>2, <2>2, <3>1
    <3>3. s \in Touched(node) /\ s \notin Claimed(hits)
      BY <1>1, <1>5, <3>2 DEF Rooted, Touched
    <3>4. depth[s] < c /\ deep[s] = depth[s] /\ deep[a] = c
      BY <1>5, <1>9, <1>14, <2>1, <2>2, <3>3 DEF Rooted
    <3>5. c < d
      BY <1>13, <2>2
    <3> QED
      BY <1>7, <3>2, <3>3, <3>4, <3>5
  <2>3. CASE a \notin Claimed(hits)
    <3>1. a \in Touched(node) /\ new[a] = node[a] /\ deep[a] = depth[a] /\ depth[a] \in Nat
      BY <1>3, <1>7, <1>14, <2>1, <2>3
    <3>2. /\ depth[a] < c
          /\ a # zero => node[a].by \in Touched(node) /\ depth[node[a].by] < depth[a]
      BY <1>5, <1>9, <3>1 DEF Rooted
    <3>3. ASSUME a # zero
          PROVE  new[a].by \in Touched(new) /\ deep[new[a].by] < deep[a]
      <4>1. PICK s \in Touched(node) : s = node[a].by
        BY <3>2, <3>3
      <4>2. s \in Agent /\ s \notin Claimed(hits) /\ s \in Touched(new)
        BY <1>7 DEF Touched
      <4>3. deep[s] = depth[s]
        BY <1>14, <4>2
      <4> QED
        BY <3>1, <3>2, <3>3, <4>1, <4>2, <4>3
    <3>4. deep[a] < d
      BY <1>11, <1>12, <3>1, <3>2
    <3> QED
      BY <3>3, <3>4
  <2> QED
    BY <2>2, <2>3
<1>20. Rooted(new, zero, deep)
  BY <1>10, <1>17, <1>18, <1>19 DEF Rooted
<1> QED
  BY <1>4, <1>15, <1>20 DEF Chains

\* A quarantine leaves who compromised whom as it was.
LEMMA QuarantineKeepsChains ==
    ASSUME NEW node \in [Agent -> NodeRecord], Chains(node), NEW S \in SUBSET Agent,
           NEW new, new = [a \in Agent |-> IF a \in S THEN [node[a] EXCEPT !.state = "quarantined"]
                                           ELSE node[a]]
    PROVE  new \in [Agent -> NodeRecord] /\ Chains(new)
<1>1. \A a \in Agent : /\ new[a] \in NodeRecord
                       /\ new[a].by = node[a].by /\ new[a].when = node[a].when
                       /\ new[a].state \in {node[a].state, "quarantined"}
  BY DEF NodeRecord
<1>2. new \in [Agent -> NodeRecord]
  BY <1>1
<1>3. PICK zero \in Agent, depth \in [Agent -> Nat] : Rooted(node, zero, depth)
  BY DEF Chains
<1>4. Touched(new) = Touched(node)
  BY <1>1 DEF Touched
<1>5. \A a \in Touched(node) : a \in Agent
  BY DEF Touched
<1>6. Rooted(new, zero, depth)
  BY <1>1, <1>3, <1>4, <1>5 DEF Rooted
<1> QED
  BY <1>2, <1>6 DEF Chains

----------------------------------------------------------------------------
(* The outcomes of a tick *)

World   == [tick : Nat, plane : SUBSET (Sentinel \cup Credential), node : [Agent -> NodeRecord]]
Outcome == [world : World, drafts : Seq(Draft)]

\* A browser that showed view shows the world of o once it has the drafts of o.
Good(o, view) ==
    /\ o \in Outcome /\ Chains(o.world.node)
    /\ ReduceAll(view, o.drafts) \in View /\ ReduceAll(view, o.drafts).node = o.world.node

\* Attacks, told by their claims.
LEMMA InfectIsGood ==
    ASSUME NEW view, NEW o, Good(o, view), NEW t \in Nat,
           NEW hits \in SUBSET (In(o.world, "compromised") \X In(o.world, "healthy")),
           NEW new \in Outcome, new.drafts = o.drafts \o ClaimDrafts(hits, t),
           new.world.node = Infect(o.world, hits, t).node
    PROVE  Good(new, view)
<1>1. PICK w : w = o.world
  OBVIOUS
<1>2. PICK d : d = o.drafts
  OBVIOUS
<1>3. PICK c : c = ClaimDrafts(hits, t)
  OBVIOUS
<1>4. PICK v : v = ReduceAll(view, d)
  OBVIOUS
<1>5. w \in World /\ d \in Seq(Draft) /\ v \in View /\ v.node = w.node /\ Chains(w.node)
  BY <1>1, <1>2, <1>4 DEF Good, Outcome
<1>6. hits \in SUBSET (Agent \X Agent)
  BY DEF In
<1>7. \A p \in hits : w.node[p[1]].state = "compromised" /\ w.node[p[2]].state = "healthy"
  BY <1>1 DEF In
<1>8. PICK node : node = new.world.node
  OBVIOUS
<1>9. w.node \in [Agent -> NodeRecord]
  BY <1>5 DEF World
<1>10. node = [a \in Agent |-> IF a \in Claimed(hits) THEN Compromised(FirstSource(hits, a), t)
                               ELSE w.node[a]]
  BY <1>1, <1>5, <1>8 DEF Infect, World
<1>11. node \in [Agent -> NodeRecord] /\ Chains(node)
  BY <1>5, <1>6, <1>7, <1>9, <1>10, InfectKeepsChains
<1>12. /\ c \in Seq(Draft) /\ ReduceAll(v, c) \in View
       /\ \A a \in Agent : ReduceAll(v, c).node[a] = IF a \in Claimed(hits)
                                                     THEN Compromised(FirstSource(hits, a), t)
                                                     ELSE v.node[a]
  <2>1. /\ ClaimDrafts(hits, t) \in Seq(Draft)
        /\ ReduceAll(v, ClaimDrafts(hits, t)) \in View
        /\ \A a \in Agent :
             ReduceAll(v, ClaimDrafts(hits, t)).node[a] =
               IF a \in Claimed(hits) THEN Compromised(FirstSource(hits, a), t) ELSE v.node[a]
    BY <1>5, <1>6, ClaimsTold, ZenonT(60)
  <2> QED
    BY <1>3, <2>1
<1>13. ReduceAll(v, c).node \in [Agent -> NodeRecord]
  BY <1>12 DEF View
<1>14. ReduceAll(v, c).node = node
  BY <1>5, <1>10, <1>11, <1>12, <1>13
<1>15. ReduceAll(view, d \o c) = ReduceAll(v, c)
  BY <1>4, <1>5, <1>12, ReduceJoins
<1> QED
  BY <1>2, <1>3, <1>8, <1>11, <1>12, <1>14, <1>15 DEF Good

\* Quarantines, told one by one.
LEMMA QuarantineIsGood ==
    ASSUME NEW view, NEW o, Good(o, view), NEW t \in Nat,
           NEW S \in SUBSET Agent, NEW T \in SUBSET Agent,
           NEW new \in Outcome,
           new.drafts = (o.drafts \o Quarantines(S, t)) \o Quarantines(T, t),
           new.world.node = Quarantine(o.world, S \cup T).node
    PROVE  Good(new, view)
<1>1. PICK w : w = o.world
  OBVIOUS
<1>2. PICK d : d = o.drafts
  OBVIOUS
<1>3. PICK b : b = Quarantines(S, t)
  OBVIOUS
<1>4. PICK c : c = Quarantines(T, t)
  OBVIOUS
<1>5. PICK v : v = ReduceAll(view, d)
  OBVIOUS
<1>6. w \in World /\ d \in Seq(Draft) /\ v \in View /\ v.node = w.node /\ Chains(w.node)
  BY <1>1, <1>2, <1>5 DEF Good, Outcome
<1>7. w.node \in [Agent -> NodeRecord]
  BY <1>6 DEF World
<1>8. PICK node : node = new.world.node
  OBVIOUS
<1>9. node = [a \in Agent |-> IF a \in S \cup T THEN [w.node[a] EXCEPT !.state = "quarantined"]
                              ELSE w.node[a]]
  BY <1>1, <1>6, <1>8 DEF Quarantine, World
<1>10. node \in [Agent -> NodeRecord] /\ Chains(node)
  <2>1. S \cup T \in SUBSET Agent
    OBVIOUS
  <2> QED
    BY <1>6, <1>7, <1>9, <2>1, QuarantineKeepsChains
<1>11. PICK u : u = ReduceAll(v, b)
  OBVIOUS
<1>12. TellsQuarantine(v, S, b)
  BY <1>3, <1>6, QuarantinesTold
<1>13. TellsQuarantine(u, T, c)
  <2>1. u \in View
    BY <1>11, <1>12 DEF TellsQuarantine
  <2> QED
    BY <1>4, <2>1, QuarantinesTold
<1>14. ASSUME NEW a \in Agent
       PROVE  ReduceAll(u, c).node[a] = node[a]
  <2>1. w.node[a] \in NodeRecord
    BY <1>7
  <2>2. [[w.node[a] EXCEPT !.state = "quarantined"] EXCEPT !.state = "quarantined"]
          = [w.node[a] EXCEPT !.state = "quarantined"]
    BY <2>1 DEF NodeRecord
  <2>3. u.node[a] = IF a \in S THEN [w.node[a] EXCEPT !.state = "quarantined"] ELSE w.node[a]
    BY <1>6, <1>11, <1>12 DEF TellsQuarantine
  <2>4. ReduceAll(u, c).node[a] = IF a \in T THEN [u.node[a] EXCEPT !.state = "quarantined"]
                                  ELSE u.node[a]
    BY <1>13 DEF TellsQuarantine
  <2> QED
    BY <1>9, <2>2, <2>3, <2>4
<1>15. ReduceAll(u, c).node \in [Agent -> NodeRecord]
  BY <1>13 DEF View, TellsQuarantine
<1>16. ReduceAll(u, c).node = node
  BY <1>10, <1>14, <1>15
<1>17. ReduceAll(view, d \o b) = u
  BY <1>5, <1>6, <1>11, <1>12, ReduceJoins DEF TellsQuarantine
<1>18. d \o b \in Seq(Draft)
  BY <1>6, <1>12 DEF TellsQuarantine
<1>19. ReduceAll(view, (d \o b) \o c) = ReduceAll(u, c)
  BY <1>13, <1>17, <1>18, ReduceJoins DEF TellsQuarantine
<1> QED
  BY <1>2, <1>3, <1>4, <1>8, <1>10, <1>13, <1>16, <1>19 DEF Good, TellsQuarantine

\* What changes the security plane only.
LEMMA PlaneIsGood ==
    ASSUME NEW view, NEW o, Good(o, view), NEW new \in Outcome,
           new.drafts = o.drafts, new.world.node = o.world.node
    PROVE  Good(new, view)
BY DEF Good

----------------------------------------------------------------------------
(* The scenarios *)

LEMMA TickedIsGood ==
    ASSUME NEW view, NEW o, Good(o, view),
           NEW hits \in SUBSET (In(o.world, "compromised") \X In(o.world, "healthy"))
    PROVE  Good(Ticked(o, hits), view)
<1>1. PICK w : w = o.world
  OBVIOUS
<1>2. w \in World /\ o.drafts \in Seq(Draft) /\ w.tick \in Nat
  BY <1>1 DEF Good, Outcome, World
<1>3. hits \in SUBSET (Agent \X Agent)
  BY DEF In
<1>4. PICK node : node = [a \in Agent |-> IF a \in Claimed(hits)
                                          THEN Compromised(FirstSource(hits, a), w.tick)
                                          ELSE w.node[a]]
  OBVIOUS
<1>5. \A a \in Claimed(hits) : Compromised(FirstSource(hits, a), w.tick) \in NodeRecord
  BY <1>2, <1>3, FirstIs DEF Compromised, NodeRecord
<1>6. node \in [Agent -> NodeRecord]
  BY <1>2, <1>4, <1>5 DEF World
<1>7. PICK i : i = Infect(w, hits, w.tick)
  OBVIOUS
<1>8. i = [w EXCEPT !.node = node]
  BY <1>4, <1>7 DEF Infect
<1>9. i \in World /\ i.tick = w.tick /\ i.node = node
  BY <1>2, <1>6, <1>8 DEF World
<1>10. PICK j : j = [i EXCEPT !.tick = i.tick + 1]
  OBVIOUS
<1>11. j \in World /\ j.node = i.node
  BY <1>2, <1>9, <1>10 DEF World
<1>12. PICK c : c = ClaimDrafts(hits, w.tick)
  OBVIOUS
<1>13. c \in Seq(Draft)
  <2>1. ReduceAll(view, o.drafts) \in View
    BY DEF Good
  <2> QED
    BY <1>2, <1>3, <1>12, <2>1, ClaimsTold
<1>14. PICK new : new = Ticked(o, hits)
  OBVIOUS
<1>15. new = [world |-> j, drafts |-> o.drafts \o c]
  BY <1>1, <1>7, <1>10, <1>12, <1>14 DEF Ticked
<1>16. o.drafts \o c \in Seq(Draft)
  BY <1>2, <1>13
<1>17. new \in Outcome
  BY <1>11, <1>15, <1>16 DEF Outcome
<1> QED
  BY <1>1, <1>2, <1>7, <1>11, <1>12, <1>14, <1>15, <1>17, InfectIsGood

LEMMA DegreeIs == ASSUME NEW a \in Agent
                  PROVE  Degree(a) \in 0..Cardinality(Agent) /\ Cardinality(Agent) \in Nat
<1>1. PICK n : n = Neighbours(a)
  OBVIOUS
<1>2. n \in SUBSET Agent
  BY <1>1 DEF Neighbours
<1>3. IsFiniteSet(n) /\ Cardinality(n) <= Cardinality(Agent) /\ IsFiniteSet(Agent)
  BY <1>2, AgentAssumption, FS_Subset
<1>4. Cardinality(n) \in Nat /\ Cardinality(Agent) \in Nat
  BY <1>3, FS_CardinalityType
<1> QED
  BY <1>1, <1>3, <1>4 DEF Degree

\* The adaptive attacker finds a target wherever there is a healthy neighbour.
LEMMA TargetIsHealthy ==
    ASSUME NEW w, NEW s \in Agent, Neighbours(s) \cap In(w, "healthy") # {}
    PROVE  Target(w, s) \in In(w, "healthy")
<1> DEFINE options == Neighbours(s) \cap In(w, "healthy")
           Better(a, b) == IF Stealthy(w) THEN Degree(a) < Degree(b) ELSE Degree(a) > Degree(b)
           best == {a \in options : \A b \in options : ~Better(b, a)}
<1>1. options \subseteq Agent /\ options # {}
  BY DEF In
<1>2. best # {}
  <2>1. CASE Stealthy(w)
    <3>1. PICK D : D = {Degree(a) : a \in options}
      OBVIOUS
    <3>2. D \in SUBSET Nat /\ D # {}
      <4> HIDE DEF options
      <4> QED
        BY <1>1, <3>1, DegreeIs
    <3>3. PICK m : m = Min(D)
      OBVIOUS
    <3>4. m \in D /\ \A y \in D : m <= y
      BY <3>2, <3>3, MinIs
    <3>5. PICK a \in options : Degree(a) = m
      BY <3>1, <3>4
    <3>6. ASSUME NEW b \in options
          PROVE  ~(Degree(b) < Degree(a))
      <4>1. Degree(b) \in D /\ m <= Degree(b) /\ m \in Nat /\ Degree(b) \in Nat
        BY <3>1, <3>2, <3>4
      <4> QED
        BY <3>5, <4>1
    <3> HIDE DEF options
    <3> QED
      BY <2>1, <3>5, <3>6
  <2>2. CASE ~Stealthy(w)
    <3>1. PICK n : n = Cardinality(Agent)
      OBVIOUS
    <3>2. PICK D : D = {n - Degree(a) : a \in options}
      OBVIOUS
    <3>3. \A a \in options : n \in Nat /\ Degree(a) \in 0..n
      <4> HIDE DEF options
      <4> QED
        BY <1>1, <3>1, DegreeIs
    <3>4. D \in SUBSET Nat /\ D # {}
      <4> HIDE DEF options
      <4>1. \A a \in options : n - Degree(a) \in Nat
        BY <3>3
      <4> QED
        BY <1>1, <3>2, <4>1
    <3>5. PICK m : m = Min(D)
      OBVIOUS
    <3>6. m \in D /\ \A y \in D : m <= y
      BY <3>4, <3>5, MinIs
    <3>7. PICK a \in options : n - Degree(a) = m
      BY <3>2, <3>6
    <3>8. ASSUME NEW b \in options
          PROVE  ~(Degree(b) > Degree(a))
      <4>1. n - Degree(b) \in D
        BY <3>2
      <4>2. m <= n - Degree(b)
        BY <3>6, <4>1
      <4>3. n \in Nat /\ Degree(a) \in 0..n /\ Degree(b) \in 0..n
        BY <3>3
      <4> QED
        BY <3>7, <4>2, <4>3
    <3> HIDE DEF options
    <3> QED
      BY <2>2, <3>7, <3>8
  <2> QED
    BY <2>1, <2>2
<1>3. best \in SUBSET Nat
  BY <1>1, AgentAssumption
<1>4. Min(best) \in best
  <2> HIDE DEF best
  <2> QED
    BY <1>2, <1>3, MinIs
<1>5. Target(w, s) = Min(best)
  BY DEF Target
<1> QED
  BY <1>4, <1>5

LEMMA PlaneMovesIsGood ==
    ASSUME NEW view, NEW o, Good(o, view), NEW X \in SUBSET (Sentinel \cup Credential)
    PROVE  Good([o EXCEPT !.world.plane = @ \cup X], view)
<1>1. PICK new : new = [o EXCEPT !.world.plane = @ \cup X]
  OBVIOUS
<1>2. o \in Outcome /\ o.world \in World
  BY DEF Good, Outcome
<1>3. PICK plane : plane = o.world.plane \cup X
  OBVIOUS
<1>4. plane \in SUBSET (Sentinel \cup Credential)
  BY <1>2, <1>3 DEF World
<1>5. PICK w : w = [o.world EXCEPT !.plane = plane]
  OBVIOUS
<1>6. w \in World /\ w.node = o.world.node
  BY <1>2, <1>4, <1>5 DEF World
<1>7. new = [o EXCEPT !.world = w]
  BY <1>1, <1>2, <1>3, <1>5 DEF Outcome
<1>8. new \in Outcome /\ new.drafts = o.drafts /\ new.world.node = o.world.node
  BY <1>2, <1>6, <1>7 DEF Outcome
<1> QED
  BY <1>1, <1>8, PlaneIsGood

LEMMA ScenarioIsGood ==
    ASSUME NEW view, NEW o, Good(o, view), NEW x,
           x \in Propagation(o) \cup AdaptiveAttacker(o) \cup SentinelCompromise(o)
                   \cup ByzantineCollusion(o) \cup {o}
    PROVE  Good(x, view)
<1>1. PICK w : w = o.world
  OBVIOUS
<1>2. CASE x \in Propagation(o)
  <2>1. PICK hits \in SUBSET Attempts(o.world) : x = Ticked(o, hits)
    BY <1>2 DEF Propagation
  <2>2. hits \in SUBSET (In(o.world, "compromised") \X In(o.world, "healthy"))
    BY DEF Attempts
  <2> QED
    BY <2>1, <2>2, TickedIsGood
<1>3. CASE x \in AdaptiveAttacker(o)
  <2>1. PICK hits \in SUBSET AdaptiveAttempts(o.world) : x = Ticked(o, hits)
    BY <1>3 DEF AdaptiveAttacker
  <2>2. ASSUME NEW p \in AdaptiveAttempts(o.world)
        PROVE  p \in In(o.world, "compromised") \X In(o.world, "healthy")
    <3>1. PICK s \in In(o.world, "compromised") :
            p = <<s, Target(o.world, s)>> /\ Neighbours(s) \cap In(o.world, "healthy") # {}
      BY DEF AdaptiveAttempts
    <3>2. s \in Agent
      BY DEF In
    <3>3. Target(o.world, s) \in In(o.world, "healthy")
      BY <3>1, <3>2, TargetIsHealthy
    <3> QED
      BY <3>1, <3>3
  <2>3. hits \in SUBSET (In(o.world, "compromised") \X In(o.world, "healthy"))
    BY <2>2
  <2> QED
    BY <2>1, <2>3, TickedIsGood
<1>4. CASE x \in SentinelCompromise(o)
  <2>1. PICK turned \in SUBSET Sentinel : x = [o EXCEPT !.world.plane = @ \cup turned]
    BY <1>4 DEF SentinelCompromise
  <2>2. turned \in SUBSET (Sentinel \cup Credential)
    OBVIOUS
  <2> QED
    BY <2>1, <2>2, PlaneMovesIsGood
<1>5. CASE x \in ByzantineCollusion(o)
  <2>1. PICK f \in Takes(o.world) :
          x = [o EXCEPT !.world.plane = @ \cup ({f[p] : p \in DOMAIN f} \ {None})]
    BY <1>5 DEF ByzantineCollusion
  <2>2. PICK taken : taken = {f[p] : p \in DOMAIN f} \ {None}
    OBVIOUS
  <2>3. f \in [Pairs(o.world) -> Credential \cup {None}]
    BY DEF Takes
  <2>4. taken \in SUBSET (Sentinel \cup Credential)
    BY <2>2, <2>3
  <2> QED
    BY <2>1, <2>2, <2>4, PlaneMovesIsGood
<1> QED
  BY <1>2, <1>3, <1>4, <1>5

LEMMA RunScenarioIsGood ==
    ASSUME NEW view, NEW outcomes, \A o \in outcomes : Good(o, view), NEW name,
           NEW x \in RunScenario(outcomes, name)
    PROVE  Good(x, view)
<1> DEFINE Result(o) == CASE name = "propagation"         -> Propagation(o)
                          [] name = "adaptive_attacker"   -> AdaptiveAttacker(o)
                          [] name = "sentinel_compromise" -> SentinelCompromise(o)
                          [] name = "byzantine_collusion" -> ByzantineCollusion(o)
                          [] OTHER -> {o}
<1>1. RunScenario(outcomes, name) = UNION {Result(o) : o \in outcomes}
  BY DEF RunScenario
<1>2. PICK o \in outcomes : x \in Result(o)
  <2> HIDE DEF Result
  <2> QED
    BY <1>1
<1>3. x \in Propagation(o) \cup AdaptiveAttacker(o) \cup SentinelCompromise(o)
              \cup ByzantineCollusion(o) \cup {o}
  BY <1>2
<1> QED
  BY <1>3, ScenarioIsGood

\* The scenarios of a tick, one after the other.
LEMMA SweptIsGood ==
    ASSUME NEW view, NEW w, Good([world |-> w, drafts |-> << >>], view),
           ActiveScenarios \in Seq(STRING)
    PROVE  \A x \in Swept(w) : Good(x, view)
<1>1. PICK n : n = Len(ActiveScenarios)
  OBVIOUS
<1>2. n \in Nat
  BY <1>1
<1>3. PICK start : start = {[world |-> w, drafts |-> << >>]}
  OBVIOUS
<1> DEFINE Rec(f, k) ==
             f = [i \in 0..k |-> IF i = 0 THEN start ELSE RunScenario(f[i - 1], ActiveScenarios[i])]
           K == {k \in Nat : \E f : Rec(f, k)}
<1>4. 0 \in K
  <2>1. Rec([i \in 0..0 |-> start], 0)
    OBVIOUS
  <2> QED
    BY <2>1
<1>5. ASSUME NEW k \in 0..(n - 1), k \in K
      PROVE  k + 1 \in K
  <2>1. PICK f : Rec(f, k)
    BY <1>5
  <2> DEFINE last == RunScenario(f[k], ActiveScenarios[k + 1])
             g == [i \in 0..(k + 1) |-> IF i = k + 1 THEN last ELSE f[i]]
  <2>2. ASSUME NEW i \in 0..(k + 1)
        PROVE  g[i] = IF i = 0 THEN start ELSE RunScenario(g[i - 1], ActiveScenarios[i])
    <3>1. CASE i = k + 1
      <4>1. k \in 0..(k + 1) /\ k # k + 1 /\ i # 0 /\ i - 1 = k
        BY <1>2, <3>1
      <4>2. g[i - 1] = f[k] /\ g[i] = last
        BY <3>1, <4>1
      <4> HIDE DEF g
      <4> QED
        BY <3>1, <4>1, <4>2
    <3>2. CASE i \in 0..k
      <4>1. g[i] = f[i] /\ (i # 0 => g[i - 1] = f[i - 1])
        BY <1>2, <3>2
      <4>2. f[i] = IF i = 0 THEN start ELSE RunScenario(f[i - 1], ActiveScenarios[i])
        BY <2>1, <3>2
      <4> HIDE DEF g
      <4> QED
        BY <4>1, <4>2
    <3> QED
      BY <1>2, <3>1, <3>2
  <2>3. Rec(g, k + 1)
    <3>1. g = [i \in 0..(k + 1) |-> g[i]]
      OBVIOUS
    <3> HIDE DEF g
    <3> QED
      BY <2>2, <3>1
  <2>4. k + 1 \in Nat
    BY <1>2
  <2> HIDE DEF Rec, g
  <2> QED
    BY <2>3, <2>4
<1>6. n \in K
  <2> HIDE DEF K
  <2>1. 0..n \subseteq K
    BY <1>2, <1>4, <1>5, UpTo
  <2> QED
    BY <1>2, <2>1
<1>7. PICK f : f = CHOOSE after : Rec(after, n)
  OBVIOUS
<1>8. Rec(f, n)
  BY <1>6, <1>7
<1>9. Swept(w) = f[n]
  BY <1>1, <1>3, <1>7 DEF Swept
<1> DEFINE S == {i \in 0..n : \A x \in f[i] : Good(x, view)}
<1>10. 0 \in S
  <2>1. 0 \in 0..n
    BY <1>2
  <2>2. f[0] = start
    BY <1>8, <2>1
  <2> HIDE DEF Rec
  <2> QED
    BY <1>3, <2>1, <2>2
<1>11. ASSUME NEW k \in 0..(n - 1), k \in S
       PROVE  k + 1 \in S
  <2>1. k + 1 \in 0..n /\ k + 1 # 0 /\ (k + 1) - 1 = k
    BY <1>2
  <2>2. f[k + 1] = RunScenario(f[k], ActiveScenarios[k + 1])
    BY <1>8, <2>1
  <2> HIDE DEF Rec
  <2>3. \A x \in f[k] : Good(x, view)
    BY <1>11
  <2>4. \A x \in f[k + 1] : Good(x, view)
    BY <2>2, <2>3, RunScenarioIsGood
  <2> QED
    BY <2>1, <2>4
<1> HIDE DEF Rec, S
<1>12. 0..n \subseteq S
  BY <1>2, <1>10, <1>11, UpTo
<1>13. n \in S
  BY <1>2, <1>12
<1> QED
  BY <1>9, <1>13 DEF S

LEMMA DetectionIsGood ==
    ASSUME NEW view, NEW o, Good(o, view), NEW x \in Detection(o)
    PROVE  Good(x, view)
<1>1. CASE ~DefenseEnabled
  BY <1>1 DEF Detection
<1>2. CASE DefenseEnabled
  <2>1. PICK w : w = o.world
    OBVIOUS
  <2>2. w \in World /\ o.drafts \in Seq(Draft) /\ w.tick \in Nat
    BY <2>1 DEF Good, Outcome, World
  <2>3. PICK caught \in SUBSET Agent, framed \in SUBSET Agent :
          x = [world  |-> Quarantine(w, caught \cup framed),
               drafts |-> o.drafts \o Quarantines(caught, w.tick) \o Quarantines(framed, w.tick)]
    <3>1. PICK U, F : /\ U = In(w, "compromised") \ Suppressed(w)
                      /\ F = IF config.false_quarantine THEN In(w, "healthy") ELSE {}
      OBVIOUS
    <3>2. U \in SUBSET Agent /\ F \in SUBSET Agent
      BY <3>1 DEF In
    <3>3. Detection(o) = UNION {{Quarantined(o, some, others) : others \in SUBSET F} : some \in SUBSET U}
      BY <1>2, <2>1, <3>1 DEF Detection
    <3>4. PICK caught \in SUBSET U, framed \in SUBSET F : x = Quarantined(o, caught, framed)
      BY <3>3
    <3> QED
      BY <2>1, <3>2, <3>4 DEF Quarantined
  <2>4. PICK b : b = Quarantines(caught, w.tick)
    OBVIOUS
  <2>5. PICK c : c = Quarantines(framed, w.tick)
    OBVIOUS
  <2>6. b \in Seq(Draft) /\ c \in Seq(Draft)
    <3>1. ReduceAll(view, o.drafts) \in View
      BY DEF Good
    <3>2. TellsQuarantine(ReduceAll(view, o.drafts), caught, b)
      BY <2>2, <2>4, <3>1, QuarantinesTold
    <3>3. TellsQuarantine(ReduceAll(view, o.drafts), framed, c)
      BY <2>2, <2>5, <3>1, QuarantinesTold
    <3> QED
      BY <3>2, <3>3 DEF TellsQuarantine
  <2>7. PICK S : S = caught \cup framed
    OBVIOUS
  <2>8. PICK node : node = [a \in Agent |-> IF a \in S
                                            THEN [w.node[a] EXCEPT !.state = "quarantined"]
                                            ELSE w.node[a]]
    OBVIOUS
  <2>9. \A a \in Agent : [w.node[a] EXCEPT !.state = "quarantined"] \in NodeRecord
                         /\ w.node[a] \in NodeRecord
    BY <2>2 DEF World, NodeRecord
  <2>10. node \in [Agent -> NodeRecord]
    BY <2>8, <2>9
  <2>11. PICK q : q = Quarantine(w, S)
    OBVIOUS
  <2>12. q = [w EXCEPT !.node = node]
    BY <2>8, <2>11 DEF Quarantine
  <2>13. q \in World
    BY <2>2, <2>10, <2>12 DEF World
  <2>14. x = [world |-> q, drafts |-> (o.drafts \o b) \o c]
    BY <2>3, <2>4, <2>5, <2>7, <2>11
  <2>15. (o.drafts \o b) \o c \in Seq(Draft)
    BY <2>2, <2>6
  <2>16. /\ x \in Outcome
         /\ x.drafts = (o.drafts \o Quarantines(caught, w.tick)) \o Quarantines(framed, w.tick)
         /\ x.world.node = Quarantine(o.world, caught \cup framed).node
    BY <2>1, <2>4, <2>5, <2>7, <2>11, <2>13, <2>14, <2>15 DEF Outcome
  <2> QED
    BY <2>2, <2>16, QuarantineIsGood
<1> QED
  BY <1>1, <1>2

LEMMA RealAgentsIsGood ==
    ASSUME NEW view, NEW o, Good(o, view), NEW x \in RealAgents(o)
    PROVE  Good(x, view)
<1>1. PICK hits \in SUBSET RealAttempts(o.world) :
        x = IF hits = {} THEN o
            ELSE [world  |-> [Infect(o.world, hits, o.world.tick) EXCEPT !.plane = {}],
                  drafts |-> o.drafts \o ClaimDrafts(hits, o.world.tick)]
  BY DEF RealAgents
<1>2. CASE hits = {}
  BY <1>1, <1>2
<1>3. CASE hits # {}
  <2>1. PICK w : w = o.world
    OBVIOUS
  <2>2. w \in World /\ o.drafts \in Seq(Draft) /\ w.tick \in Nat
    BY <2>1 DEF Good, Outcome, World
  <2>3. hits \in SUBSET (In(o.world, "compromised") \X In(o.world, "healthy"))
    BY DEF RealAttempts
  <2>4. hits \in SUBSET (Agent \X Agent)
    BY <2>3 DEF In
  <2>5. PICK node : node = [a \in Agent |-> IF a \in Claimed(hits)
                                            THEN Compromised(FirstSource(hits, a), w.tick)
                                            ELSE w.node[a]]
    OBVIOUS
  <2>6. \A a \in Claimed(hits) : Compromised(FirstSource(hits, a), w.tick) \in NodeRecord
    BY <2>2, <2>4, FirstIs DEF Compromised, NodeRecord
  <2>7. node \in [Agent -> NodeRecord]
    BY <2>2, <2>5, <2>6 DEF World
  <2>8. PICK i : i = Infect(w, hits, w.tick)
    OBVIOUS
  <2>9. i = [w EXCEPT !.node = node]
    BY <2>5, <2>8 DEF Infect
  <2>10. i \in World
    BY <2>2, <2>7, <2>9 DEF World
  <2>11. PICK j : j = [i EXCEPT !.plane = {}]
    OBVIOUS
  <2>12. j \in World /\ j.node = i.node
    BY <2>10, <2>11 DEF World
  <2>13. PICK c : c = ClaimDrafts(hits, w.tick)
    OBVIOUS
  <2>14. c \in Seq(Draft)
    <3>1. ReduceAll(view, o.drafts) \in View
      BY DEF Good
    <3> QED
      BY <2>2, <2>4, <2>13, <3>1, ClaimsTold
  <2>15. x = [world |-> j, drafts |-> o.drafts \o c]
    BY <1>1, <1>3, <2>1, <2>8, <2>11, <2>13
  <2>16. o.drafts \o c \in Seq(Draft)
    BY <2>2, <2>14
  <2>17. x \in Outcome
    BY <2>12, <2>15, <2>16 DEF Outcome
  <2> QED
    BY <2>1, <2>2, <2>3, <2>8, <2>12, <2>13, <2>15, <2>17, InfectIsGood
<1> QED
  BY <1>2, <1>3

LEMMA AdvanceIsGood ==
    ASSUME NEW view, NEW w, Good([world |-> w, drafts |-> << >>], view),
           ActiveScenarios \in Seq(STRING), NEW x \in Advance(w)
    PROVE  Good(x, view)
<1>1. \A o \in Swept(w) : Good(o, view)
  BY SweptIsGood
<1>2. PICK o \in Swept(w) : x \in Detection(o)
  BY DEF Advance
<1> QED
  BY <1>1, <1>2, DetectionIsGood

\* Either two views are alike in these fields, or both have them as they were.
Alike(new, other, was, before) == new = other \/ (new = was /\ other = before)

AlikeNodes(new, other, was, before) ==
    \A a \in Agent :
       /\ Alike(new.node[a].state, other.node[a].state, was.node[a].state, before.node[a].state)
       /\ Alike(new.node[a].by, other.node[a].by, was.node[a].by, before.node[a].by)
       /\ Alike(new.node[a].when, other.node[a].when, was.node[a].when, before.node[a].when)

\* A draft sets fields of one node, whatever they were.
LEMMA ReduceAlike ==
    ASSUME NEW new \in View, NEW other \in View, NEW was, NEW before,
           AlikeNodes(new, other, was, before), NEW e \in Draft
    PROVE  AlikeNodes(Reduce(new, e), Reduce(other, e), was, before)
<1>1. PICK x : x = Reduce(new, e)
  OBVIOUS
<1>2. PICK y : y = Reduce(other, e)
  OBVIOUS
<1>3. /\ new.node[e.agent] \in NodeRecord /\ other.node[e.agent] \in NodeRecord
      /\ e.agent \in Agent
  BY DEF View, Draft
<1>4. ASSUME NEW a \in Agent, a # e.agent
      PROVE  x.node[a] = new.node[a] /\ y.node[a] = other.node[a]
  <2>1. a \in Agent \ {e.agent}
    BY <1>4
  <2>2. ASSUME NEW v \in View
        PROVE  \A b \in Agent \ {e.agent} : Reduce(v, e).node[b] = v.node[b]
    BY ReduceIs
  <2>3. Reduce(new, e).node[a] = new.node[a]
    BY <2>1, <2>2
  <2>4. Reduce(other, e).node[a] = other.node[a]
    BY <2>1, <2>2
  <2> QED
    BY <1>1, <1>2, <2>3, <2>4
<1>5. CASE e.type = "COMPROMISE_SUCCEEDED" /\ ~e.already_compromised
  <2>1. ASSUME NEW v \in View
        PROVE  Reduce(v, e).node[e.agent] = Compromised(e.source, e.tick)
    BY <1>5, ReduceIs
  <2>2. x.node[e.agent] = y.node[e.agent]
    BY <1>1, <1>2, <2>1
  <2>3. ASSUME NEW a \in Agent
        PROVE  /\ Alike(x.node[a].state, y.node[a].state, was.node[a].state, before.node[a].state)
               /\ Alike(x.node[a].by, y.node[a].by, was.node[a].by, before.node[a].by)
               /\ Alike(x.node[a].when, y.node[a].when, was.node[a].when, before.node[a].when)
    <3>1. CASE a = e.agent
      BY <2>2, <3>1 DEF Alike
    <3>2. CASE a # e.agent
      BY <1>4, <3>2 DEF AlikeNodes
    <3> QED
      BY <3>1, <3>2
  <2> QED
    BY <1>1, <1>2, <2>3 DEF AlikeNodes
<1>6. CASE ~(e.type = "COMPROMISE_SUCCEEDED" /\ ~e.already_compromised)
  <2>1. PICK state \in {"compromised", "quarantined"} :
          /\ x.node[e.agent] = [new.node[e.agent] EXCEPT !.state = state]
          /\ y.node[e.agent] = [other.node[e.agent] EXCEPT !.state = state]
    <3>1. e.type \in {"COMPROMISE_SUCCEEDED", "AGENT_QUARANTINED"}
      BY DEF Draft
    <3>2. CASE e.type = "COMPROMISE_SUCCEEDED"
      <4>1. e.already_compromised
        BY <1>6, <3>2
      <4> QED
        BY <1>1, <1>2, <3>2, <4>1, ReduceIs
    <3>3. CASE e.type = "AGENT_QUARANTINED"
      BY <1>1, <1>2, <3>3, ReduceIs
    <3> QED
      BY <3>1, <3>2, <3>3
  <2>2. /\ x.node[e.agent].state = y.node[e.agent].state
        /\ x.node[e.agent].by = new.node[e.agent].by /\ y.node[e.agent].by = other.node[e.agent].by
        /\ x.node[e.agent].when = new.node[e.agent].when
        /\ y.node[e.agent].when = other.node[e.agent].when
    BY <1>3, <2>1 DEF NodeRecord
  <2>3. ASSUME NEW a \in Agent
        PROVE  /\ Alike(x.node[a].state, y.node[a].state, was.node[a].state, before.node[a].state)
               /\ Alike(x.node[a].by, y.node[a].by, was.node[a].by, before.node[a].by)
               /\ Alike(x.node[a].when, y.node[a].when, was.node[a].when, before.node[a].when)
    <3>1. /\ Alike(new.node[a].state, other.node[a].state, was.node[a].state, before.node[a].state)
          /\ Alike(new.node[a].by, other.node[a].by, was.node[a].by, before.node[a].by)
          /\ Alike(new.node[a].when, other.node[a].when, was.node[a].when, before.node[a].when)
      BY DEF AlikeNodes
    <3>2. CASE a = e.agent
      BY <2>2, <3>1, <3>2 DEF Alike
    <3>3. CASE a # e.agent
      BY <1>4, <3>1, <3>3
    <3> QED
      BY <3>2, <3>3
  <2> QED
    BY <1>1, <1>2, <2>3 DEF AlikeNodes
<1> QED
  BY <1>5, <1>6

\* A browser that shows the outcome of the drafts already learns nothing from them.
LEMMA TwiceIsOnce ==
    ASSUME NEW view \in View, NEW drafts \in Seq(Draft), NEW last \in View,
           last.node = ReduceAll(view, drafts).node
    PROVE  ReduceAll(last, drafts) \in View /\ ReduceAll(last, drafts).node = last.node
<1>1. PICK n : n = Len(drafts)
  OBVIOUS
<1>2. n \in Nat /\ \A i \in 1..n : drafts[i] \in Draft
  BY <1>1
<1>3. PICK f : Folding(f, view, drafts, n) /\ ReduceAll(view, drafts) = f[n]
  BY <1>1, <1>2, ReduceAllIs DEF IsFold
<1>4. PICK g : Folding(g, last, drafts, n) /\ ReduceAll(last, drafts) = g[n]
  BY <1>1, <1>2, ReduceAllIs DEF IsFold
<1> DEFINE Sofar(i) == f[i] \in View /\ g[i] \in View /\ AlikeNodes(f[i], g[i], view, last)
           S == {i \in 0..n : Sofar(i)}
<1>5. 0 \in S
  <2>1. f[0] = view /\ g[0] = last
    BY <1>3, <1>4 DEF Folding
  <2> QED
    BY <1>2, <2>1 DEF AlikeNodes, Alike
<1>6. ASSUME NEW k \in 0..(n - 1), k \in S
      PROVE  k + 1 \in S
  <2>1. k + 1 \in 1..n /\ k + 1 \in 0..n /\ (k + 1) - 1 = k
    BY <1>2
  <2>2. PICK e \in Draft : e = drafts[k + 1]
    BY <1>2, <2>1
  <2>3. f[k + 1] = Reduce(f[k], e) /\ g[k + 1] = Reduce(g[k], e)
    BY <1>3, <1>4, <2>1, <2>2 DEF Folding
  <2>4. Sofar(k)
    BY <1>6
  <2>5. Reduce(f[k], e) \in View /\ Reduce(g[k], e) \in View
    BY <2>4, ReduceIs
  <2>6. AlikeNodes(Reduce(f[k], e), Reduce(g[k], e), view, last)
    BY <2>4, ReduceAlike
  <2> QED
    BY <2>1, <2>3, <2>5, <2>6
<1> HIDE DEF S
<1>7. Sofar(n)
  <2>1. \A i \in 0..n : i \in S
    BY <1>2, <1>5, <1>6, UpTo
  <2>2. n \in 0..n
    BY <1>2
  <2> QED
    BY <2>1, <2>2 DEF S
<1>8. ASSUME NEW a \in Agent
      PROVE  g[n].node[a] = last.node[a]
  <2>1. /\ g[n].node[a].state = last.node[a].state /\ g[n].node[a].by = last.node[a].by
        /\ g[n].node[a].when = last.node[a].when
    BY <1>3, <1>7 DEF AlikeNodes, Alike
  <2>2. g[n].node[a] \in NodeRecord /\ last.node[a] \in NodeRecord
    BY <1>7 DEF View
  <2> QED
    BY <2>1, <2>2 DEF NodeRecord
<1>9. g[n].node \in [Agent -> NodeRecord] /\ last.node \in [Agent -> NodeRecord]
  BY <1>7 DEF View
<1>10. g[n].node = last.node
  BY <1>8, <1>9
<1> QED
  BY <1>4, <1>7, <1>10

----------------------------------------------------------------------------
(* The run *)

\* With the drafts that are held back, a browser shows the world.
OutbreakInv ==
    /\ config \in Configs /\ live \in View
    /\ Good([world |-> world, drafts |-> pending], live)
    /\ phase = "ready" => pending = << >>

\* Without a draft a browser that shows the world has nothing to learn.
LEMMA NothingYet ==
    ASSUME NEW w \in World, Chains(w.node), NEW view \in View, view.node = w.node
    PROVE  Good([world |-> w, drafts |-> << >>], view)
<1>1. PICK o : o = [world |-> w, drafts |-> << >>]
  OBVIOUS
<1>2. << >> \in Seq(Draft) /\ Len(<< >>) = 0
  OBVIOUS
<1>3. o \in Outcome /\ o.world = w /\ o.drafts = << >>
  BY <1>1, <1>2 DEF Outcome
<1>4. ReduceAll(view, << >>) = view
  <2>1. IsFold(ReduceAll(view, << >>), view, << >>, 0)
    BY <1>2, ReduceAllIs
  <2> QED
    BY <2>1 DEF IsFold, Folding
<1> QED
  BY <1>1, <1>3, <1>4 DEF Good

LEMMA OutbreakStarts == OutbreakInit => OutbreakInv
<1> SUFFICES ASSUME OutbreakInit
             PROVE  OutbreakInv
  OBVIOUS
<1>1. PICK zero \in Agent :
        world = [tick |-> 0, plane |-> {},
                 node |-> [a \in Agent |-> IF a = zero THEN Compromised(None, 0)
                                           ELSE [state |-> "healthy", by |-> None, when |-> None]]]
  BY DEF OutbreakInit
<1>2. PICK node : node = world.node
  OBVIOUS
<1>3. \A a \in Agent : node[a] = IF a = zero THEN Compromised(None, 0)
                                 ELSE [state |-> "healthy", by |-> None, when |-> None]
  BY <1>1, <1>2
<1>4. /\ [state |-> "healthy", by |-> None, when |-> None] \in NodeRecord
      /\ Compromised(None, 0) \in NodeRecord
  BY DEF NodeRecord, Compromised
<1>5. node = [a \in Agent |-> node[a]]
  BY <1>1, <1>2
<1>6. node \in [Agent -> NodeRecord]
  BY <1>3, <1>4, <1>5
<1>7. world \in World
  BY <1>1, <1>2, <1>6 DEF World
<1>8. live = [node |-> node] /\ live \in View /\ live.node = node
  BY <1>2, <1>6 DEF OutbreakInit, FirstSnapshot, View
<1>9. 0 # None
  BY AgentAssumption
<1>10. node[zero].by = None /\ node[zero].when = 0 /\ node[zero].state = "compromised"
  BY <1>3 DEF Compromised
<1>11. \A a \in Agent \ {zero} : node[a].when = None /\ node[a].state = "healthy"
  BY <1>3
<1>12. Touched(node) = {zero}
  BY <1>9, <1>10, <1>11 DEF Touched
<1>13. Cardinality(Touched(node)) = 1
  BY <1>12, FS_Singleton
<1>14. PICK depth : depth = [a \in Agent |-> 0]
  OBVIOUS
<1>15. depth \in [Agent -> Nat] /\ depth[zero] = 0
  BY <1>14
<1>16. Rooted(node, zero, depth)
  BY <1>9, <1>10, <1>11, <1>12, <1>13, <1>15 DEF Rooted
<1>17. Chains(node)
  BY <1>15, <1>16 DEF Chains
<1>18. Good([world |-> world, drafts |-> << >>], live)
  BY <1>2, <1>7, <1>8, <1>17, NothingYet
<1> QED
  BY <1>8, <1>18 DEF OutbreakInv, OutbreakInit

\* What a browser shows once what was held back is published.
LEMMA PublishedIsGood ==
    ASSUME OutbreakInv, NEW o, Good(o, live), world' = o.world, Publish(o.drafts),
           pending' = << >>, config' = config
    PROVE  OutbreakInv'
<1>1. /\ world' \in World /\ Chains(world'.node)
      /\ live' \in View /\ live'.node = world'.node
  BY DEF Publish, Good, Outcome
<1>2. Good([world |-> world', drafts |-> << >>], live')
  BY <1>1, NothingYet
<1> QED
  BY <1>1, <1>2 DEF OutbreakInv

LEMMA TickGoesOn ==
    ASSUME OutbreakInv, Tick
    PROVE  OutbreakInv'
<1>1. PICK o \in Advance(world) :
        /\ world' = o.world
        /\ \/ phase' = "calling" /\ pending' = o.drafts /\ live' = live
           \/ Publish(o.drafts) /\ UNCHANGED <<phase, pending>>
  BY DEF Tick
<1>2. config' = config /\ pending = << >>
  BY DEF Tick, OutbreakInv
<1>3. ActiveScenarios \in Seq(STRING)
  BY AgentAssumption DEF OutbreakInv, ActiveScenarios
<1>4. Good(o, live)
  <2>1. Good([world |-> world, drafts |-> << >>], live)
    BY <1>2 DEF OutbreakInv
  <2> QED
    BY <1>3, <2>1, AdvanceIsGood
<1>5. CASE phase' = "calling" /\ pending' = o.drafts /\ live' = live
  <2>1. o = [world |-> o.world, drafts |-> o.drafts]
    BY <1>4 DEF Good, Outcome
  <2> QED
    BY <1>1, <1>2, <1>4, <1>5, <2>1 DEF OutbreakInv
<1>6. CASE Publish(o.drafts) /\ UNCHANGED <<phase, pending>>
  BY <1>1, <1>2, <1>4, <1>6, PublishedIsGood
<1> QED
  BY <1>1, <1>5, <1>6

LEMMA OutbreakGoesOn == OutbreakInv /\ [OutbreakNext]_outbreakVars => OutbreakInv'
<1> SUFFICES ASSUME OutbreakInv, [OutbreakNext]_outbreakVars
             PROVE  OutbreakInv'
  OBVIOUS
<1> DEFINE now == [world |-> world, drafts |-> pending]
<1>1. CASE ModelsAnswer
  <2>1. PICK o \in RealAgents(now) : world' = o.world /\ Publish(o.drafts)
    BY <1>1 DEF ModelsAnswer
  <2>2. Good(o, live)
    BY <2>1, RealAgentsIsGood DEF OutbreakInv
  <2> QED
    BY <1>1, <2>1, <2>2, PublishedIsGood DEF ModelsAnswer
<1>2. CASE EndsInACall
  BY <1>2 DEF EndsInACall, OutbreakInv
<1>3. CASE Opens
  <2>1. /\ live' = [node |-> world.node]
        /\ UNCHANGED <<config, world, phase, pending>>
    BY <1>3 DEF Opens, FirstSnapshot
  <2>2. now \in Outcome /\ now.world = world /\ now.drafts = pending
    BY DEF OutbreakInv, Good
  <2>3. /\ world \in World /\ Chains(world.node) /\ pending \in Seq(Draft)
        /\ ReduceAll(live, pending).node = world.node /\ live \in View
    BY <2>2 DEF OutbreakInv, Good, Outcome
  <2>4. live' \in View /\ live'.node = world.node
    BY <2>1, <2>3 DEF World, View
  <2>5. ReduceAll(live', pending) \in View /\ ReduceAll(live', pending).node = live'.node
    BY <2>3, <2>4, TwiceIsOnce
  <2>6. Good(now, live')
    BY <2>2, <2>3, <2>4, <2>5 DEF Good
  <2> QED
    BY <2>1, <2>4, <2>6 DEF OutbreakInv
<1>4. CASE UNCHANGED outbreakVars
  BY <1>4 DEF outbreakVars, OutbreakInv
<1> QED
  BY <1>1, <1>2, <1>3, <1>4, TickGoesOn DEF OutbreakNext

LEMMA OutbreakHolds == OutbreakSpec => []OutbreakInv
BY OutbreakStarts, OutbreakGoesOn, PTL DEF OutbreakSpec

\* The world an invariant state holds, of the types and chains it should have.
LEMMA WorldIsGood ==
    ASSUME OutbreakInv
    PROVE  /\ world \in World /\ Chains(world.node)
           /\ ReduceAll(live, pending).node = world.node
<1>1. PICK o : o = [world |-> world, drafts |-> pending]
  OBVIOUS
<1>2. o.world = world /\ o.drafts = pending
  BY <1>1
<1> QED
  BY <1>1, <1>2 DEF OutbreakInv, Good, Outcome

\* The deltas are enough (runner.py:97-109, reducer.ts): between two ticks a browser that
\* folds the events, opened whenever, holds the world, and while the models are called the
\* drafts held back make up the difference, also to a browser that was opened meanwhile.
THEOREM EventsAreEnough == OutbreakSpec => []EventsCarryTheWorld
<1>1. OutbreakInv => EventsCarryTheWorld
  <2> SUFFICES ASSUME OutbreakInv
               PROVE  EventsCarryTheWorld
    OBVIOUS
  <2>1. ReduceAll(live, pending).node = world.node
    BY WorldIsGood
  <2>2. ASSUME phase = "ready"
        PROVE  live.node = world.node
    <3>1. pending = << >> /\ Len(<< >>) = 0
      BY <2>2 DEF OutbreakInv
    <3>2. IsFold(ReduceAll(live, << >>), live, << >>, 0)
      BY <3>1, ReduceAllIs
    <3>3. ReduceAll(live, << >>) = live
      BY <3>2 DEF IsFold, Folding
    <3> QED
      BY <2>1, <3>1, <3>3
  <2> QED
    BY <2>1, <2>2 DEF EventsCarryTheWorld
<1> QED
  BY <1>1, OutbreakHolds, PTL

\* The steps back along compromised_by.
LEMMA BackIs ==
    ASSUME NEW a, NEW n \in Nat
    PROVE  \E chain : /\ Back(a, n) = chain[n] /\ chain[0] = a
                      /\ \A i \in 1..n : chain[i] = IF world.node[chain[i - 1]].by = None
                                                    THEN chain[i - 1]
                                                    ELSE world.node[chain[i - 1]].by
<1> DEFINE Further(c) == IF world.node[c].by = None THEN c ELSE world.node[c].by
           Rec(f, k) == f = [i \in 0..k |-> IF i = 0 THEN a
                                            ELSE IF world.node[f[i - 1]].by = None THEN f[i - 1]
                                            ELSE world.node[f[i - 1]].by]
           K == {k \in Nat : \E f : Rec(f, k)}
<1>1. 0 \in K
  <2>1. Rec([i \in 0..0 |-> a], 0)
    OBVIOUS
  <2> QED
    BY <2>1
<1>2. ASSUME NEW k \in 0..(n - 1), k \in K
      PROVE  k + 1 \in K
  <2>1. PICK f : Rec(f, k)
    BY <1>2
  <2> DEFINE last == Further(f[k])
             g == [i \in 0..(k + 1) |-> IF i = k + 1 THEN last ELSE f[i]]
  <2>2. ASSUME NEW i \in 0..(k + 1)
        PROVE  g[i] = IF i = 0 THEN a ELSE Further(g[i - 1])
    <3>1. CASE i = k + 1
      <4>1. k \in 0..(k + 1) /\ k # k + 1 /\ i # 0 /\ i - 1 = k
        BY <3>1
      <4>2. g[i - 1] = f[k] /\ g[i] = last
        BY <3>1, <4>1
      <4> HIDE DEF g
      <4> QED
        BY <3>1, <4>1, <4>2
    <3>2. CASE i \in 0..k
      <4>1. g[i] = f[i] /\ (i # 0 => g[i - 1] = f[i - 1])
        BY <3>2
      <4>2. f[i] = IF i = 0 THEN a ELSE Further(f[i - 1])
        BY <2>1, <3>2
      <4> HIDE DEF g, Further
      <4> QED
        BY <4>1, <4>2
    <3> HIDE DEF g, Further
    <3> QED
      BY <3>1, <3>2
  <2>3. Rec(g, k + 1)
    <3>1. g = [i \in 0..(k + 1) |-> g[i]]
      OBVIOUS
    <3> HIDE DEF g
    <3> QED
      BY <2>2, <3>1
  <2> HIDE DEF Rec, g
  <2> QED
    BY <2>3
<1>3. n \in K
  <2> HIDE DEF K
  <2>1. 0..n \subseteq K
    BY <1>1, <1>2, UpTo
  <2> QED
    BY <2>1
<1>4. PICK f : f = CHOOSE chain : Rec(chain, n)
  OBVIOUS
<1>5. Rec(f, n)
  BY <1>3, <1>4
<1>6. Back(a, n) = f[n]
  BY <1>4 DEF Back
<1>7. f[0] = a
  BY <1>5
<1>8. ASSUME NEW i \in 1..n
      PROVE  f[i] = IF world.node[f[i - 1]].by = None THEN f[i - 1] ELSE world.node[f[i - 1]].by
  <2>1. i \in 0..n /\ i # 0
    OBVIOUS
  <2> QED
    BY <1>5, <2>1
<1> QED
  BY <1>6, <1>7, <1>8

THEOREM ChainsEnd == OutbreakSpec => []ChainsReachPatientZero
<1>1. OutbreakInv => ChainsReachPatientZero
  <2> SUFFICES ASSUME OutbreakInv
               PROVE  ChainsReachPatientZero
    OBVIOUS
  <2>1. PICK node : node = world.node
    OBVIOUS
  <2>2. PICK zero \in Agent, depth \in [Agent -> Nat] : Rooted(node, zero, depth)
    BY <2>1, WorldIsGood DEF Chains
  <2>3. node \in [Agent -> NodeRecord]
    BY <2>1, WorldIsGood DEF World
  <2>4. PICK n : n = Cardinality(Agent)
    OBVIOUS
  <2>5. PICK m : m = Cardinality(Touched(node))
    OBVIOUS
  <2>6. n \in Nat /\ m \in Nat /\ m <= n
    <3>1. Touched(node) \in SUBSET Agent /\ IsFiniteSet(Agent)
      BY AgentAssumption DEF Touched
    <3>2. IsFiniteSet(Touched(node)) /\ m <= n
      BY <2>4, <2>5, <3>1, FS_Subset
    <3> QED
      BY <2>4, <2>5, <3>1, <3>2, FS_CardinalityType
  <2>7. ASSUME NEW b \in Touched(node), b # zero
        PROVE  /\ node[b].by # None /\ node[b].by \in Touched(node)
               /\ depth[node[b].by] \in Nat /\ depth[node[b].by] < depth[b]
    <3>1. node[b].by \in Touched(node) /\ depth[node[b].by] < depth[b]
      BY <2>2, <2>7 DEF Rooted
    <3>2. node[b].by \in Agent
      BY <3>1 DEF Touched
    <3>3. node[b].by # None
      BY <3>2, AgentAssumption
    <3> QED
      BY <2>2, <3>1, <3>2, <3>3
  <2>8. ASSUME NEW a \in Agent, node[a].when # None
        PROVE  Back(a, n) = zero
    <3>1. PICK chain : /\ Back(a, n) = chain[n] /\ chain[0] = a
                       /\ \A i \in 1..n : chain[i] = IF node[chain[i - 1]].by = None
                                                     THEN chain[i - 1]
                                                     ELSE node[chain[i - 1]].by
      BY <2>1, <2>6, BackIs
    <3>2. a \in Touched(node)
      BY <2>8 DEF Touched
    <3>3. depth[a] \in Nat /\ depth[a] < m
      BY <2>2, <2>5, <3>2 DEF Rooted
    <3> DEFINE Down(i) == /\ chain[i] \in Touched(node)
                          /\ chain[i] = zero \/ depth[chain[i]] + i <= depth[a]
               S == {i \in 0..n : Down(i)}
    <3>4. 0 \in S
      BY <2>6, <3>1, <3>2, <3>3
    <3>5. ASSUME NEW k \in 0..(n - 1), k \in S
          PROVE  k + 1 \in S
      <4>1. k + 1 \in 1..n /\ (k + 1) - 1 = k /\ k + 1 \in 0..n
        BY <2>6
      <4>2. PICK b : b = chain[k]
        OBVIOUS
      <4>3. b \in Touched(node) /\ (b = zero \/ depth[b] + k <= depth[a])
        BY <3>5, <4>2
      <4>4. chain[k + 1] = IF node[b].by = None THEN b ELSE node[b].by
        BY <3>1, <4>1, <4>2
      <4>5. CASE b = zero
        <5>1. chain[k + 1] = zero
          BY <2>2, <4>4, <4>5 DEF Rooted
        <5> QED
          BY <4>1, <4>3, <4>5, <5>1
      <4>6. CASE b # zero
        <5>1. /\ chain[k + 1] = node[b].by /\ chain[k + 1] \in Touched(node)
              /\ depth[node[b].by] \in Nat /\ depth[node[b].by] < depth[b]
          BY <2>7, <4>3, <4>4, <4>6
        <5>2. depth[b] \in Nat
          BY <2>2, <4>3 DEF Touched
        <5>3. depth[chain[k + 1]] + (k + 1) <= depth[a]
          BY <3>3, <4>3, <4>6, <5>1, <5>2
        <5> QED
          BY <4>1, <5>1, <5>3
      <4> QED
        BY <4>5, <4>6
    <3> HIDE DEF S
    <3>6. n \in S
      <4>1. 0..n \subseteq S
        BY <2>6, <3>4, <3>5, UpTo
      <4> QED
        BY <2>6, <4>1
    <3>7. Down(n)
      BY <3>6 DEF S
    <3>8. depth[chain[n]] \in Nat
      BY <2>2, <3>7 DEF Touched
    <3>9. chain[n] = zero
      BY <2>6, <3>3, <3>7, <3>8
    <3> QED
      BY <3>1, <3>9
  <2>9. node[zero].by = None /\ node[zero].when = 0
    BY <2>2 DEF Rooted
  <2> QED
    BY <2>1, <2>4, <2>8, <2>9 DEF ChainsReachPatientZero
<1> QED
  BY <1>1, OutbreakHolds, PTL

===============================================================================
