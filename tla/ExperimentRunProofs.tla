------------------------- MODULE ExperimentRunProofs -------------------------
(* Theorems about ExperimentRun for every bound and any number of stops. *)
EXTENDS ExperimentRun, FiniteSetTheorems, TLAPS

\* Who may still publish: once the run is stopped nobody but the one request that
\* awaits the loop, and once the end is signalled nobody at all.
Life ==
    /\ next_seq >= 1 /\ stoppedAt \subseteq {next_seq - 1}
    /\ terminal <=> (status = "finished" \/ stoppedAt # {})
    /\ status = "finished" => loop = "done"
    /\ loop \in {"done", "cancelling"} => status \in {"finished", "stopped"}
    /\ status = "stopped" => loop \in {"cancelling", "done", "failed"}
    /\ loop \in {"waiting", "woken"} => tick < MaxTicks
    /\ stoppedAt # {} => status = "stopped" /\ loop = "done"

OneStops ==
    /\ \A s \in Stopper : stopper[s] = "stopping" =>
         status = "stopped" /\ loop \in {"cancelling", "done"} /\ stoppedAt = {}
    /\ \A s, t \in Stopper : stopper[s] = "stopping" /\ stopper[t] = "stopping" => s = t

\* What was taken from the queue is stored, logged as lost, or being written.
Ledger ==
    /\ taken <= next_seq
    /\ stored \cup lost \cup batch = 0..(taken - 1)
    /\ writer # "writing" => batch = {}
    /\ writer = "writing" /\ termSeen => terminal

Finalizing == writer \in {"finalizing", "updating"}

\* Finalizing starts when the end is signalled and the queue is empty, and what it
\* has read stays true.
Final ==
    /\ Finalizing \/ row # None => terminal /\ taken = next_seq /\ batch = {}
    /\ Finalizing =>
         /\ summary \in Outcome
         /\ summary.status = status /\ summary.sim_tick = tick
         /\ summary.last_seq = next_seq - 1
         /\ summary.is_complete => stored = 0..(next_seq - 1)
    /\ row # None =>
         /\ writer = "closed" \/ ~up
         /\ row.status = status /\ row.sim_tick = tick /\ row.last_seq = next_seq - 1
         /\ row.is_complete => stored = 0..(next_seq - 1)

IInv == TypeOK /\ Life /\ OneStops /\ Ledger /\ Final

----------------------------------------------------------------------------
\* One pass of the queue takes a prefix of it.
LEMMA PrefixTaken ==
    ASSUME TypeOK, taken <= next_seq
    PROVE  /\ taken + Cardinality(NextBatch) \in Nat
           /\ taken + Cardinality(NextBatch) <= next_seq
           /\ NextBatch = taken..(taken + Cardinality(NextBatch) - 1)
           /\ NextBatch = {} => taken = next_seq
<1> DEFINE end == IF taken + DrainBatchCap < next_seq THEN taken + DrainBatchCap ELSE next_seq
<1>1. taken \in Nat /\ next_seq \in Nat /\ DrainBatchCap \in Nat /\ DrainBatchCap > 0
  BY BoundsAssumption DEF TypeOK
<1>2. end \in Nat /\ taken <= end /\ end <= next_seq /\ (end = taken => taken = next_seq)
  BY <1>1
<1>3. NextBatch = taken..(end - 1)
  BY <1>1 DEF NextBatch, Queue
<1> HIDE DEF end
<1>4. Cardinality(taken..(end - 1)) = end - taken
  <2>1. taken \in Int /\ end - 1 \in Int
    BY <1>1, <1>2
  <2>2. Cardinality(taken..(end - 1)) = IF taken > end - 1 THEN 0 ELSE (end - 1) - taken + 1
    BY <2>1, FS_Interval
  <2> QED BY <1>1, <1>2, <2>2
<1>5. Cardinality(NextBatch) = end - taken
  BY <1>3, <1>4, Zenon
<1>6. taken + Cardinality(NextBatch) = end /\ taken + Cardinality(NextBatch) - 1 = end - 1
  BY <1>1, <1>2, <1>5
<1>7. NextBatch = taken..(taken + Cardinality(NextBatch) - 1)
  BY <1>3, <1>6, Zenon
<1>8. NextBatch = {} => taken = next_seq
  BY <1>1, <1>2, <1>3
<1> QED BY <1>2, <1>6, <1>7, <1>8

\* The three facts _finalize reads from the table leave no room for a gap.
LEMMA NoRoomForAGap ==
    ASSUME NEW last \in Int, last >= 0, stored \subseteq 0..last, Contiguous(last)
    PROVE  stored = 0..last
<1>1. IsFiniteSet(0..last) /\ Cardinality(0..last) = last + 1
  BY FS_Interval
<1>2. Cardinality(stored) = Cardinality(0..last)
  BY <1>1 DEF Contiguous
<1> QED BY <1>1, <1>2, FS_Subset

----------------------------------------------------------------------------
LEMMA InitIInv == Init => IInv
<1> SUFFICES ASSUME Init PROVE IInv
  OBVIOUS
<1> USE BoundsAssumption DEF Init
<1>1. TypeOK
  <2>1. up \in BOOLEAN /\ go \in BOOLEAN /\ halfway \in BOOLEAN /\ terminal \in BOOLEAN
        /\ termSeen \in BOOLEAN
    BY Zenon
  <2>2. tick \in 0..MaxTicks /\ next_seq \in Nat /\ taken \in Nat
    OBVIOUS
  <2> QED BY <2>1, <2>2 DEF TypeOK
<1>2. Life BY DEF Life
<1>3. OneStops BY DEF OneStops
<1>4. Ledger BY DEF Ledger
<1>5. Final BY DEF Final, Finalizing
<1> QED BY <1>1, <1>2, <1>3, <1>4, <1>5 DEF IInv

----------------------------------------------------------------------------
\* TypeOK in the pieces the steps preserve one by one.
Flags ==
    /\ up \in BOOLEAN /\ go \in BOOLEAN /\ halfway \in BOOLEAN
    /\ terminal \in BOOLEAN /\ termSeen \in BOOLEAN

Places ==
    /\ status \in {"running", "paused", "finished", "stopped"}
    /\ loop \in {"ready", "waiting", "woken", "gateway", "cancelling", "done", "failed"}
    /\ stopper \in [Stopper -> {"idle", "stopping", "waiting", "returned", "raised"}]
    /\ writer \in {"off", "waiting", "writing", "finalizing", "updating", "closed"}

Counts ==
    /\ tick \in 0..MaxTicks /\ next_seq \in Nat /\ taken \in Nat
    /\ stoppedAt \subseteq Nat /\ batch \subseteq Nat
    /\ stored \subseteq Nat /\ lost \subseteq Nat

Rows == summary \in Outcome \cup {None} /\ row \in Outcome \cup {None}

LEMMA TypeOKSplit == TypeOK <=> Flags /\ Places /\ Counts /\ Rows
  BY DEF TypeOK, Flags, Places, Counts, Rows

LEMMA FlagsStep == Flags /\ [Next]_vars => Flags'
<1> SUFFICES ASSUME Flags, [Next]_vars PROVE Flags'
  OBVIOUS
<1> USE DEF Flags, loopVars, streamVars, writerVars, dbVars
<1>1. CASE Pause \/ Resume
  BY <1>1, Zenon DEF Pause, Resume
<1>2. CASE Finish \/ WaitForResume \/ RunTick \/ CallModels
  BY <1>2, Zenon DEF Finish, WaitForResume, RunTick, CallModels
<1>3. CASE ModelsAnswer \/ ModelsRaise \/ Cancelled
  BY <1>3, Zenon DEF ModelsAnswer, ModelsRaise, Cancelled
<1>4. ASSUME NEW s \in Stopper, Stop(s) PROVE Flags'
  BY <1>4, Zenon DEF Stop, StopFinished, FirstStop, StopAgain
<1>5. ASSUME NEW s \in Stopper, StopEnds(s) PROVE Flags'
  BY <1>5, Zenon DEF StopEnds, StopPublishes, StopAgainReturns
<1>6. CASE Drain \/ WriteBatch \/ WriteFails
  BY <1>6, Zenon DEF Drain, WriteBatch, WriteFails
<1>7. CASE CheckComplete \/ UpdateRow \/ FinalizeFails
  BY <1>7, Zenon DEF CheckComplete, UpdateRow, FinalizeFails
<1>8. CASE Die
  BY <1>8, Zenon DEF Die
<1>9. CASE UNCHANGED vars
  BY <1>9, Zenon DEF vars
<1> QED BY <1>1, <1>2, <1>3, <1>4, <1>5, <1>6, <1>7, <1>8, <1>9 DEF Next, LoopStep, WriterStep

LEMMA PlacesStep == Places /\ [Next]_vars => Places'
<1> SUFFICES ASSUME Places, [Next]_vars PROVE Places'
  OBVIOUS
<1> USE DEF Places, loopVars, streamVars, writerVars, dbVars
<1>1. CASE Pause \/ Resume
  BY <1>1 DEF Pause, Resume
<1>2. CASE Finish \/ WaitForResume \/ RunTick \/ CallModels
  BY <1>2 DEF Finish, WaitForResume, RunTick, CallModels
<1>3. CASE ModelsAnswer \/ ModelsRaise \/ Cancelled
  BY <1>3 DEF ModelsAnswer, ModelsRaise, Cancelled
<1>4. ASSUME NEW s \in Stopper, Stop(s) PROVE Places'
  BY <1>4 DEF Stop, StopFinished, FirstStop, StopAgain
<1>5. ASSUME NEW s \in Stopper, StopEnds(s) PROVE Places'
  BY <1>5 DEF StopEnds, StopPublishes, StopAgainReturns
<1>6. CASE Drain \/ WriteBatch \/ WriteFails
  BY <1>6 DEF Drain, WriteBatch, WriteFails, AfterWrite, Finalize, Await
<1>7. CASE CheckComplete \/ UpdateRow \/ FinalizeFails
  BY <1>7 DEF CheckComplete, UpdateRow, FinalizeFails
<1>8. CASE Die
  BY <1>8 DEF Die
<1>9. CASE UNCHANGED vars
  BY <1>9 DEF vars
<1> QED BY <1>1, <1>2, <1>3, <1>4, <1>5, <1>6, <1>7, <1>8, <1>9 DEF Next, LoopStep, WriterStep

\* A tick begins only below MaxTicks: a loop that was paused remembers it from before.
LEMMA CountsStep == IInv /\ [Next]_vars => Counts'
<1> SUFFICES ASSUME IInv, [Next]_vars PROVE Counts'
  OBVIOUS
<1>0. Counts
  BY TypeOKSplit DEF IInv
<1> USE <1>0, BoundsAssumption DEF Counts, loopVars, streamVars, writerVars, dbVars
<1>1. CASE Pause \/ Resume \/ Finish \/ WaitForResume
  BY <1>1 DEF Pause, Resume, Finish, WaitForResume
<1>2. CASE RunTick \/ CallModels
  <2>1. tick + 1 \in 0..MaxTicks
    BY <1>2 DEF RunTick, CallModels, MayTick, IInv, Life
  <2>2. next_seq' \in Nat
    BY <1>2 DEF RunTick, CallModels, Publish
  <2>3. UNCHANGED <<taken, stoppedAt, batch, stored, lost>> /\ tick' = tick + 1
    BY <1>2 DEF RunTick, CallModels
  <2> QED BY <2>1, <2>2, <2>3
<1>3. CASE ModelsAnswer \/ ModelsRaise \/ Cancelled
  <2>1. next_seq' \in Nat
    BY <1>3 DEF ModelsAnswer, ModelsRaise, Cancelled, Publish
  <2>2. UNCHANGED <<tick, taken, stoppedAt, batch, stored, lost>>
    BY <1>3 DEF ModelsAnswer, ModelsRaise, Cancelled
  <2> QED BY <2>1, <2>2
<1>4. ASSUME NEW s \in Stopper, Stop(s) PROVE Counts'
  BY <1>4 DEF Stop, StopFinished, FirstStop, StopAgain
<1>5. ASSUME NEW s \in Stopper, StopEnds(s) PROVE Counts'
  <2>1. next_seq' \in Nat
    BY <1>5 DEF StopEnds, StopPublishes, StopAgainReturns, Publish
  <2>3. stoppedAt' = stoppedAt \/ stoppedAt' = stoppedAt \cup {next_seq}
    BY <1>5, Zenon DEF StopEnds, StopPublishes, StopAgainReturns
  <2>2. UNCHANGED <<tick, taken, batch, stored, lost>>
    BY <1>5 DEF StopEnds, StopPublishes, StopAgainReturns
  <2> QED BY <2>1, <2>2, <2>3
<1>6. CASE Drain
  <2>1. NextBatch \subseteq Nat
    BY DEF NextBatch, Queue
  <2>2. taken + Cardinality(NextBatch) \in Nat
    BY PrefixTaken DEF IInv, Ledger
  <2> QED BY <1>6, <2>1, <2>2 DEF Drain
<1>7. CASE WriteBatch \/ WriteFails
  BY <1>7 DEF WriteBatch, WriteFails
<1>8. CASE CheckComplete \/ UpdateRow \/ FinalizeFails
  BY <1>8 DEF CheckComplete, UpdateRow, FinalizeFails
<1>9. CASE Die
  BY <1>9 DEF Die
<1>10. CASE UNCHANGED vars
  BY <1>10 DEF vars
<1> QED BY <1>1, <1>2, <1>3, <1>4, <1>5, <1>6, <1>7, <1>8, <1>9, <1>10
        DEF Next, LoopStep, WriterStep

LEMMA RowsStep == IInv /\ [Next]_vars => Rows'
<1> SUFFICES ASSUME IInv, [Next]_vars PROVE Rows'
  OBVIOUS
<1>0. Rows /\ Places /\ Counts
  BY TypeOKSplit DEF IInv
<1>1. Summary \in Outcome
  BY <1>0, BoundsAssumption DEF Summary, Outcome, Places, Counts
<1> USE <1>0 DEF Rows, loopVars, streamVars, writerVars, dbVars
<1>2. CASE Pause \/ Resume \/ Finish \/ WaitForResume \/ RunTick \/ CallModels
  BY <1>2 DEF Pause, Resume, Finish, WaitForResume, RunTick, CallModels
<1>3. CASE ModelsAnswer \/ ModelsRaise \/ Cancelled
  BY <1>3 DEF ModelsAnswer, ModelsRaise, Cancelled
<1>4. ASSUME NEW s \in Stopper, Stop(s) \/ StopEnds(s) PROVE Rows'
  BY <1>4 DEF Stop, StopFinished, FirstStop, StopAgain, StopEnds, StopPublishes, StopAgainReturns
<1>5. CASE Drain \/ WriteBatch \/ WriteFails
  BY <1>1, <1>5 DEF Drain, WriteBatch, WriteFails, AfterWrite, Finalize, Await
<1>6. CASE CheckComplete
  <2>1. summary \in Outcome
    BY <1>6 DEF CheckComplete, IInv, Final, Finalizing
  <2>2. Contiguous(summary.last_seq) \in BOOLEAN
    BY DEF Contiguous
  <2> QED BY <1>6, <2>1, <2>2 DEF CheckComplete, Outcome
<1>7. CASE UpdateRow \/ FinalizeFails \/ Die
  BY <1>7 DEF UpdateRow, FinalizeFails, Die
<1>8. CASE UNCHANGED vars
  BY <1>8 DEF vars
<1> QED BY <1>2, <1>3, <1>4, <1>5, <1>6, <1>7, <1>8 DEF Next, LoopStep, WriterStep

LEMMA TypeStep == IInv /\ [Next]_vars => TypeOK'
<1>1. TypeOK' <=> Flags' /\ Places' /\ Counts' /\ Rows'
  BY DEF TypeOK, Flags, Places, Counts, Rows
<1>2. IInv => Flags /\ Places
  BY TypeOKSplit DEF IInv
<1> QED BY <1>1, <1>2, FlagsStep, PlacesStep, CountsStep, RowsStep

----------------------------------------------------------------------------
\* Who may publish.
LEMMA LifeStep == IInv /\ [Next]_vars => Life' /\ OneStops'
<1> SUFFICES ASSUME IInv, [Next]_vars PROVE Life' /\ OneStops'
  OBVIOUS
<1>0. Flags /\ Places /\ Counts
  BY TypeOKSplit DEF IInv
<1> USE <1>0 DEF IInv, Life, OneStops, Places, Counts, loopVars, streamVars
<1>1. CASE Pause \/ Resume
  BY <1>1 DEF Pause, Resume
<1>2. CASE Finish \/ WaitForResume
  BY <1>2 DEF Finish, WaitForResume
<1>3. CASE RunTick \/ CallModels
  BY <1>3 DEF RunTick, CallModels, MayTick, Publish
<1>4. CASE ModelsAnswer \/ ModelsRaise \/ Cancelled
  BY <1>4 DEF ModelsAnswer, ModelsRaise, Cancelled, Publish
<1>5. ASSUME NEW s \in Stopper, StopFinished(s) \/ StopAgain(s) \/ StopAgainReturns(s)
      PROVE Life' /\ OneStops'
  BY <1>5 DEF StopFinished, StopAgain, StopAgainReturns
<1>6. ASSUME NEW s \in Stopper, FirstStop(s) PROVE Life' /\ OneStops'
  BY <1>6 DEF FirstStop
<1>7. ASSUME NEW s \in Stopper, StopPublishes(s) PROVE Life' /\ OneStops'
  BY <1>7 DEF StopPublishes, Publish
<1>8. CASE WriterStep \/ Die
  BY <1>8 DEF WriterStep, Drain, WriteBatch, WriteFails, CheckComplete, UpdateRow, FinalizeFails, Die
<1>9. CASE UNCHANGED vars
  BY <1>9 DEF vars
<1> QED BY <1>1, <1>2, <1>3, <1>4, <1>5, <1>6, <1>7, <1>8, <1>9
        DEF Next, LoopStep, Stop, StopEnds

----------------------------------------------------------------------------
\* What the runner and the requests do does not touch the writer, and the events they
\* publish are only added to its queue.
RunnerStep ==
    \/ Pause \/ Resume \/ LoopStep \/ \E s \in Stopper : Stop(s) \/ StopEnds(s)

LEMMA RunnerFrame ==
    ASSUME IInv, RunnerStep
    PROVE  /\ UNCHANGED <<up, taken, batch, termSeen, summary, stored, lost, row, writer>>
           /\ next_seq' \in Nat /\ next_seq <= next_seq' /\ (terminal => terminal')
           /\ terminal => UNCHANGED <<status, tick, next_seq>>
<1>0. Flags /\ Places /\ Counts /\ Life /\ OneStops
  BY TypeOKSplit DEF IInv
<1> USE <1>0 DEF Life, OneStops, Places, Counts, loopVars, streamVars, writerVars, dbVars
<1>1. CASE Pause \/ Resume \/ Finish \/ WaitForResume
  BY <1>1 DEF Pause, Resume, Finish, WaitForResume
<1>2. CASE RunTick \/ CallModels
  BY <1>2 DEF RunTick, CallModels, MayTick, Publish
<1>3. CASE ModelsAnswer \/ ModelsRaise \/ Cancelled
  BY <1>3 DEF ModelsAnswer, ModelsRaise, Cancelled, Publish
<1>4. ASSUME NEW s \in Stopper, Stop(s)
      PROVE  /\ UNCHANGED <<up, taken, batch, termSeen, summary, stored, lost, row, writer>>
             /\ UNCHANGED <<terminal, tick, next_seq>>
             /\ terminal => UNCHANGED status
  BY <1>4 DEF Stop, StopFinished, FirstStop, StopAgain
<1>5. ASSUME NEW s \in Stopper, StopEnds(s)
      PROVE  /\ UNCHANGED <<up, taken, batch, termSeen, summary, stored, lost, row, writer>>
             /\ next_seq' \in Nat /\ next_seq <= next_seq' /\ (terminal => terminal')
             /\ terminal => UNCHANGED <<status, tick, next_seq>>
  <2>1. UNCHANGED <<up, status, tick, taken, batch, termSeen, summary, stored, lost, row, writer>>
    BY <1>5 DEF StopEnds, StopPublishes, StopAgainReturns
  <2>2. CASE StopPublishes(s)
    <3>1. ~terminal
      BY <2>2 DEF StopPublishes
    <3>2. next_seq' = next_seq + 1
      BY <2>2 DEF StopPublishes, Publish
    <3> QED BY <2>1, <3>1, <3>2
  <2>3. CASE StopAgainReturns(s)
    BY <2>1, <2>3 DEF StopAgainReturns
  <2> QED BY <1>5, <2>2, <2>3 DEF StopEnds
<1> QED BY <1>1, <1>2, <1>3, <1>4, <1>5 DEF RunnerStep, LoopStep

LEMMA LedgerStep == IInv /\ [Next]_vars => Ledger'
<1> SUFFICES ASSUME IInv, [Next]_vars PROVE Ledger'
  OBVIOUS
<1>0. Flags /\ Places /\ Counts /\ Ledger
  BY TypeOKSplit DEF IInv
<1> USE <1>0 DEF Ledger, Counts, streamVars
<1>1. CASE RunnerStep
  BY <1>1, RunnerFrame
<1>2. CASE Drain
  <2>1. /\ taken' = taken + Cardinality(NextBatch) /\ batch' = NextBatch
        /\ UNCHANGED <<next_seq, terminal, stored, lost>>
        /\ writer' # "writing" => NextBatch = {}
        /\ termSeen' => terminal
    BY <1>2 DEF Drain, Woken, Finalize, dbVars
  <2>2. batch = {}
    BY <1>2 DEF Drain
  <2>3. taken..(taken' - 1) = NextBatch /\ taken' \in Nat /\ taken <= taken' /\ taken' <= next_seq
    <3> DEFINE c == Cardinality(NextBatch)
    <3>1. IsFiniteSet(NextBatch)
      <4>1. NextBatch \subseteq taken..(next_seq - 1)
        BY DEF NextBatch, Queue
      <4>2. taken \in Int /\ next_seq - 1 \in Int
        OBVIOUS
      <4>3. IsFiniteSet(taken..(next_seq - 1))
        BY <4>2, FS_Interval
      <4> QED BY <4>1, <4>3, FS_Subset
    <3>2. c \in Nat
      BY <3>1, FS_CardinalityType
    <3>3. taken + c <= next_seq /\ NextBatch = taken..(taken + c - 1)
      BY PrefixTaken DEF IInv
    <3>4. taken' = taken + c
      BY <2>1
    <3> HIDE DEF c
    <3> QED BY <3>2, <3>3, <3>4
  <2> QED BY <2>1, <2>2, <2>3
<1>3. CASE WriteBatch \/ WriteFails
  BY <1>3 DEF WriteBatch, WriteFails, AfterWrite, Finalize, Await
<1>4. CASE CheckComplete \/ UpdateRow \/ FinalizeFails
  BY <1>4 DEF CheckComplete, UpdateRow, FinalizeFails, dbVars
<1>5. CASE Die
  BY <1>5 DEF Die, writerVars
<1>6. CASE UNCHANGED vars
  BY <1>6 DEF vars, writerVars, dbVars
<1> QED BY <1>1, <1>2, <1>3, <1>4, <1>5, <1>6 DEF Next, RunnerStep, WriterStep

LEMMA FinalStep == IInv /\ [Next]_vars => Final'
<1> SUFFICES ASSUME IInv, [Next]_vars PROVE Final'
  OBVIOUS
<1>0. Flags /\ Places /\ Counts /\ Ledger /\ Final /\ TypeOK /\ Life
  BY TypeOKSplit DEF IInv
<1>a. Summary \in Outcome /\ Summary.status = status /\ Summary.sim_tick = tick
      /\ Summary.last_seq = next_seq - 1 /\ Summary.is_complete = FALSE
  BY <1>0, BoundsAssumption DEF Summary, Outcome, Places, Counts
<1> USE <1>0 DEF Final, Finalizing, Counts, streamVars, loopVars
<1>1. CASE RunnerStep
  <2>1. /\ UNCHANGED <<up, taken, batch, summary, stored, row, writer>>
        /\ terminal => terminal' /\ UNCHANGED <<status, tick, next_seq>>
    BY <1>1, RunnerFrame
  <2>2. CASE terminal
    BY <2>1, <2>2
  <2>3. CASE ~terminal
    BY <2>1, <2>3
  <2> QED BY <2>2, <2>3
<1>2. CASE Drain
  <2>1. row = None
    BY <1>2 DEF Drain
  <2>2. CASE NextBatch = {}
    <3>1. taken = next_seq /\ Cardinality(NextBatch) = 0
      BY <2>2, PrefixTaken, FS_EmptySet DEF Ledger
    <3>2. Queue = {}
      BY <3>1 DEF Queue
    <3>3. terminal /\ batch' = {} /\ taken' = next_seq /\ writer' = "finalizing"
          /\ summary' = Summary /\ UNCHANGED <<terminal, next_seq, status, tick, row>>
      BY <1>2, <2>2, <3>1, <3>2 DEF Drain, Woken, Finalize, dbVars
    <3> QED BY <1>a, <2>1, <3>3
  <2>3. CASE NextBatch # {}
    BY <1>2, <2>1, <2>3 DEF Drain, dbVars
  <2> QED BY <2>2, <2>3
<1>3. CASE WriteBatch \/ WriteFails
  <2>1. row = None /\ row' = None
    BY <1>3 DEF WriteBatch, WriteFails
  <2>2. CASE termSeen /\ Queue = {}
    <3>1. taken = next_seq
      BY <2>2 DEF Queue, Ledger
    <3>2. terminal /\ batch' = {} /\ writer' = "finalizing" /\ summary' = Summary
          /\ UNCHANGED <<terminal, taken, next_seq, status, tick>>
      BY <1>3, <2>2 DEF WriteBatch, WriteFails, AfterWrite, Finalize, Ledger
    <3> QED BY <1>a, <2>1, <3>1, <3>2
  <2>3. CASE ~(termSeen /\ Queue = {})
    BY <1>3, <2>1, <2>3 DEF WriteBatch, WriteFails, AfterWrite, Await
  <2> QED BY <2>2, <2>3
<1>4. CASE CheckComplete
  <2>1. stored \subseteq 0..(next_seq - 1) /\ next_seq - 1 \in Int /\ next_seq - 1 >= 0
    BY <1>4 DEF CheckComplete, Ledger, Life
  <2>2. Contiguous(next_seq - 1) => stored = 0..(next_seq - 1)
    BY <2>1, NoRoomForAGap
  <2>3. summary' = [summary EXCEPT !.is_complete = Contiguous(next_seq - 1)]
    BY <1>4 DEF CheckComplete
  <2>4. summary' \in Outcome /\ summary'.status = status /\ summary'.sim_tick = tick
        /\ summary'.last_seq = next_seq - 1
        /\ (summary'.is_complete => stored = 0..(next_seq - 1))
    BY <1>4, <2>2, <2>3 DEF CheckComplete, Outcome, Contiguous
  <2> QED BY <1>4, <2>4 DEF CheckComplete, dbVars
<1>5. CASE UpdateRow \/ FinalizeFails
  BY <1>5 DEF UpdateRow, FinalizeFails, dbVars
<1>6. CASE Die
  BY <1>6 DEF Die, writerVars
<1>7. CASE UNCHANGED vars
  BY <1>7 DEF vars, writerVars, dbVars
<1> QED BY <1>1, <1>2, <1>3, <1>4, <1>5, <1>6, <1>7 DEF Next, RunnerStep, WriterStep

----------------------------------------------------------------------------
\* The inductive invariant holds in every reachable state.
THEOREM RunSafe == Spec => []IInv
<1>1. IInv /\ [Next]_vars => IInv'
  BY TypeStep, LifeStep, LedgerStep, FinalStep DEF IInv
<1> QED BY InitIInv, <1>1, PTL DEF Spec

\* Every state of a run has the declared types; in particular tick <= max_ticks, also
\* for a loop that was paused between the test and the tick.
THEOREM RunTypeCorrect == Spec => []TypeOK
<1>1. IInv => TypeOK
  BY DEF IInv
<1> QED BY <1>1, RunSafe, PTL

\* However many requests stop a run, EXPERIMENT_STOPPED is published once and last
\* (runner.py:116-142).
THEOREM OneStoppedEvent == Spec => []StoppedIsTheLastEvent
<1>1. IInv => StoppedIsTheLastEvent
  BY DEF IInv, Life, StoppedIsTheLastEvent
<1> QED BY <1>1, RunSafe, PTL

\* A finalized run has no event left in the queue, whatever its length and the batch
\* cap (writer.py:138-149).
THEOREM QueueIsDrained == Spec => []NothingIsLeftBehind
<1>1. IInv => NothingIsLeftBehind
  BY DEF IInv, Ledger, Final, NothingIsLeftBehind
<1> QED BY <1>1, RunSafe, PTL

\* is_complete on a row means that every event of the run is stored, whichever
\* batches failed and wherever the process died (writer.py:182-214).
THEOREM CompleteIsComplete == Spec => []CompleteMeansEverything
<1>1. IInv => CompleteMeansEverything
  BY DEF IInv, Final, CompleteMeansEverything
<1> QED BY <1>1, RunSafe, PTL

\* The row of a run tells how it ended.
THEOREM RowIsTheEnd == Spec => []RowTellsTheEnd
<1>1. IInv => RowTellsTheEnd
  <2> SUFFICES ASSUME IInv, row # None PROVE RowTellsTheEnd
    BY DEF RowTellsTheEnd
  <2>1. terminal /\ row.status = status /\ row.sim_tick = tick /\ row.last_seq = next_seq - 1
    BY DEF IInv, Final
  <2>2. status \in {"finished", "stopped"}
    BY <2>1 DEF IInv, Life
  <2> QED BY <2>1, <2>2 DEF RowTellsTheEnd
<1> QED BY <1>1, RunSafe, PTL

\* After the terminal signal the run never changes again.
THEOREM EndIsFinal == Spec => TheEndIsFinal
<1>1. IInv /\ [Next]_vars /\ terminal => UNCHANGED <<status, tick, next_seq, stoppedAt, terminal>>
  <2> SUFFICES ASSUME IInv, [Next]_vars, terminal
               PROVE  UNCHANGED <<status, tick, next_seq, stoppedAt, terminal>>
    OBVIOUS
  <2>1. CASE RunnerStep
    <3>1. UNCHANGED <<status, tick, next_seq>> /\ terminal'
      BY <2>1, RunnerFrame
    <3>2. stoppedAt' = stoppedAt
      <4>1. \A s \in Stopper : ~StopPublishes(s)
        BY DEF IInv, Life, OneStops, StopPublishes
      <4> QED BY <2>1, <4>1 DEF RunnerStep, LoopStep, Pause, Resume, Finish, WaitForResume, RunTick,
                CallModels, ModelsAnswer, ModelsRaise, Cancelled, Stop, StopEnds, StopFinished,
                FirstStop, StopAgain, StopAgainReturns, streamVars
    <3>3. terminal' = terminal
      BY <3>1, TypeStep, Zenon DEF IInv, TypeOK
    <3> QED BY <3>1, <3>2, <3>3
  <2>2. CASE WriterStep \/ Die
    BY <2>2 DEF WriterStep, Drain, WriteBatch, WriteFails, CheckComplete, UpdateRow,
                FinalizeFails, Die, loopVars, streamVars
  <2>3. CASE UNCHANGED vars
    BY <2>3 DEF vars, loopVars, streamVars
  <2> QED BY <2>1, <2>2, <2>3 DEF Next, RunnerStep
<1>2. IInv /\ [Next]_vars =>
        [terminal => UNCHANGED <<status, tick, next_seq, stoppedAt, terminal>>]_vars
  BY <1>1
<1> QED BY <1>2, RunSafe, PTL DEF Spec, TheEndIsFinal
============================================================================
