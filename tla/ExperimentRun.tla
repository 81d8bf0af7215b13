---------------------------- MODULE ExperimentRun ----------------------------
(***************************************************************************)
(* One experiment from its creation to its row in the database: the tick   *)
(* loop of ExperimentRunner, the pause, resume and stop requests that reach *)
(* it between two awaits, and the PostgresWriter that drains its events.   *)
(*                                                                         *)
(* The tasks share one asyncio event loop: an action is what a task does   *)
(* from one await to the next.  bus.publish() awaits nothing, so emitting  *)
(* and publishing is one step.  The events are 0 .. next_seq - 1; those a  *)
(* writer has not taken from its queue yet are taken .. next_seq - 1.      *)
(***************************************************************************)
EXTENDS Integers, FiniteSets

CONSTANTS
    Stopper,        \* POST /stop requests
    HasGateway,     \* real agents: a tick awaits model calls
    MaxTicks,       \* max_ticks
    MaxDrafts,      \* bound on the events of one tick
    DrainBatchCap,  \* DRAIN_BATCH_CAP
    None

ASSUME BoundsAssumption ==
    /\ HasGateway \in BOOLEAN
    /\ MaxTicks \in Nat /\ MaxDrafts \in Nat
    /\ DrainBatchCap \in Nat \ {0}

VARIABLES
    up,         \* the process is alive
    status,     \* runner.status
    go,         \* _pause_event is set
    loop,       \* where the task of _run_loop is
    tick,       \* state.tick
    halfway,    \* state is ahead by a tick whose real-agent half has not run
    next_seq,   \* _emitter._next_seq
    stoppedAt,  \* the seqs of the EXPERIMENT_STOPPED events
    terminal,   \* _terminal_event is set
    stopper,    \* where each stop request is
    writer,     \* where the drain task is
    taken,      \* the events the writer has taken from its queue
    batch,      \* the batch it is writing
    termSeen,   \* term_task in done, for that batch
    summary,    \* the row it is about to write, as far as it is known
    stored,     \* seqs in experiment_events
    lost,       \* seqs of the batches logged as failed
    row         \* the outcome in experiments; None while final_status IS NULL

loopVars   == <<go, loop, tick, halfway>>
streamVars == <<next_seq, stoppedAt, terminal>>
writerVars == <<writer, taken, batch, termSeen, summary>>
dbVars     == <<stored, lost, row>>
vars == <<up, status, stopper, loopVars, streamVars, writerVars, dbVars>>

Queue == taken..(next_seq - 1)

Publish(n) == next_seq' = next_seq + n

----------------------------------------------------------------------------
\* create_experiment has returned: the first event is published, and a writer
\* has subscribed before it, unless there is no pool or its insert failed.
Init ==
    /\ up = TRUE /\ status = "running" /\ go = TRUE /\ loop = "ready"
    /\ tick = 0 /\ halfway = FALSE
    /\ next_seq = 1 /\ stoppedAt = {} /\ terminal = FALSE
    /\ stopper = [s \in Stopper |-> "idle"]
    /\ writer \in {"waiting", "off"} /\ taken = 0 /\ batch = {} /\ termSeen = FALSE
    /\ summary = None /\ stored = {} /\ lost = {} /\ row = None

(* The control requests: each runs to completion without an await. *)

Pause ==
    /\ up /\ status = "running"
    /\ status' = "paused" /\ go' = FALSE
    /\ UNCHANGED <<up, stopper, loop, tick, halfway, streamVars, writerVars, dbVars>>

\* Setting the event schedules the task that waits for it.
Resume ==
    /\ up /\ status = "paused"
    /\ status' = "running" /\ go' = TRUE
    /\ loop' = IF loop = "waiting" THEN "woken" ELSE loop
    /\ UNCHANGED <<up, stopper, tick, halfway, streamVars, writerVars, dbVars>>

----------------------------------------------------------------------------
(* _run_loop.  "ready": before the while, at first or after the sleep.     *)
(* is_finished is max_ticks or the state of the network, a free choice.    *)

Finish ==
    /\ up /\ loop = "ready"
    /\ status' = "finished" /\ terminal' = TRUE /\ loop' = "done"
    /\ UNCHANGED <<up, stopper, go, tick, halfway, next_seq, stoppedAt, writerVars, dbVars>>

WaitForResume ==
    /\ up /\ loop = "ready" /\ tick < MaxTicks /\ ~go
    /\ loop' = "waiting"
    /\ UNCHANGED <<up, status, stopper, go, tick, halfway, streamVars, writerVars, dbVars>>

\* Variant: the loop does not ask is_finished again.
MayTickForEver == loop \in {"woken", "ready"} /\ (loop = "ready" => go)

\* Past the pause: Event.wait() does not look at the event again when it wakes.
MayTick == loop = "woken" \/ (loop = "ready" /\ tick < MaxTicks /\ go)

\* advance() and no model call to wait for: the tick's events are published.
RunTick ==
    /\ up /\ MayTick
    /\ tick' = tick + 1 /\ loop' = "ready"
    /\ \E n \in 0..MaxDrafts : Publish(n)
    /\ UNCHANGED <<up, status, stopper, go, halfway, stoppedAt, terminal, writerVars, dbVars>>

\* advance(), and then run_async_scenarios awaits the gateway.
CallModels ==
    /\ HasGateway /\ up /\ MayTick
    /\ tick' = tick + 1 /\ halfway' = TRUE /\ loop' = "gateway"
    /\ UNCHANGED <<up, status, stopper, go, streamVars, writerVars, dbVars>>

ModelsAnswer ==
    /\ up /\ loop = "gateway"
    /\ halfway' = FALSE /\ loop' = "ready"
    /\ \E n \in 0..MaxDrafts : Publish(n)
    /\ UNCHANGED <<up, status, stopper, go, tick, stoppedAt, terminal, writerVars, dbVars>>

\* An answer without text fails a type check that complete() does not catch.
ModelsRaise ==
    /\ up /\ loop = "gateway"
    /\ loop' = "failed"
    /\ UNCHANGED <<up, status, stopper, go, tick, halfway, streamVars, writerVars, dbVars>>

\* Cancellation wins over whatever the task was about to do.
Cancelled ==
    /\ up /\ loop = "cancelling"
    /\ loop' = "done"
    /\ UNCHANGED <<up, status, stopper, go, tick, halfway, streamVars, writerVars, dbVars>>

----------------------------------------------------------------------------
(* stop() *)

Ended == loop \in {"done", "failed"}

StopFinished(s) ==
    /\ up /\ stopper[s] = "idle" /\ status = "finished"
    /\ stopper' = [stopper EXCEPT ![s] = "returned"]
    /\ UNCHANGED <<up, status, loopVars, streamVars, writerVars, dbVars>>

\* Variant: _running is cleared, and the task left to notice.
FirstStopWithoutCancel(s) ==
    /\ up /\ stopper[s] = "idle" /\ status \in {"running", "paused"}
    /\ status' = "stopped"
    /\ stopper' = [stopper EXCEPT ![s] = IF loop = "failed" THEN "raised" ELSE "stopping"]
    /\ loop' = IF loop = "ready" THEN "cancelling" ELSE loop
    /\ UNCHANGED <<up, go, tick, halfway, streamVars, writerVars, dbVars>>

\* Variant: whoever finds the run not finished publishes EXPERIMENT_STOPPED.
EveryStopPublishes(s) ==
    /\ up /\ stopper[s] = "idle" /\ status # "finished"
    /\ status' = "stopped"
    /\ stopper' = [stopper EXCEPT ![s] = IF loop = "failed" THEN "raised" ELSE "stopping"]
    /\ loop' = IF Ended THEN loop ELSE "cancelling"
    /\ UNCHANGED <<up, go, tick, halfway, streamVars, writerVars, dbVars>>

\* The first stop cancels the loop and awaits it; awaiting a task that failed
\* raises at once.
FirstStop(s) ==
    /\ up /\ stopper[s] = "idle" /\ status \in {"running", "paused"}
    /\ status' = "stopped"
    /\ stopper' = [stopper EXCEPT ![s] = IF loop = "failed" THEN "raised" ELSE "stopping"]
    /\ loop' = IF loop = "failed" THEN "failed" ELSE "cancelling"
    /\ UNCHANGED <<up, go, tick, halfway, streamVars, writerVars, dbVars>>

\* A later one awaits the same task, if there still is one to wait for.
StopAgain(s) ==
    /\ up /\ stopper[s] = "idle" /\ status = "stopped"
    /\ stopper' = [stopper EXCEPT ![s] = CASE loop = "failed" -> "raised"
                                           [] loop = "done"   -> "returned"
                                           [] OTHER           -> "waiting"]
    /\ UNCHANGED <<up, status, loopVars, streamVars, writerVars, dbVars>>

StopPublishes(s) ==
    /\ up /\ stopper[s] = "stopping" /\ loop = "done"
    /\ Publish(1) /\ stoppedAt' = stoppedAt \cup {next_seq} /\ terminal' = TRUE
    /\ stopper' = [stopper EXCEPT ![s] = "returned"]
    /\ UNCHANGED <<up, status, loopVars, writerVars, dbVars>>

\* The first to await the task is the first to run again.
StopAgainReturns(s) ==
    /\ up /\ stopper[s] = "waiting" /\ loop = "done"
    /\ \A t \in Stopper : stopper[t] # "stopping"
    /\ stopper' = [stopper EXCEPT ![s] = "returned"]
    /\ UNCHANGED <<up, status, loopVars, streamVars, writerVars, dbVars>>

Stop(s) ==
    \/ StopFinished(s) \/ FirstStop(s) \/ StopAgain(s)
StopEnds(s) ==
    \/ StopPublishes(s) \/ StopAgainReturns(s)

----------------------------------------------------------------------------
(* The drain loop of PostgresWriter *)

Summary == [status |-> status, sim_tick |-> tick, last_seq |-> next_seq - 1,
            is_complete |-> FALSE]

\* _finalize() begins: runner.summary(), then an await.
Finalize == writer' = "finalizing" /\ summary' = Summary

Await == writer' = "waiting" /\ UNCHANGED summary

\* Variant: the writer waits for events only.
TakesAnEvent(term) == (term => terminal) /\ Queue # {}

\* asyncio.wait returned: an event, or the terminal signal; the signal is a task
\* of its own, and may not have been seen although it is set.
Woken(term) == (term => terminal) /\ (Queue # {} \/ term)

\* One pass of the queue, of at most DRAIN_BATCH_CAP events.
NextBatch == {q \in Queue : q < taken + DrainBatchCap}

Drain ==
    /\ up /\ writer = "waiting"
    /\ \E term \in BOOLEAN :
         /\ Woken(term)
         /\ termSeen' = term
         /\ batch' = NextBatch
         /\ taken' = taken + Cardinality(NextBatch)
         /\ IF NextBatch = {} THEN Finalize
                              ELSE writer' = "writing" /\ UNCHANGED summary
    /\ UNCHANGED <<up, status, stopper, loopVars, streamVars, dbVars>>

AfterWrite == IF termSeen /\ Queue = {} THEN Finalize ELSE Await

WriteBatch ==
    /\ up /\ writer = "writing"
    /\ stored' = stored \cup batch /\ batch' = {}
    /\ AfterWrite
    /\ UNCHANGED <<up, status, stopper, loopVars, streamVars, taken, termSeen, lost, row>>

\* A failed batch is logged and skipped.
WriteFails ==
    /\ up /\ writer = "writing"
    /\ lost' = lost \cup batch /\ batch' = {}
    /\ AfterWrite
    /\ UNCHANGED <<up, status, stopper, loopVars, streamVars, taken, termSeen, stored, row>>

\* Variant: the last event is there.
HasTheLast(last) == last \in stored

\* cnt = last_seq + 1, lo = 0 and hi = last_seq.
Contiguous(last) ==
    /\ Cardinality(stored) = last + 1
    /\ 0 \in stored /\ last \in stored /\ \A q \in stored : 0 <= q /\ q <= last

CheckComplete ==
    /\ up /\ writer = "finalizing"
    /\ writer' = "updating"
    /\ summary' = [summary EXCEPT !.is_complete = Contiguous(summary.last_seq)]
    /\ UNCHANGED <<up, status, stopper, loopVars, streamVars, taken, batch, termSeen, dbVars>>

UpdateRow ==
    /\ up /\ writer = "updating"
    /\ row' = summary /\ writer' = "closed"
    /\ UNCHANGED <<up, status, stopper, loopVars, streamVars, taken, batch, termSeen, summary,
                   stored, lost>>

\* The query or the update fails: final_status stays NULL.
FinalizeFails ==
    /\ up /\ writer \in {"finalizing", "updating"}
    /\ writer' = "closed"
    /\ UNCHANGED <<up, status, stopper, loopVars, streamVars, taken, batch, termSeen, summary,
                   dbVars>>

\* The process dies, or shuts down and cancels its tasks; what the database is
\* doing may or may not have been committed.
Die ==
    /\ up /\ up' = FALSE
    /\ stored' \in {stored, stored \cup batch}
    /\ row' \in {row} \cup (IF writer = "updating" THEN {summary} ELSE {})
    /\ UNCHANGED <<status, stopper, loopVars, streamVars, writerVars, lost>>

----------------------------------------------------------------------------
LoopStep   == Finish \/ WaitForResume \/ RunTick \/ CallModels \/ ModelsAnswer
              \/ ModelsRaise \/ Cancelled
WriterStep == Drain \/ WriteBatch \/ WriteFails \/ CheckComplete \/ UpdateRow \/ FinalizeFails

Next ==
    \/ Pause \/ Resume \/ LoopStep \/ WriterStep \/ Die
    \/ \E s \in Stopper : Stop(s) \/ StopEnds(s)

Spec == Init /\ [][Next]_vars

\* The event loop runs every task that is ready, a model call ends by its timeout
\* and a query by an answer or an error.  Nobody has to send a request.
Fairness ==
    /\ WF_vars(LoopStep) /\ WF_vars(WriterStep)
    /\ \A s \in Stopper : WF_vars(StopEnds(s))

FairSpec == Spec /\ Fairness

----------------------------------------------------------------------------
(* Properties *)

Outcome == [status : {"running", "paused", "finished", "stopped"}, sim_tick : Nat,
            last_seq : Int, is_complete : BOOLEAN]

TypeOK ==
    /\ up \in BOOLEAN /\ status \in {"running", "paused", "finished", "stopped"}
    /\ go \in BOOLEAN /\ tick \in 0..MaxTicks /\ halfway \in BOOLEAN
    /\ loop \in {"ready", "waiting", "woken", "gateway", "cancelling", "done", "failed"}
    /\ next_seq \in Nat /\ stoppedAt \subseteq Nat /\ terminal \in BOOLEAN
    /\ stopper \in [Stopper -> {"idle", "stopping", "waiting", "returned", "raised"}]
    /\ writer \in {"off", "waiting", "writing", "finalizing", "updating", "closed"}
    /\ taken \in Nat /\ batch \subseteq Nat /\ termSeen \in BOOLEAN
    /\ summary \in Outcome \cup {None} /\ row \in Outcome \cup {None}
    /\ stored \subseteq Nat /\ lost \subseteq Nat

\* However many requests stop a run, EXPERIMENT_STOPPED is published once, it is the
\* last event, and the terminal signal comes after it (runner.py:46-51).
StoppedIsTheLastEvent ==
    /\ stoppedAt \subseteq {next_seq - 1}
    /\ terminal <=> (status = "finished" \/ stoppedAt # {})

\* No event of a finalized run is left in the queue: each is stored, or was in a
\* batch whose write failed.  Finalizing waits for the signal and for an empty queue
\* (writer.py:138-149), so it must not see the one before the other.
NothingIsLeftBehind == row # None => stored \cup lost = 0..(next_seq - 1)

\* "Provable, not inferred" (writer.py:190): is_complete on the row of a run says that
\* every event it ever published is stored.
CompleteMeansEverything ==
    row # None /\ row.is_complete => stored = 0..(next_seq - 1)

\* The row is written once and tells the end of the run: its status, tick and last
\* event are those the runner has from then on.
RowTellsTheEnd ==
    row # None =>
        /\ row.status = status /\ row.status \in {"finished", "stopped"}
        /\ row.sim_tick = tick /\ row.last_seq = next_seq - 1

\* Whatever requests are still under way, nothing happens to a run that has signalled
\* its end.
TheEndIsFinal ==
    [][terminal => UNCHANGED <<status, tick, next_seq, stoppedAt, terminal>>]_vars

\* Every stop request is answered, also one that comes while another waits for the
\* cancelled task (test_every_concurrent_stop_waits_for_task_settlement).
EveryStopIsAnswered ==
    \A s \in Stopper : stopper[s] # "idle" ~> stopper[s] \in {"returned", "raised"} \/ ~up

\* A writer whose run has ended finalizes it: the end is not an event, and a run that
\* ends with its queue empty must still wake the writer.
EveryEndIsFinalized == terminal ~> writer \in {"off", "closed"} \/ ~up

\* "A model outage degrades this attempt to a controlled failure, never the live run"
\* (gateway.py:43): a run that does not stay paused signals its end.
RunsEnd == []<>(status = "paused") \/ <>(terminal \/ ~up)

\* Replaying (seed, config) up to final_sim_tick gives "the exact historical final
\* state whether the run finished naturally or was stopped early" (engine/replay.py:7):
\* a replay runs both halves of every tick.
RowCanBeReplayed == row # None => ~halfway
============================================================================
