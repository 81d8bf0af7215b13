---------------------------- MODULE ModelGateway ----------------------------
(***************************************************************************)
(* The model gateway of one experiment (backend/app/gateway/gateway.py),   *)
(* called by the attempts that one tick gathers                            *)
(* (backend/app/agents/runtime.py) and cancelled when the run is stopped   *)
(* (backend/app/orchestrator/runner.py).                                   *)
(*                                                                         *)
(* Every caller is an asyncio task.  What it does between two awaits is    *)
(* one action: up to the semaphore, from its wake-up to the provider, from *)
(* the provider's answer to its end or its back-off.                       *)
(*                                                                         *)
(* asyncio.Semaphore (Python 3.12) is external.  `queue` are the waiters   *)
(* whose future is not done; a woken waiter owns its permit before it      *)
(* runs, and until it has run the semaphore counts as locked.              *)
(***************************************************************************)
EXTENDS Naturals, Sequences, FiniteSets

CONSTANTS
    Caller,           \* the attempts a tick may gather
    MaxConcurrency,   \* config.model_max_concurrency
    Budget,           \* config.model_max_requests_per_experiment
    MaxRetries,       \* config.model_max_retries
    MaxGathers        \* bound on the ticks that gather attempts

ASSUME CallerAssumption == IsFiniteSet(Caller)
ASSUME LimitAssumption  ==
    MaxConcurrency \in Nat \ {0} /\ {Budget, MaxRetries, MaxGathers} \subseteq Nat

VARIABLES
    call,         \* where each caller is
    cancelling,   \* the callers whose task was cancelled and has not run since
    queue,        \* Semaphore._waiters, without those whose future is done
    free,         \* Semaphore._value
    used,         \* requests_used
    attempt,      \* the loop variable of each caller
    calls,        \* the provider calls of the experiment
    round,        \* what the run's task awaits
    tick

semaphore == <<queue, free>>
run  == <<round, tick>>
vars == <<call, cancelling, semaphore, used, attempt, calls, run>>

Ended == {"idle", "answered", "none", "raised", "cancelled"}
Phase == Ended \cup {"new", "waiting", "woken", "calling", "backoff"}

----------------------------------------------------------------------------
\* locked(): a waiter that is woken and has not run yet still counts.
locked == free = 0 \/ queue # <<>> \/ \E c \in Caller : call[c] = "woken"

\* As many of the first waiters as there are permits for.
Most(permits) == IF permits < Len(queue) THEN permits ELSE Len(queue)

\* The semaphore has `permits`, and its first k waiters take one each.
Grant(states, permits, k) ==
    /\ free' = permits - k
    /\ queue' = SubSeq(queue, k + 1, Len(queue))
    /\ call' = [c \in Caller |-> IF \E i \in 1..k : queue[i] = c THEN "woken" ELSE states[c]]

\* acquire() ends, with the permit or cancelled: it wakes whom it can.
Acquired(states, permits) == Grant(states, permits, Most(permits))

\* release() wakes one.
release(c, how) ==
    Grant([call EXCEPT ![c] = how], free + 1, IF queue = <<>> THEN 0 ELSE 1)

\* Variant: except without async with: the permit stays with a caller that is gone.
KeepsThePermit(c) ==
    /\ call[c] = "calling" /\ c \notin cancelling
    /\ call' = [call EXCEPT ![c] = "raised"]
    /\ round' = IF round = "gathering" THEN "failed" ELSE round
    /\ UNCHANGED <<cancelling, semaphore, used, attempt, calls, tick>>

\* The request is counted and the provider called for the first time.
Counted(c) ==
    /\ used' = used + 1 /\ calls' = calls + 1
    /\ attempt' = [attempt EXCEPT ![c] = 0]

NotCounted == UNCHANGED <<used, calls, attempt>>

----------------------------------------------------------------------------
\* real_agent_step gathers one call per attempt of a tick.
Gather(attempts) ==
    /\ round = "idle" /\ tick < MaxGathers
    /\ call' = [c \in Caller |-> IF c \in attempts THEN "new" ELSE "idle"]
    /\ round' = "gathering" /\ tick' = tick + 1
    /\ UNCHANGED <<cancelling, semaphore, used, attempt, calls>>

\* A caller comes to the semaphore: it waits, is refused, or goes on to the provider.
Queues(c) ==
    /\ call[c] = "new" /\ c \notin cancelling /\ locked
    /\ queue' = Append(queue, c) /\ call' = [call EXCEPT ![c] = "waiting"]
    /\ NotCounted /\ UNCHANGED <<cancelling, free, run>>

Enters(c) ==
    /\ call[c] = "new" /\ c \notin cancelling /\ ~locked
    /\ IF used >= Budget
       THEN call' = [call EXCEPT ![c] = "none"] /\ NotCounted /\ UNCHANGED free
       ELSE call' = [call EXCEPT ![c] = "calling"] /\ Counted(c) /\ free' = free - 1
    /\ UNCHANGED <<cancelling, queue, run>>

\* Variant: the budget is looked at before the semaphore, when the caller comes.
AdmittedUnchecked(c) ==
    /\ call[c] = "woken" /\ c \notin cancelling
    /\ Acquired([call EXCEPT ![c] = "calling"], free) /\ Counted(c)
    /\ UNCHANGED <<cancelling, run>>

\* A woken caller runs: acquire() returns, and the budget is looked at now.
Admitted(c) ==
    /\ call[c] = "woken" /\ c \notin cancelling
    /\ IF used >= Budget
       THEN Acquired([call EXCEPT ![c] = "none"], free + 1) /\ NotCounted
       ELSE Acquired([call EXCEPT ![c] = "calling"], free) /\ Counted(c)
    /\ UNCHANGED <<cancelling, run>>

Answers(c) ==
    /\ call[c] = "calling" /\ c \notin cancelling
    /\ release(c, "answered")
    /\ NotCounted /\ UNCHANGED <<cancelling, run>>

\* Variant: one attempt too many.
OneMoreRetry(c) ==
    /\ call[c] = "calling" /\ c \notin cancelling
    /\ IF attempt[c] = MaxRetries + 1
       THEN release(c, "none")
       ELSE call' = [call EXCEPT ![c] = "backoff"] /\ UNCHANGED semaphore
    /\ NotCounted /\ UNCHANGED <<cancelling, run>>

\* ModelProviderError or the timeout.
Fails(c) ==
    /\ call[c] = "calling" /\ c \notin cancelling
    /\ IF attempt[c] = MaxRetries
       THEN release(c, "none")
       ELSE call' = [call EXCEPT ![c] = "backoff"] /\ UNCHANGED semaphore
    /\ NotCounted /\ UNCHANGED <<cancelling, run>>

\* The back-off is over: the next attempt, on the same permit and not counted as used.
Retries(c) ==
    /\ call[c] = "backoff" /\ c \notin cancelling
    /\ call' = [call EXCEPT ![c] = "calling"]
    /\ attempt' = [attempt EXCEPT ![c] = attempt[c] + 1] /\ calls' = calls + 1
    /\ UNCHANGED <<cancelling, semaphore, used, run>>

\* Any other exception, such as a null text: the gather raises it at once and the run's
\* task fails, while the other callers go on.
Raises(c) ==
    /\ call[c] = "calling" /\ c \notin cancelling
    /\ release(c, "raised")
    /\ round' = IF round = "gathering" THEN "failed" ELSE round
    /\ NotCounted /\ UNCHANGED <<cancelling, tick>>

\* stop() cancels the run's task, and with it the gather and every caller that is not done.
\* The future of a waiter is cancelled at once and takes no permit any more.
Stop ==
    /\ round = "gathering"
    /\ round' = "stopping"
    /\ cancelling' = {c \in Caller : call[c] \notin Ended}
    /\ queue' = <<>>
    /\ NotCounted /\ UNCHANGED <<call, free, tick>>

\* A cancelled caller runs: CancelledError passes through complete().
Cancelled(c) ==
    /\ c \in cancelling /\ cancelling' = cancelling \ {c}
    /\ \/ call[c] = "new" /\ call' = [call EXCEPT ![c] = "cancelled"] /\ UNCHANGED semaphore
       \/ call[c] = "waiting" /\ Acquired([call EXCEPT ![c] = "cancelled"], free)
       \/ call[c] = "woken" /\ Acquired([call EXCEPT ![c] = "cancelled"], free + 1)
       \/ call[c] \in {"calling", "backoff"} /\ release(c, "cancelled")
    /\ NotCounted /\ UNCHANGED run

\* The gather returns when every caller is done; so does a stop that awaits it.
GatherEnds ==
    /\ round \in {"gathering", "stopping"}
    /\ \A c \in Caller : call[c] \in Ended
    /\ round' = IF round = "gathering" THEN "idle" ELSE "stopped"
    /\ NotCounted /\ UNCHANGED <<call, cancelling, semaphore, tick>>

----------------------------------------------------------------------------
Init ==
    /\ call = [c \in Caller |-> "idle"] /\ cancelling = {}
    /\ queue = <<>> /\ free = MaxConcurrency
    /\ used = 0 /\ attempt = [c \in Caller |-> 0] /\ calls = 0
    /\ round = "idle" /\ tick = 0

CallEnds(c) == Answers(c) \/ Fails(c) \/ Raises(c)
Runs(c) == Queues(c) \/ Enters(c) \/ Admitted(c) \/ Retries(c) \/ Cancelled(c)

Next ==
    \/ \E attempts \in SUBSET Caller \ {{}} : Gather(attempts)
    \/ \E c \in Caller : CallEnds(c) \/ Runs(c)
    \/ Stop
    \/ GatherEnds

Spec == Init /\ [][Next]_vars

\* The event loop runs a ready task, and wait_for ends every provider call.
FairSpec == Spec /\ \A c \in Caller : WF_vars(Runs(c)) /\ WF_vars(CallEnds(c))

----------------------------------------------------------------------------
Holding == {c \in Caller : call[c] \in {"woken", "calling", "backoff"}}

TypeOK ==
    /\ call \in [Caller -> Phase] /\ cancelling \subseteq Caller
    /\ queue \in Seq(Caller) /\ free \in Nat
    /\ used \in Nat /\ attempt \in [Caller -> Nat] /\ calls \in Nat
    /\ round \in {"idle", "gathering", "stopping", "stopped", "failed"} /\ tick \in Nat

\* However many callers queue on the semaphore, no more requests are admitted than the
\* experiment has (complete() looks at the count after the semaphore, not before).
WithinBudget == used <= Budget

\* What the budget bounds in the end: the calls the provider gets, retries included.
CallsAreBounded == calls <= Budget * (MaxRetries + 1)

\* Through retries, errors and cancellation at any await no permit is lost or made, so
\* never more than max_concurrency calls are under way; and while a caller waits, a permit
\* is free only on its way to a caller that was woken.
PermitsAreKept ==
    /\ free + Cardinality(Holding) = MaxConcurrency
    /\ queue # <<>> /\ free > 0 => \E c \in Caller : call[c] = "woken"

\* Every call ends: with an answer, with None, with an exception, or cancelled.
EveryCallReturns == \A c \in Caller : call[c] \notin Ended ~> call[c] \in Ended
=============================================================================
