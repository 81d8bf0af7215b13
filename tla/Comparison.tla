----------------------------- MODULE Comparison -----------------------------
(***************************************************************************)
(* Two arms side by side: the defense comparison and the fix trial run two *)
(* fresh experiments to completion, the archive comparison loads two       *)
(* recorded ones.  A flow is one asynchronous call of                      *)
(* runExperimentToCompletion or loadHistoricalArm; it goes on when the     *)
(* page that started it has been left.                                     *)
(*                                                                         *)
(* An HTTP exchange is one step, at the moment the backend handles it;     *)
(* every one of them may also break, before or after the backend acted.    *)
(***************************************************************************)
EXTENDS Integers, FiniteSets, FiniteSetsExt

CONSTANTS
    Record,    \* the runs of the archive
    MaxRuns,   \* bound on the experiments created, named 1..MaxRuns
    MaxSeq,    \* bound on the events of a run
    MaxMounts, \* bound on the times the page is opened
    MaxClicks, \* bound on the comparisons asked for
    MaxLost,   \* bound on the exchanges that break and the restarts
    None

ASSUME ComparisonAssumption ==
    /\ MaxRuns \in Nat \ {0} /\ MaxSeq \in Nat \ {0} /\ MaxMounts \in Nat \ {0}
    /\ MaxClicks \in Nat /\ MaxLost \in Nat
    /\ None \notin Nat /\ None \notin Record /\ None \notin BOOLEAN
    /\ Record \cap Nat = {} \* a row of the archive is no run of this page

VARIABLES
    run,     \* run[r]: [status, last_seq] of an experiment; "dead": its task has
             \* failed, and the status it reports is "running" for ever
    record,  \* record[e]: [final, is_complete], the row of a recorded run
    mount,   \* the page open now: [id, kind], and which of the two kinds it is
    runningRef,
    arms,    \* armA and armB, or before and after; nth and of are history: which
             \* comparison a result belongs to, and which run it was measured on
    flows,
    clicks, lost

backend == <<run, record>>
hook    == <<mount, runningRef, arms>>
counted == <<clicks, lost>>
vars    == <<backend, hook, flows, counted>>

Run  == 1..MaxRuns
Arm  == {"A", "B"}
Page == {"live", "archive"}

IDLE_ARM ==
    [status |-> "idle", metrics |-> None, incomplete |-> FALSE, nth |-> None, of |-> None]

Init ==
    /\ run = [r \in Run |-> [status |-> "none", last_seq |-> 0]]
    /\ mount \in [id : {1}, kind : Page]
    \* The archive stands still where nobody looks at it.
    /\ record = [e \in Record |->
         IF mount.kind = "live" THEN [final |-> TRUE, is_complete |-> TRUE]
         ELSE [final |-> FALSE, is_complete |-> None]]
    /\ runningRef = FALSE /\ arms = [a \in Arm |-> IDLE_ARM]
    /\ flows = {} /\ clicks = 0 /\ lost = 0

----------------------------------------------------------------------------
(* The backend: runs go on by themselves, the recorder finishes its rows *)

Publish(r) ==
    /\ run[r].status = "running" /\ run[r].last_seq < MaxSeq
    /\ run' = [run EXCEPT ![r].last_seq = @ + 1]
    /\ UNCHANGED <<record, hook, flows, counted>>

Finish(r) ==
    /\ run[r].status = "running"
    /\ run' = [run EXCEPT ![r].status = "finished"]
    /\ UNCHANGED <<record, hook, flows, counted>>

\* An answer without text that complete() does not catch ends the task of the run and
\* nothing else: no status, no terminal signal.
Dies(r) ==
    /\ run[r].status = "running"
    /\ run' = [run EXCEPT ![r].status = "dead"]
    /\ UNCHANGED <<record, hook, flows, counted>>

\* One UPDATE writes the final tick and whether the log has no gap.
Finalize(e) ==
    /\ ~record[e].final
    /\ \E whole \in BOOLEAN :
         record' = [record EXCEPT ![e] = [final |-> TRUE, is_complete |-> whole]]
    /\ UNCHANGED <<run, hook, flows, counted>>

Lose == lost < MaxLost /\ lost' = lost + 1 /\ UNCHANGED clicks

Restart ==
    /\ Lose
    /\ run' = [r \in Run |-> IF run[r].status = "none" THEN run[r]
                             ELSE [run[r] EXCEPT !.status = "gone"]]
    /\ UNCHANGED <<record, hook, flows>>

----------------------------------------------------------------------------
(* The hooks: useComparison and useFixTrial *)

Flow(arm, phase, r) ==
    [mount |-> mount.id, arm |-> arm, nth |-> clicks + 1, phase |-> phase, run |-> r,
     final |-> 0, seen |-> 0, socketOpen |-> FALSE, metrics |-> None, complete |-> None]

Becomes(f, g) == flows' = (flows \ {f}) \cup {g}

\* A call while a comparison is in flight is ignored: the ref, unlike the state,
\* is true before the next click.
Begin(pair) ==
    /\ clicks < MaxClicks /\ clicks' = clicks + 1
    /\ ~runningRef /\ runningRef' = TRUE
    /\ arms' = [a \in Arm |-> [IDLE_ARM EXCEPT !.status = "running"]]
    /\ flows' = flows \cup {pair[a] : a \in Arm}
    /\ UNCHANGED <<backend, mount, lost>>

\* Two experiments that differ in defense_enabled alone, or, for useFixTrial, the
\* run's own configuration and the same with the recommended change.
runComparison ==
    mount.kind = "live" /\ Begin([a \in Arm |-> Flow(a, "creating", None)])

\* The archive lets two different rows be selected.
compareHistorical(ids) ==
    /\ mount.kind = "archive" /\ ids["A"] # ids["B"]
    /\ Begin([a \in Arm |-> Flow(a, "loading", ids[a])])

\* The page is left and opened again, with state of its own; flows of the old one
\* speak to nobody.
Remount ==
    /\ mount.id < MaxMounts
    /\ mount' = [mount EXCEPT !.id = @ + 1]
    /\ runningRef' = FALSE /\ arms' = [a \in Arm |-> IDLE_ARM]
    /\ UNCHANGED <<backend, flows, counted>>

\* Variant: the guard is released by the first arm that settles.
FirstReleases(f) == runningRef' = FALSE

\* allSettled(...).finally: the guard is released by the second arm.
Releases(f) ==
    runningRef' = \E g \in flows \ {f} : g.mount = f.mount

Settles(f, result) ==
    /\ flows' = flows \ {f}
    /\ IF f.mount = mount.id
       THEN arms' = [arms EXCEPT ![f.arm] = result] /\ Releases(f)
       ELSE UNCHANGED <<arms, runningRef>>
    /\ UNCHANGED mount

Error(f) == [IDLE_ARM EXCEPT !.status = "error", !.nth = f.nth]
Done(f) ==
    [status |-> "done", metrics |-> f.metrics, nth |-> f.nth, of |-> f.run,
     incomplete |-> f.complete # None /\ ~f.complete]

\* MetricsDeltaTable is given the numbers of the arms that are done, ArmStatusCard
\* puts a caveat to those of an incomplete log.
TableValue(a) == IF arms[a].status = "done" THEN arms[a].metrics ELSE None
Caveat(a)     == arms[a].status = "done" /\ arms[a].incomplete

----------------------------------------------------------------------------
(* runExperimentToCompletion *)

Fresh == {r \in Run : run[r].status = "none"}

Created(f) ==
    /\ f.phase = "creating" /\ Fresh # {}
    /\ LET r == Min(Fresh) IN
       /\ run' = [run EXCEPT ![r].status = "running"]
       /\ Becomes(f, [f EXCEPT !.phase = "polling", !.run = r, !.socketOpen = TRUE])
    /\ UNCHANGED <<record, hook, counted>>

\* Refused, by a backend that lacks the model the configuration names.
CreateRefused(f) ==
    /\ f.phase = "creating" /\ Settles(f, Error(f)) /\ UNCHANGED <<backend, counted>>

\* The request is lost, or the answer of a run that was created.
CreateLost(f) ==
    /\ f.phase = "creating" /\ Lose /\ Settles(f, Error(f))
    /\ \/ UNCHANGED run
       \/ Fresh # {} /\ run' = [run EXCEPT ![Min(Fresh)].status = "running"]
    /\ UNCHANGED record

\* The socket shows events in order, the first frame being a snapshot.
Deliver(f) ==
    /\ f.socketOpen
    /\ \E seq \in (f.seen + 1)..run[f.run].last_seq : Becomes(f, [f EXCEPT !.seen = seq])
    /\ UNCHANGED <<backend, hook, counted>>

SocketCloses(f) ==
    /\ f.socketOpen /\ Lose /\ Becomes(f, [f EXCEPT !.socketOpen = FALSE])
    /\ UNCHANGED <<backend, hook>>

\* Variant: completion is read off the sequence numbers instead of the status.
PollBySeq(f) ==
    /\ f.phase = "polling" /\ run[f.run].status # "gone" /\ f.seen = run[f.run].last_seq
    /\ Becomes(f, [f EXCEPT !.phase = "catching up", !.final = f.seen])
    /\ UNCHANGED <<backend, hook, counted>>

\* A poll that finds the run going on changes nothing; the next follows in a second.
Poll(f) ==
    /\ f.phase = "polling" /\ run[f.run].status = "finished"
    /\ Becomes(f, [f EXCEPT !.phase = "catching up", !.final = run[f.run].last_seq])
    /\ UNCHANGED <<backend, hook, counted>>

\* Variant: the catch does not schedule the next poll.
PollGivesUp(f) ==
    /\ f.phase = "polling" /\ Lose /\ flows' = flows \ {f} /\ UNCHANGED <<backend, hook>>

\* A failed poll is repeated, whatever made it fail: also when the run is gone.
PollLost(f) == f.phase = "polling" /\ Lose /\ UNCHANGED <<backend, hook, flows>>

Measure(f) ==
    Becomes(f, [f EXCEPT !.phase = "measuring", !.socketOpen = FALSE])
      /\ UNCHANGED <<backend, hook, counted>>

\* The while loop of the catch-up ends: everything seen, a dead socket, ...
CaughtUp(f) == f.phase = "catching up" /\ (f.seen >= f.final \/ ~f.socketOpen) /\ Measure(f)

\* ... or CATCH_UP_TIMEOUT_MS.
TimesOut(f) == f.phase = "catching up" /\ f.seen < f.final /\ f.socketOpen /\ Measure(f)

Measured(f) ==
    /\ f.phase = "measuring" /\ run[f.run].status # "gone"
    /\ Becomes(f, [f EXCEPT !.phase = "stopping", !.metrics = run[f.run].last_seq])
    /\ UNCHANGED <<backend, hook, counted>>

\* getMetrics throws: the arm fails and its run is not stopped.
MeasureFails(f) ==
    /\ f.phase = "measuring"
    /\ \/ run[f.run].status = "gone" /\ UNCHANGED counted
       \/ Lose
    /\ Settles(f, Error(f)) /\ UNCHANGED backend

Stopped(f) ==
    /\ f.phase = "stopping"
    /\ run' = [run EXCEPT ![f.run].status = "gone"]
    /\ Settles(f, Done(f)) /\ UNCHANGED <<record, counted>>

\* stopExperiment(...).catch(() => {})
StopLost(f) ==
    /\ f.phase = "stopping" /\ Lose /\ Settles(f, Done(f)) /\ UNCHANGED backend

----------------------------------------------------------------------------
(* loadHistoricalArm: two requests at once *)

\* 409 until the recorder has written the final tick.
ReplayMetrics(f) ==
    /\ f.phase = "loading" /\ f.metrics = None
    /\ IF record[f.run].final
       THEN Becomes(f, [f EXCEPT !.metrics = MaxSeq]) /\ UNCHANGED hook
       ELSE Settles(f, Error(f))
    /\ UNCHANGED <<backend, counted>>

\* incomplete is is_complete !== true
IsComplete(value) == IF value = None THEN FALSE ELSE value

Detail(f) ==
    /\ f.phase = "loading" /\ f.complete = None
    /\ Becomes(f, [f EXCEPT !.complete = IsComplete(record[f.run].is_complete)])
    /\ UNCHANGED <<backend, hook, counted>>

LoadLost(f) ==
    /\ f.phase = "loading" /\ None \in {f.metrics, f.complete}
    /\ Lose /\ Settles(f, Error(f)) /\ UNCHANGED backend

Loaded(f) ==
    /\ f.phase = "loading" /\ f.metrics # None /\ f.complete # None
    /\ Settles(f, Done(f)) /\ UNCHANGED <<backend, counted>>

----------------------------------------------------------------------------
FlowStep(f) ==
    \/ Created(f) \/ CreateRefused(f) \/ Poll(f) \/ CaughtUp(f) \/ TimesOut(f)
    \/ Measured(f) \/ MeasureFails(f) \/ Stopped(f)
    \/ ReplayMetrics(f) \/ Detail(f) \/ Loaded(f)

Network(f) ==
    Deliver(f) \/ SocketCloses(f) \/ CreateLost(f) \/ PollLost(f) \/ StopLost(f) \/ LoadLost(f)

Next ==
    \/ \E r \in Run : Publish(r) \/ Finish(r) \/ Dies(r)
    \/ \E e \in Record : Finalize(e)
    \/ Restart
    \/ runComparison \/ Remount
    \/ \E ids \in [Arm -> Record] : compareHistorical(ids)
    \/ \E f \in flows : FlowStep(f) \/ Network(f)

Spec == Init /\ [][Next]_vars

\* Every step of every flow is taken in the end, and a run whose task has not died ends
\* at max_ticks, for nobody pauses a run of this page.  MaxRuns bounds the creations, so a
\* creation may have to be refused.
FairSpec ==
    /\ Spec
    /\ \A r \in Run : WF_vars(Finish(r))
    /\ WF_vars(\E f \in flows : FlowStep(f))

----------------------------------------------------------------------------
(* Properties *)

TypeOK ==
    /\ run \in [Run -> [status : {"none", "running", "dead", "finished", "gone"}, last_seq : 0..MaxSeq]]
    /\ record \in [Record -> [final : BOOLEAN, is_complete : BOOLEAN \cup {None}]]
    /\ mount \in [id : 1..MaxMounts, kind : Page] /\ runningRef \in BOOLEAN
    /\ arms \in [Arm -> [status : {"idle", "running", "done", "error"}, incomplete : BOOLEAN,
                         metrics : 0..MaxSeq \cup {None}, nth : 1..MaxClicks \cup {None},
                         of : Run \cup Record \cup {None}]]
    /\ \A f \in flows :
         f.run \in IF f.phase = "creating" THEN {None}
                   ELSE IF f.phase = "loading" THEN Record ELSE Run

\* "Guards against overlapping runs" (useComparison.ts:93): the two results on
\* screen are those of one comparison, so they differ in the one thing under test; a
\* slow arm of an earlier comparison never shows up beside a quick one of the next.
ArmsAreOnePair ==
    Cardinality({arms[a].nth : a \in Arm} \ {None}) <= 1

\* "A comparison arm's numbers can never be sampled mid-delivery"
\* (runToCompletion.ts:112): the numbers in the table are those of a run that was
\* over when they were read, however the polls, the socket and the stop went.  And an
\* arm without the incompleteness caveat is of a record without a gap, also when the
\* row is written between the two requests of the arm.
NumbersAreTrue ==
    \A a \in Arm : TableValue(a) # None =>
      IF arms[a].of \in Run
      THEN run[arms[a].of].status \in {"finished", "gone"} /\ TableValue(a) = run[arms[a].of].last_seq
      ELSE Caveat(a) \/ record[arms[a].of].is_complete = TRUE

\* "One arm failing must not hide the other's result" (useFixTrial.ts:60): every arm
\* comes to a result or to an error.  The exceptions are the arms that poll for ever: for
\* a run the backend no longer has, whose 404 is taken for a passing failure, and for a
\* run whose task died, which goes on reporting "running".
PollsInVain(a) == \E f \in flows :
    /\ f.mount = mount.id /\ f.arm = a /\ f.phase = "polling"
    /\ run[f.run].status \in {"gone", "dead"}

EveryArmSettles ==
    \A a \in Arm : arms[a].status = "running" ~> (arms[a].status # "running" \/ PollsInVain(a))
============================================================================
