--------------------------- MODULE ControlConsole ---------------------------
(***************************************************************************)
(* The console of one browser tab: the control reducer, the provider that  *)
(* turns clicks into HTTP requests and answers into reducer actions, the   *)
(* status poll, the adoption of the last run after a reload, and the       *)
(* screens that decide which click is offered.                             *)
(*                                                                         *)
(* A click, the server's handling of a request and the arrival of its      *)
(* answer are three steps; anything may happen in between, the page may    *)
(* be reloaded and either half of an exchange may be lost.  An aborted     *)
(* poll is one whose answer arrives late: abort() cannot recall an answer  *)
(* that has already been delivered.                                        *)
(***************************************************************************)
EXTENDS Integers

CONSTANTS
    MaxRuns,   \* bound on the experiments created, named 1..MaxRuns
    MaxClicks, \* bound on the clicks, over all pages
    MaxLost,   \* bound on the exchanges the network breaks
    MaxPages,  \* bound on the page loads
    None

ASSUME ConsoleAssumption ==
    /\ MaxRuns \in Nat \ {0} /\ MaxClicks \in Nat /\ MaxLost \in Nat
    /\ MaxPages \in Nat \ {0} /\ None \notin Int

VARIABLES
    run,      \* run[r]: the runner's status; "none" before, "gone" once unregistered
    speed,    \* speed[r]: the runner's multiplier
    control,  \* ControlState
    hydrating,
    stored,   \* sessionStorage[ACTIVE_RUN_KEY]
    page,     \* page loads so far
    requests, \* HTTP exchanges under way
    unheard,  \* history: runs about which an answer was never read
    clicks, lost

counted == <<clicks, lost>>
backend == <<run, speed>>
screen  == <<control, hydrating, stored, page>>
vars    == <<backend, screen, requests, unheard, counted>>

Run      == 1..MaxRuns
Status   == {"idle", "running", "paused", "finished", "stopped"}
Action   == {"start", "pause", "resume", "speed", "reset"}
Refusal  == {"400", "404", "409"}
Speeds   == {1, 2}

\* None is neither a name nor an answer.
ASSUME NoneAssumption ==
    /\ None \notin Action \cup Status \cup Refusal
    /\ None \notin [run : Nat \cup {None}, status : Refusal \cup Status]

Active(r) == run[r] \in {"running", "paused"}

initialControlState ==
    [experimentId |-> None, status |-> "idle", pending |-> None, speed |-> 1,
     operationId |-> None, revision |-> 0]

Init ==
    /\ run = [r \in Run |-> "none"] /\ speed = [r \in Run |-> 1]
    /\ control = initialControlState
    /\ hydrating = FALSE /\ stored = None /\ page = 1
    /\ requests = {} /\ unheard = {} /\ clicks = 0 /\ lost = 0

----------------------------------------------------------------------------
(* controlReducer, a pure function of the state and the action *)

canStart(s)    == s.status \in {"idle", "finished", "stopped"} /\ s.pending = None
canPause(s)    == s.status = "running" /\ s.pending = None
canResume(s)   == s.status = "paused" /\ s.pending = None
canSetSpeed(s) == s.status \in {"running", "paused"} /\ s.pending = None
canReset(s)    == s.experimentId # None /\ s.pending = None

isCurrent(s, pending, id) == s.pending = pending /\ s.operationId = id

\* The five *_requested cases.
Requested(s, action, id) ==
    [s EXCEPT !.pending = action, !.operationId = id, !.revision = @ + 1]

\* The end of an operation, however it ended: the answer is not read twice.
Settled(s) == [s EXCEPT !.pending = None, !.operationId = None]

\* start_succeeded and reset_create_succeeded
Created(s, action, id, r, status) ==
    IF isCurrent(s, action, id)
    THEN [Settled(s) EXCEPT !.experimentId = r, !.status = status, !.speed = 1]
    ELSE s

\* pause_succeeded and resume_succeeded
Transitioned(s, action, id, status) ==
    IF isCurrent(s, action, id) THEN [Settled(s) EXCEPT !.status = status] ELSE s

SpeedSet(s, id, v) ==
    IF isCurrent(s, "speed", id) THEN [Settled(s) EXCEPT !.speed = v] ELSE s

\* Variant: the failure is shown but the operation stays pending.
FailedKeepsPending(s, action, id) == s

\* The *_failed cases.
Failed(s, action, id) == IF isCurrent(s, action, id) THEN Settled(s) ELSE s

\* reset_stop_succeeded_create_failed
StoppedOnly(s, id) ==
    IF isCurrent(s, "reset", id) THEN [Settled(s) EXCEPT !.status = "stopped"] ELSE s

\* Variant: the poll is recognised by the run alone, whatever was clicked since.
SyncedByRun(s, r, revision, status) ==
    IF r = s.experimentId THEN [s EXCEPT !.status = status] ELSE s

\* Variant: the poll carries its revision, and the reducer compares the operation.
SyncedByOperation(s, r, revision, status) ==
    IF r = s.experimentId /\ revision = s.operationId THEN [s EXCEPT !.status = status] ELSE s

StatusSynced(s, r, revision, status) ==
    IF r = s.experimentId /\ revision = s.revision THEN [s EXCEPT !.status = status] ELSE s

----------------------------------------------------------------------------
(* Requests: a click, a poll or the adoption sends one, the server answers *)

Call(kind, action, r, id, v) ==
    [kind |-> kind, action |-> action, run |-> r, id |-> id,
     revision |-> control.revision, value |-> v, page |-> page, answer |-> None]

\* nextOperationId, a counter of the page that moves with the revision.
NextOperationId == control.revision + 1

\* What the screens offer.  OverviewPage and RequiresRun show a spinner while the
\* stored run is verified, and RunContextBar has no buttons then.
LaunchOffered == ~hydrating /\ canStart(control)
RunShown      == ~hydrating /\ control.experimentId # None
BarOffered    == RunShown

\* Every callback of the provider begins by sending the request of its reducer case.
Click(action, kind, r, v) ==
    /\ clicks < MaxClicks /\ clicks' = clicks + 1
    /\ control' = Requested(control, action, NextOperationId)
    /\ requests' = requests \cup {Call(kind, action, r, NextOperationId, v)}
    /\ UNCHANGED <<backend, hydrating, stored, page, unheard, lost>>

Start  == LaunchOffered /\ Click("start", "create", None, None)
\* RunContextBar shows Resume to a paused run and Pause to any other.
Pause  == BarOffered /\ canPause(control) /\ Click("pause", "pause", control.experimentId, None)
Resume == BarOffered /\ canResume(control) /\ Click("resume", "resume", control.experimentId, None)
Reset  == BarOffered /\ canReset(control) /\ Click("reset", "stop", control.experimentId, None)
ChangeSpeed ==
    /\ BarOffered /\ canSetSpeed(control)
    /\ \E v \in Speeds : Click("speed", "speed", control.experimentId, v)

\* The poll effect runs for (status, pending, experimentId, revision).
Polling == control.status = "running" /\ control.pending = None /\ control.experimentId # None

SendPoll ==
    /\ Polling
    /\ \A q \in requests : q.kind # "poll" \/ q.revision # control.revision \/ q.page # page
    /\ requests' = requests \cup {Call("poll", None, control.experimentId, None, None)}
    /\ UNCHANGED <<backend, screen, unheard, counted>>

\* A run ends by itself: max_ticks or full containment.  _run_loop looks for the end
\* before it waits for the pause event, so a run that is paused during the sleep after
\* its last tick becomes "finished" as well.
Finish(r) ==
    /\ Active(r)
    /\ run' = [run EXCEPT ![r] = "finished"]
    /\ UNCHANGED <<speed, screen, requests, unheard, counted>>

----------------------------------------------------------------------------
(* The routes of the experiments API: the answer and the status it leaves *)

Answer(r, status) == [run |-> r, status |-> status]
Refused(a) == a.status \in Refusal

\* The answer stays with the request until the page reads it; a page that is no
\* longer there reads nothing.
Reply(q, a) ==
    IF q.page = page
    THEN /\ requests' = (requests \ {q}) \cup {[q EXCEPT !.answer = a]}
         /\ UNCHANGED unheard
    ELSE /\ requests' = requests \ {q}
         /\ unheard' = IF Refused(a) THEN unheard ELSE unheard \cup {a.run}

Refuse(q, why) == Reply(q, Answer(q.run, why)) /\ UNCHANGED backend

\* A configuration the backend cannot run is refused.
create_experiment(q) ==
    /\ q.kind = "create"
    /\ \/ Refuse(q, "400")
       \/ \E r \in Run :
            /\ run[r] = "none" /\ \A o \in 1..(r - 1) : run[o] # "none"
            /\ run' = [run EXCEPT ![r] = "running"]
            /\ Reply(q, Answer(r, "running")) /\ UNCHANGED speed

get_experiment(q) ==
    /\ q.kind \in {"poll", "adopt"}
    /\ UNCHANGED backend
    /\ Reply(q, Answer(q.run, IF run[q.run] = "gone" THEN "404" ELSE run[q.run]))

\* pause() and resume() are idempotent and refuse a run that has ended.
Transition(q, kind, to) ==
    /\ q.kind = kind
    /\ \/ run[q.run] = "gone" /\ Refuse(q, "404")
       \/ run[q.run] = "finished" /\ Refuse(q, "409")
       \/ /\ Active(q.run)
          /\ run' = [run EXCEPT ![q.run] = to]
          /\ Reply(q, Answer(q.run, to)) /\ UNCHANGED speed

set_experiment_speed(q) ==
    /\ q.kind = "speed"
    /\ \/ run[q.run] = "gone" /\ Refuse(q, "404")
       \/ run[q.run] = "finished" /\ Refuse(q, "409")
       \/ /\ Active(q.run)
          /\ speed' = [speed EXCEPT ![q.run] = q.value]
          /\ Reply(q, Answer(q.run, run[q.run])) /\ UNCHANGED run

\* The stopped run is unregistered before the answer is sent.
stop_experiment(q) ==
    /\ q.kind = "stop"
    /\ \/ run[q.run] = "gone" /\ Refuse(q, "404")
       \/ /\ run[q.run] # "gone"
          /\ run' = [run EXCEPT ![q.run] = "gone"]
          /\ Reply(q, Answer(q.run, IF run[q.run] = "finished" THEN "finished" ELSE "stopped"))
          /\ UNCHANGED speed

Handle(q) ==
    /\ q.answer = None
    /\ \/ create_experiment(q) \/ get_experiment(q) \/ stop_experiment(q)
       \/ Transition(q, "pause", "paused") \/ Transition(q, "resume", "running")
       \/ set_experiment_speed(q)
    /\ UNCHANGED <<screen, counted>>

\* The process restarts: the registry was in memory.
Restart ==
    /\ lost < MaxLost /\ lost' = lost + 1
    /\ run' = [r \in Run |-> IF run[r] = "none" THEN "none" ELSE "gone"]
    /\ UNCHANGED <<speed, screen, requests, unheard, clicks>>

----------------------------------------------------------------------------
(* The page reads an answer *)

\* postControl and its siblings throw unless res.ok; fetch itself may reject.
Fails(a) == a = None \/ Refused(a)

\* A 404 says the old run is gone already, which is what the reset wanted.
IsGone(a) == ~Fails(a) \/ (a # None /\ a.status = "404")

SendCreate(q) == {Call("create", "reset", None, q.id, None)}

\* Variant: a stop that went wrong is passed over like a 404.
StopPassedOver(q, a) ==
    control' = control /\ requests' = (requests \ {q}) \cup SendCreate(q)

\* The first half of a reset: the new run is only created once the old one is gone.
StopAnswered(q, a) ==
    IF IsGone(a)
    THEN control' = control /\ requests' = (requests \ {q}) \cup SendCreate(q)
    ELSE control' = Failed(control, "reset", q.id) /\ requests' = requests \ {q}

\* createExperiment: the answer is adopted as the active run, and remembered.
CreateAnswered(q, a) ==
    /\ control' = IF ~Fails(a) THEN Created(control, q.action, q.id, a.run, a.status)
                  ELSE IF q.action = "reset" THEN StoppedOnly(control, q.id)
                  ELSE Failed(control, q.action, q.id)
    /\ requests' = requests \ {q}

\* pause, resume and changeSpeed
ControlAnswered(q, a) ==
    /\ control' = IF Fails(a) THEN Failed(control, q.action, q.id)
                  ELSE IF q.action = "speed" THEN SpeedSet(control, q.id, q.value)
                  ELSE Transitioned(control, q.action, q.id, a.status)
    /\ requests' = requests \ {q}

PollAnswered(q, a) ==
    /\ control' = IF Fails(a) THEN control
                  ELSE StatusSynced(control, q.run, q.revision, a.status)
    /\ requests' = requests \ {q}

\* The stored run is adopted as if it had just been started, or forgotten.
AdoptAnswered(q, a) ==
    /\ control' = IF Fails(a) \/ ~canStart(control) THEN control
                  ELSE Created(Requested(control, "start", NextOperationId),
                               "start", NextOperationId, a.run, a.status)
    /\ stored' = IF Fails(a) THEN None ELSE stored
    /\ hydrating' = FALSE
    /\ requests' = requests \ {q}

\* The effect on experimentId keeps the session storage up to date.
Remember == stored' = IF control'.experimentId = None THEN stored ELSE control'.experimentId

Read(q, a) ==
    /\ q.page = page
    /\ \/ q.kind = "adopt" /\ AdoptAnswered(q, a)
       \/ /\ q.kind # "adopt"
          /\ \/ q.kind = "stop" /\ StopAnswered(q, a)
             \/ q.kind = "create" /\ CreateAnswered(q, a)
             \/ q.kind = "poll" /\ PollAnswered(q, a)
             \/ q.kind \in {"pause", "resume", "speed"} /\ ControlAnswered(q, a)
          /\ Remember /\ UNCHANGED hydrating
    /\ UNCHANGED <<backend, page>>

Arrive(q) == q.answer # None /\ Read(q, q.answer) /\ UNCHANGED <<unheard, counted>>

\* What a lost exchange leaves behind: the server may have acted on it.
ActedOn(q) ==
    IF q.kind = "adopt" THEN {q.run}
    ELSE IF Fails(q.answer) THEN {} ELSE {q.answer.run}

\* fetch rejects: the request was never handled, or its answer is lost.
Break(q) ==
    /\ lost < MaxLost /\ lost' = lost + 1
    /\ Read(q, None)
    /\ unheard' = unheard \cup ActedOn(q)
    /\ UNCHANGED clicks

\* The page is loaded again.  Answers on their way find nobody; requests on their
\* way still reach the server.
Reload ==
    /\ page < MaxPages /\ page' = page + 1
    /\ control' = initialControlState
    /\ hydrating' = (stored # None)
    /\ requests' = {q \in requests : q.answer = None /\ q.kind \notin {"poll", "adopt"}}
         \cup (IF stored = None THEN {}
               ELSE {[Call("adopt", None, stored, None, None) EXCEPT !.page = page + 1,
                                                                     !.revision = 0]})
    /\ unheard' = unheard \cup UNION {ActedOn(q) : q \in requests}
    /\ UNCHANGED <<backend, stored, counted>>

----------------------------------------------------------------------------
Next ==
    \/ Start \/ Pause \/ Resume \/ ChangeSpeed \/ Reset
    \/ SendPoll \/ Restart \/ Reload
    \/ \E r \in Run : Finish(r)
    \/ \E q \in requests : Handle(q) \/ Arrive(q) \/ Break(q)

Spec == Init /\ [][Next]_vars

\* Requests are handled and answered and the poll timer fires; nobody has to
\* click, reload or finish, and nothing has to break.
FairSpec ==
    /\ Spec /\ WF_vars(SendPoll)
    /\ WF_vars(\E q \in requests : Handle(q))
    /\ WF_vars(\E q \in requests : Arrive(q))
----------------------------------------------------------------------------
(* Properties *)

TypeOK ==
    /\ run \in [Run -> {"none", "running", "paused", "finished", "gone"}]
    /\ speed \in [Run -> Speeds]
    /\ control \in [experimentId : Run \cup {None}, status : Status,
                    pending : Action \cup {None}, speed : Speeds,
                    operationId : Nat \cup {None}, revision : Nat]
    /\ hydrating \in BOOLEAN /\ stored \in Run \cup {None}
    /\ page \in 1..MaxPages /\ clicks \in 0..MaxClicks /\ lost \in 0..MaxLost /\ unheard \subseteq Run

\* "There is never a moment with two experiments simultaneously active"
\* (ExperimentProvider.tsx:252): a run that is alive is the console's own, or the
\* one it is about to adopt, or its answer is on the way.  Only a run an answer
\* about which was lost can be alive without anybody watching it.
NoRunIsForgotten ==
    \A r \in Run : Active(r) =>
       \/ r = control.experimentId \/ r \in unheard
       \/ hydrating /\ r = stored
       \/ \E q \in requests : q.answer = Answer(r, "running") /\ q.kind = "create"

\* The console does not poll a paused run, so what it takes for paused must not tick:
\* no answer of a poll sent before the last click may say otherwise.  The run may have
\* come to its end since: the pause caught it after its last tick, and the console shows
\* it as paused until the run is reset, for resume() of a finished run is refused.
PausedIsNotRunning ==
    LET r == control.experimentId IN
    control.status = "paused" /\ control.pending = None /\ r \notin unheard =>
       run[r] \in {"paused", "finished", "gone"}

\* The poll closes the gap the stream leaves (ExperimentProvider.tsx:39-43): a run
\* that ends while the console shows it running is shown as finished.  A pause under way
\* is left out: it may have been answered before the end (see PausedIsNotRunning), and a
\* refused one leaves the run shown as running, with nothing under way.
EndIsSeen ==
    \A r \in Run :
       (/\ control.experimentId = r /\ control.status = "running" /\ control.pending # "pause"
        /\ run[r] = "finished")
         ~> (control.experimentId # r \/ control.status = "finished"
              \/ run[r] = "gone" \/ r \in unheard)

\* Every operation comes to an end, with its answer or with an error: the console
\* is never locked for good.
OperationsEnd == control.pending # None ~> control.pending = None
============================================================================
