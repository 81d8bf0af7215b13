----------------------------- MODULE IncidentView -----------------------------
(***************************************************************************)
(* The demo screen (frontend/src/app/demo/page.tsx) over the live session   *)
(* it shows.  Every panel is derived, on each render, from the events the   *)
(* stream delivered and from the summary the poll fetched; nothing else is  *)
(* kept.  So the module adds to RuntimeSession the log those events form    *)
(* and the nodes of the last snapshot frame, and states the panels as       *)
(* operators of them.                                                       *)
(*                                                                          *)
(* StreamClient shows that the stream loses and repeats nothing; here an    *)
(* event is in the log once it is published, and the summary is the one a   *)
(* poll would get now: the screen is seen at its best.                      *)
(***************************************************************************)
EXTENDS RuntimeSession, FiniteSetsExt

CONSTANTS
    Inside,      \* paths the resource policy allows
    Protected,   \* paths it does not
    Role,        \* the role each worker is registered with
    EventLogCap  \* EVENT_LOG_CAP, the events the reducer keeps

ASSUME CapAssumption  == EventLogCap \in Nat \ {0}
ASSUME PathAssumption == Inside \cap Protected = {} /\ None \notin Inside \cup Protected
ASSUME NoneAssumption == None \notin Nat /\ None \notin BOOLEAN /\ None # "pytest"

VARIABLES
    log,    \* the session's events, as the page reads their metadata
    nodes   \* GraphState.nodes: security_state by worker; << >> before a snapshot

viewVars == <<vars, log, nodes>>

\* What a TASK_COMPLETED names: its step and, of a test run, whether it passed.  The
\* /tasks/complete route takes any step, "pytest" too, and never says `passed`.
NoTask              == [step |-> None, passed |-> None]
TaskNamed(name)     == [step |-> name, passed |-> None]
TestRun(passed)     == [step |-> "pytest", passed |-> passed]

\* An event: its draft, and of its metadata the resource of a tool event, the worker
\* a new worker replaces (which only a replacement's AGENT_STARTED has too, as its
\* context_policy), and what a completed task names.
Entry(d, seq, resource, of, task) ==
    [type |-> d.type, agent |-> d.agent, refs |-> d.refs, seq |-> seq,
     resource |-> resource, replaces |-> of, step |-> task.step, passed |-> task.passed]

Logs(resource, of, task) ==
    log' = log \o [i \in DOMAIN batch' |-> Entry(batch'[i], last_seq + i, resource, of, task)]

----------------------------------------------------------------------------
(* reduce(), of what the stream says of the nodes *)

\* A node comes only from a snapshot, and of the session's events AGENT_QUARANTINED
\* alone changes one.
Streamed ==
    nodes' = [w \in DOMAIN nodes |->
                IF \E i \in DOMAIN batch' : /\ batch'[i].type = "AGENT_QUARANTINED"
                                            /\ batch'[i].agent = w
                THEN "quarantined" ELSE nodes[w]]

\* The socket's first frame, and a fresh one after a gap; recentEvents is kept.
Attach ==
    /\ nodes' = [w \in Registered |-> security_state[w]]
    /\ UNCHANGED <<vars, log>>

\* recentEvents
LiveEvents ==
    IF Len(log) <= EventLogCap THEN log
    ELSE SubSeq(log, Len(log) - EventLogCap + 1, Len(log))

----------------------------------------------------------------------------
(* Reading a list of events: the first and the last that satisfy a test *)

FirstIn(S) == IF S = {} THEN None ELSE Min(S)
LastIn(S)  == IF S = {} THEN None ELSE Max(S)

Of(events, type)     == {i \in DOMAIN events : events[i].type = type}
Tests(events)        == {i \in Of(events, "TASK_COMPLETED") : events[i].step = "pytest"}
Replacing(events)    == {i \in Of(events, "AGENT_CREATED") : events[i].replaces # None}
AgentAt(events, i)   == IF i = None THEN None ELSE events[i].agent
SeqAt(events, i)     == IF i = None THEN None ELSE events[i].seq

----------------------------------------------------------------------------
(* deriveIncident *)

\* Variant: a later denial is taken as well.
LatestDenial(events) == LastIn(Of(events, "TOOL_DENIED"))

\* A quarantined worker's later requests are refused too: only the first counts.
TheDenial(events) == FirstIn(Of(events, "TOOL_DENIED"))

\* Resource, rule and reason are those of the last event that gave them: any
\* violation, or the denial.
Blamed(events) == LastIn(Of(events, "POLICY_VIOLATION") \cup ({TheDenial(events)} \ {None}))

\* The originating request is matched by path rather than by position.
TheRequest(events) ==
    IF Blamed(events) = None THEN None
    ELSE FirstIn({i \in Of(events, "TOOL_REQUESTED") :
                    events[i].resource = events[Blamed(events)].resource})

deriveIncident(events) ==
    LET violated    == Of(events, "POLICY_VIOLATION")
        quarantined == FirstIn(Of(events, "AGENT_QUARANTINED"))
        created     == LastIn(Replacing(events))
    IN  [detected  |-> violated # {},
         workerId  |-> AgentAt(events, LastIn(violated \cup ({quarantined} \ {None}))),
         resource  |-> IF Blamed(events) = None THEN None ELSE events[Blamed(events)].resource,
         tainted   |-> IF quarantined = None THEN {} ELSE events[quarantined].refs,
         replacementWorkerId |-> AgentAt(events, created),
         trustedContextIds   |-> IF created = None THEN {} ELSE events[created].refs,
         trustedContextOnly  |->
           \E i \in Of(events, "AGENT_STARTED") :
              /\ events[i].replaces # None
              /\ events[i].agent = AgentAt(events, LastIn({j \in Replacing(events) : j < i})),
         cascade |-> [requested   |-> SeqAt(events, TheRequest(events)),
                      denied      |-> SeqAt(events, TheDenial(events)),
                      violation   |-> SeqAt(events, FirstIn(violated)),
                      quarantined |-> SeqAt(events, quarantined)]]

----------------------------------------------------------------------------
(* deriveVerdict, deriveTestEvidence, deriveProvenance *)

\* A run is read red unless it says that it passed.
Passed(e) == e.passed = TRUE

\* Variant: a green run is never taken back.
OnceGreen(events) ==
    IF Tests(events) = {} THEN None ELSE \E i \in Tests(events) : Passed(events[i])

TestsPassed(events) ==
    IF Tests(events) = {} THEN None ELSE Passed(events[Max(Tests(events))])

deriveVerdict(events) ==
    [attackDetected    |-> Of(events, "POLICY_VIOLATION") # {},
     agentQuarantined  |-> Of(events, "AGENT_QUARANTINED") # {},
     workflowRecovered |-> Of(events, "WORKFLOW_RECOVERED") # {},
     testsPassed       |-> TestsPassed(events),
     quarantinedWorkerId |-> AgentAt(events, LastIn(Of(events, "AGENT_QUARANTINED"))),
     replacementWorkerId |-> AgentAt(events, LastIn(Replacing(events)))]

verdictLights(verdict) ==
    [attackDetected    |-> IF verdict.attackDetected THEN "lit" ELSE "pending",
     agentQuarantined  |-> IF verdict.agentQuarantined THEN "lit" ELSE "pending",
     workflowRecovered |-> IF verdict.workflowRecovered THEN "lit" ELSE "pending",
     testsPassed       |-> CASE verdict.testsPassed = None -> "pending"
                             [] verdict.testsPassed = TRUE -> "lit"
                             [] OTHER -> "failed"]

\* A single run is not a before/after pair.
deriveTestEvidence(events) ==
    LET runs  == Tests(events)
        after == IF Cardinality(runs) > 1 THEN Max(runs) ELSE None
    IN  [before |-> FirstIn(runs), after |-> after,
         provedRed   |-> runs # {} /\ ~Passed(events[Min(runs)]),
         provedGreen |-> after # None /\ Passed(events[after])]

\* MODEL_RESPONDED repeats MODEL_REQUESTED: only the request counts.
deriveProvenance(events) ==
    LET calls == Of(events, "MODEL_REQUESTED")
    IN  [calls    |-> Cardinality(calls),
         byWorker |-> [w \in {events[i].agent : i \in calls} |->
                         Cardinality({i \in calls : events[i].agent = w})]]

----------------------------------------------------------------------------
(* deriveNarrative: milestones keep a row each, the rest is folded *)

Silent(e) == e.type \in {"MODEL_RESPONDED", "AGENT_STOPPED"}

Milestone(events, e) ==
    \/ e.type \in {"TASK_ASSIGNED", "TOOL_DENIED", "POLICY_VIOLATION", "ANOMALY_DETECTED",
                   "AGENT_QUARANTINED", "TASK_REASSIGNED", "AGENT_RECOVERED",
                   "TASK_COMPLETED", "WORKFLOW_RECOVERED", "EXPERIMENT_STOPPED"}
    \/ e.type = "AGENT_CREATED" /\ e.replaces # None
    \/ e.type = "AGENT_STARTED" /\ \E i \in Replacing(events) : events[i].agent = e.agent

\* Registering the team is one beat about the team; what workers do is told by role,
\* which its AGENT_CREATED gives while the log has it, so two may share a beat.
LabelOf(e) ==
    IF e.type = "AGENT_CREATED" THEN "team" ELSE IF e.agent = None THEN "session" ELSE Role[e.agent]

Beat(kind, e) ==
    [kind |-> kind, seq |-> e.seq, label |-> IF kind = "activity" THEN LabelOf(e) ELSE e.type,
     count |-> 1]

Activity(beats, i, e) == beats[i].kind = "activity" /\ beats[i].label = LabelOf(e)

\* Variant: a milestone does not close the open activity.
EarlierActivity(beats, e) == {i \in DOMAIN beats : Activity(beats, i, e)}

\* The open activity is the last beat, if no milestone has closed it.
OpenActivity(beats, e) == {i \in DOMAIN beats : i = Len(beats) /\ Activity(beats, i, e)}

\* A beat more, or one event more in the open activity.
Fold(beats, e) ==
    IF OpenActivity(beats, e) = {} THEN Append(beats, Beat("activity", e))
    ELSE [beats EXCEPT ![Max(OpenActivity(beats, e))].count = @ + 1]

Tell(events, beats, e) ==
    CASE Silent(e) -> beats
      [] ~Silent(e) /\ Milestone(events, e)  -> Append(beats, Beat("milestone", e))
      [] ~Silent(e) /\ ~Milestone(events, e) -> Fold(beats, e)

deriveNarrative(events) ==
    FoldLeft(LAMBDA beats, e : Tell(events, beats, e), << >>, events)

----------------------------------------------------------------------------
(* buildStage, and the panels that mix events with the summary *)

\* The security state comes from the socket when it has an opinion.
StageState(w) == IF w \in DOMAIN nodes THEN nodes[w] ELSE security_state[w]

buildStage ==
    [nodes |-> [w \in Registered |-> StageState(w)],
     reassigned |-> {replaces[w] : w \in Registered} \ {None},
     breached |-> \E w \in Registered : StageState(w) = "quarantined"]

\* ContainmentPanel: the links of the chain, with what each one claims.
ContainmentPanel(incident) ==
    IF ~incident.detected THEN << >>
    ELSE [quarantined |-> incident.workerId,
          tainted     |-> {a \in Artifact : owner[a] # None /\ a \notin trusted},
          replacement |-> incident.replacementWorkerId,
          seeded      |-> IF incident.trustedContextOnly THEN incident.trustedContextIds ELSE {}]

\* The run below the header: six sections once an event has arrived.
DemoPage == IF LiveEvents = << >> THEN "connecting" ELSE "sections"

----------------------------------------------------------------------------
\* model_backed, which only picks an icon on this screen, is left FALSE.
ViewInit == Init /\ log = << >> /\ nodes = << >>

WorkerReports(w) ==
    \/ (StartTask(w) \/ RecordModelCall(w)) /\ Logs(None, None, NoTask)
    \/ \E name \in {"pytest", "review"} : CompleteTask(w) /\ Logs(None, None, TaskNamed(name))
    \/ \E passed \in BOOLEAN : RecordTestRun(w, passed) /\ Logs(None, None, TestRun(passed))

WorkerAsks(w) ==
    \/ \E path \in Inside : AllowResource(w) /\ Logs(path, None, NoTask)
    \/ \E path \in Protected : DenyResource(w) /\ Logs(path, None, NoTask)
    \/ \E path \in Inside \cup Protected : RefuseQuarantined(w) /\ Logs(path, None, NoTask)

ControlCalls ==
    \/ \E w \in Worker, r \in Worker \cup {None} :
          RegisterWorker(w, r, FALSE) /\ Logs(None, r, NoTask)
    \/ \E w \in Worker : Quarantine(w) /\ Logs(None, None, NoTask)
    \/ \E from, to \in Worker, context \in SUBSET Artifact :
          Reassign(from, to, context, FALSE) /\ Logs(None, from, NoTask)
    \/ (Recover \/ Fail) /\ Logs(None, None, NoTask)

ViewNext ==
    \/ (ControlCalls \/ \E w \in Worker : WorkerReports(w) \/ WorkerAsks(w)) /\ Streamed
    \/ \E w \in Worker, a \in Artifact : RecordArtifact(a, w) /\ UNCHANGED <<log, nodes>>
    \/ Attach

ViewSpec == ViewInit /\ [][ViewNext]_viewVars

----------------------------------------------------------------------------
(* Properties *)

\* "Every light below is set by a recorded event, never by a claim"
\* (demo/page.tsx:230): the lights and the count of model calls, all of them read off the
\* events, are what the session itself would report, and however the snapshot and the
\* events came the stage draws no quarantined worker as one of the team.  The test light
\* alone may differ, one way: a task reported complete as "pytest" without a test run
\* turns it red.  Nothing but a run that passed, and is still the session's last, turns
\* it, or the second of the before/after pair, green.
ScreenAgreesWithTheSession ==
    LET verdict  == deriveVerdict(LiveEvents)
        lights   == verdictLights(verdict)
        evidence == deriveTestEvidence(LiveEvents)
    IN  /\ (lights.agentQuarantined = "lit") = attack_detected
        /\ lights.attackDetected = "lit" => lights.agentQuarantined = "lit"
        /\ workflow_state = "recovered" => lights.workflowRecovered = "lit"
        /\ \/ verdict.testsPassed = tests_passed
           \/ /\ verdict.testsPassed = FALSE
              /\ \E i \in Tests(LiveEvents) : LiveEvents[i].passed = None
        /\ evidence.provedGreen => tests_passed = TRUE /\ evidence.before < evidence.after
        /\ deriveProvenance(LiveEvents).calls = model_calls
        /\ \A w \in Quarantined : buildStage.nodes[w] = "quarantined" /\ buildStage.breached

\* "The cascade must stay pinned to the request that caused the quarantine"
\* (incident.ts:116): when the first quarantine followed a denial, the denied and
\* the violation step are of that batch and of that worker, whatever is refused to
\* it, or denied to others, later.
CascadeIsPinned ==
    LET cascade == deriveIncident(LiveEvents).cascade
        q       == cascade.quarantined
    IN  q # None /\ q > 1 /\ log[q - 1].type = "ANOMALY_DETECTED"
        => /\ cascade.denied = q - 3 /\ cascade.violation = q - 2
           /\ log[q - 3].agent = log[q].agent

\* "Nothing is dropped ... and a group states exactly what it folded"
\* (narrative.ts:11): the events from one beat to the next, the silent ones aside,
\* are as many as the beat counts, and they are all of the role it names; no two
\* neighbours read identically.
StoryIsComplete ==
    LET beats == deriveNarrative(LiveEvents)
        Upto(i) == IF i = Len(beats) THEN Len(log) ELSE beats[i + 1].seq - 1
        Told(i) == {j \in beats[i].seq..Upto(i) : ~Silent(log[j])}
    IN  /\ beats # << >> => beats[1].seq = Min({j \in DOMAIN log : ~Silent(log[j])})
        /\ \A i \in DOMAIN beats :
             /\ beats[i].count = Cardinality(Told(i))
             /\ beats[i].kind = "activity" => \A j \in Told(i) : LabelOf(log[j]) = beats[i].label
             /\ (i > 1 /\ beats[i].kind = "activity" /\ beats[i - 1].kind = "activity")
                  => beats[i].label # beats[i - 1].label

\* "Security state comes from the socket when it has an opinion ... it is an order of
\* magnitude fresher than the 1.5s poll" (stage.ts:101): what the stage draws is
\* never behind what the summary says.  Refuted: reduce() knows nothing of
\* AGENT_RECOVERED, so a page opened after the reassignment keeps drawing the
\* replacement as healthy when the session has recovered.
StageIsUpToDate == \A w \in Registered : buildStage.nodes[w] = security_state[w]

\* "That is one causal chain, so it is drawn as one" (AttackBanner.tsx:9): the four
\* beats are in the order they are drawn in.  Refuted by a second violation
\* on another path, whose request is shown as the origin of the first denial.
CascadeIsOneChain ==
    LET c == deriveIncident(LiveEvents).cascade
    IN  None \notin {c.requested, c.denied, c.violation, c.quarantined}
        => c.requested < c.denied /\ c.denied < c.violation /\ c.violation < c.quarantined

\* "Every link is drawn only when the event that proves it has arrived"
\* (ContainmentPanel.tsx:16), whichever event of a batch came last.  Refuted between
\* the frames of one deny cascade, where the violation is there and the quarantine
\* is not yet.
LinksAreProved ==
    \A k \in 0..Len(LiveEvents) :
      LET shown == SubSeq(LiveEvents, 1, k)
          panel == ContainmentPanel(deriveIncident(shown))
      IN  panel # << >> =>
            \E i \in Of(shown, "AGENT_QUARANTINED") : shown[i].agent = panel.quarantined
==============================================================================
