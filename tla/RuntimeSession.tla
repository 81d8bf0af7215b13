--------------------------- MODULE RuntimeSession ---------------------------
(***************************************************************************)
(* The live runtime session (backend/app/runtime/session.py) behind its    *)
(* HTTP routes (backend/app/api/routes_runtime.py).                        *)
(*                                                                         *)
(* A session holds a dict of workers, a dict of artifacts and the          *)
(* workflow's own state machine.  Every mutating method changes state,     *)
(* numbers its event drafts and publishes them without suspending (the bus *)
(* only does put_nowait), so one accepted request is one action here.  A   *)
(* request the routes answer with 404 or 409 changes nothing and is a      *)
(* stuttering step.                                                        *)
(*                                                                         *)
(* A dict entry is spread over one variable per field: a worker id that is *)
(* not in the dict has security_state "absent", an artifact id that is not *)
(* has owner None.                                                         *)
(***************************************************************************)
EXTENDS Naturals, Sequences, FiniteSets, SequencesExt

CONSTANTS
    Worker,     \* worker ids a client may name
    Artifact,   \* artifact ids a client may name
    None,       \* the code's None
    MaxStep     \* bound on `step`, which the code leaves unbounded

ASSUME WorkerAssumption  == IsFiniteSet(Worker) /\ None \notin Worker
ASSUME MaxStepAssumption == MaxStep \in Nat

VARIABLES
    security_state,    \* workers[w].security_state, "absent" if not in the dict
    current_task,      \* the workers that hold a task
    replaces,          \* workers[w].replaces
    model_backed,      \* the workers whose model_backed flag is set
    owner,             \* artifacts[a].worker_id, None if not in the dict
    trusted,           \* the artifacts whose trusted flag is set
    workflow_state,
    step,
    attack_detected,
    recovery_required,
    tests_passed,
    model_calls,
    last_seq,          \* EventEmitter.last_seq
    batch              \* the drafts the last publishing call emitted

workerVars   == <<security_state, current_task, replaces, model_backed>>
artifactVars == <<owner, trusted>>
statusVars   == <<workflow_state, attack_detected, recovery_required>>
logVars      == <<last_seq, batch>>
vars == <<workerVars, artifactVars, statusVars, logVars,
          step, tests_passed, model_calls>>

----------------------------------------------------------------------------
SecurityState == {"absent", "healthy", "quarantined", "recovered"}
WorkflowState == {"idle", "running", "under_attack", "recovering",
                  "recovered", "failed"}
EventType == {"AGENT_CREATED", "AGENT_STARTED", "AGENT_RECOVERED",
              "AGENT_QUARANTINED", "TASK_ASSIGNED", "TASK_COMPLETED",
              "TASK_REASSIGNED", "TOOL_REQUESTED", "TOOL_EXECUTED",
              "TOOL_DENIED", "POLICY_VIOLATION", "ANOMALY_DETECTED",
              "MODEL_REQUESTED", "MODEL_RESPONDED", "WORKFLOW_RECOVERED",
              "EXPERIMENT_STOPPED"}

\* What the properties tell apart of an EventDraft: its type, its agent_id and
\* the ids its metadata lists (tainted_artifacts, trusted_context, quarantined
\* or the target of a reassignment).
EventDraft == [type : EventType, agent : Worker \cup {None},
               refs : SUBSET (Artifact \cup Worker)]

Draft(type, w)           == [type |-> type, agent |-> w, refs |-> {}]
DraftWith(type, w, refs) == [type |-> type, agent |-> w, refs |-> refs]

Registered  == {w \in Worker : security_state[w] # "absent"}
Quarantined == {w \in Worker : security_state[w] = "quarantined"}
Active      == Registered \ Quarantined

TrustedContextFor(w) == {a \in trusted : owner[a] # w}

\* The one emitter numbers the drafts and the bus gets them as one batch.
Publish(drafts) ==
    /\ batch' = drafts
    /\ last_seq' = last_seq + Len(drafts)

\* The code's `self.step += 1`, capped.
NextStep == step < MaxStep /\ step' = step + 1

----------------------------------------------------------------------------
Init ==
    /\ security_state = [w \in Worker |-> "absent"]
    /\ current_task = {} /\ model_backed = {}
    /\ replaces = [w \in Worker |-> None]
    /\ owner = [a \in Artifact |-> None] /\ trusted = {}
    /\ workflow_state = "idle"
    /\ step = 0 /\ model_calls = 0
    /\ attack_detected = FALSE /\ recovery_required = FALSE
    /\ tests_passed = None
    \* last_seq is -1 in the code: seq is counted from 1 here.
    /\ last_seq = 0 /\ batch = << >>

\* A WorkerNode is assigned to the id, whatever the dict held for it.
PutWorker(w, r, backed, busy) ==
    /\ security_state' = [security_state EXCEPT ![w] = "healthy"]
    /\ replaces' = [replaces EXCEPT ![w] = r]
    /\ model_backed' = IF backed THEN model_backed \cup {w} ELSE model_backed \ {w}
    /\ current_task' = IF busy THEN current_task \cup {w} ELSE current_task \ {w}

RegisterWorker(w, r, backed) ==
    /\ NextStep
    /\ PutWorker(w, r, backed, FALSE)
    /\ Publish(<<Draft("AGENT_CREATED", w)>>)
    /\ UNCHANGED <<artifactVars, statusVars, tests_passed, model_calls>>

\* Variant: the quarantine check is forgotten.
StartAnyone(w) ==
    /\ NextStep
    /\ current_task' = current_task \cup {w}
    /\ workflow_state' = IF workflow_state = "idle" THEN "running" ELSE workflow_state
    /\ Publish(<<Draft("TASK_ASSIGNED", w), Draft("AGENT_STARTED", w)>>)
    /\ UNCHANGED <<security_state, replaces, model_backed, artifactVars,
                   attack_detected, recovery_required, tests_passed, model_calls>>

StartTask(w) ==
    /\ w \in Active
    /\ NextStep
    /\ current_task' = current_task \cup {w}
    /\ workflow_state' = IF workflow_state = "idle" THEN "running" ELSE workflow_state
    /\ Publish(<<Draft("TASK_ASSIGNED", w), Draft("AGENT_STARTED", w)>>)
    /\ UNCHANGED <<security_state, replaces, model_backed, artifactVars,
                   attack_detected, recovery_required, tests_passed, model_calls>>

FinishTask(w) ==
    /\ w \in Active
    /\ NextStep
    /\ current_task' = current_task \ {w}
    /\ Publish(<<Draft("TASK_COMPLETED", w)>>)
    /\ UNCHANGED <<security_state, replaces, model_backed, artifactVars,
                   statusVars, model_calls>>

CompleteTask(w) == FinishTask(w) /\ UNCHANGED tests_passed

RecordTestRun(w, passed) == FinishTask(w) /\ tests_passed' = passed

RecordModelCall(w) ==
    /\ w \in Active
    /\ NextStep
    /\ model_backed' = model_backed \cup {w}
    /\ model_calls' = model_calls + 1
    /\ Publish(<<Draft("MODEL_REQUESTED", w), Draft("MODEL_RESPONDED", w)>>)
    /\ UNCHANGED <<security_state, current_task, replaces, artifactVars,
                   statusVars, tests_passed>>

\* Variant: every worker of the dict may record, as if the route did not check.
RecordFromAnyone(a, w) ==
    /\ w \in Registered
    /\ owner' = [owner EXCEPT ![a] = w]
    /\ trusted' = trusted \cup {a}
    /\ UNCHANGED <<workerVars, statusVars, logVars, step, tests_passed, model_calls>>

\* record_artifact reads neither the id's previous owner nor its trust.
RecordArtifact(a, w) ==
    /\ w \in Active
    /\ owner' = [owner EXCEPT ![a] = w]
    /\ trusted' = trusted \cup {a}
    /\ UNCHANGED <<workerVars, statusVars, logVars, step, tests_passed, model_calls>>

----------------------------------------------------------------------------
RefuseQuarantined(w) ==
    /\ w \in Quarantined
    /\ NextStep
    /\ Publish(<<Draft("TOOL_REQUESTED", w), Draft("TOOL_DENIED", w)>>)
    /\ UNCHANGED <<workerVars, artifactVars, statusVars, tests_passed, model_calls>>

AllowResource(w) ==
    /\ w \in Active
    /\ NextStep
    /\ Publish(<<Draft("TOOL_REQUESTED", w), Draft("TOOL_EXECUTED", w)>>)
    /\ UNCHANGED <<workerVars, artifactVars, statusVars, tests_passed, model_calls>>

\* Variant: artifacts that were tainted before are listed again.
EverythingBy(w) == {a \in Artifact : owner[a] = w}

\* taint_artifacts_of: what the call taints and returns.
TaintedBy(w) == {a \in trusted : owner[a] = w}

\* Variant: only the first attack asks for a recovery.
RaiseFirstAlarm ==
    /\ attack_detected' = TRUE
    /\ recovery_required' = ~attack_detected
    /\ workflow_state' = "under_attack"

RaiseAlarm ==
    /\ attack_detected' = TRUE
    /\ recovery_required' = TRUE
    /\ workflow_state' = "under_attack"

\* _quarantine_drafts: `cascade` is what the caller publishes in front of it.
QuarantineAfter(w, cascade) ==
    /\ NextStep
    /\ security_state' = [security_state EXCEPT ![w] = "quarantined"]
    /\ current_task' = current_task \ {w}
    /\ trusted' = trusted \ TaintedBy(w)
    /\ RaiseAlarm
    /\ Publish(cascade \o <<DraftWith("AGENT_QUARANTINED", w, TaintedBy(w))>>)
    /\ UNCHANGED <<replaces, model_backed, owner, tests_passed, model_calls>>

DenyResource(w) ==
    /\ w \in Active
    /\ QuarantineAfter(w, <<Draft("TOOL_REQUESTED", w), Draft("TOOL_DENIED", w),
                            Draft("POLICY_VIOLATION", w),
                            Draft("ANOMALY_DETECTED", w)>>)

Quarantine(w) == w \in Active /\ QuarantineAfter(w, << >>)

----------------------------------------------------------------------------
\* The route refuses a context that names a tainted or an unknown artifact
\* (assert_context_is_trusted); it asks nothing else of the two workers than
\* that `from` be in the dict.
Reassign(from, to, context, backed) ==
    /\ from \in Registered
    /\ context \subseteq trusted
    /\ NextStep
    /\ PutWorker(to, from, backed, TRUE)
    /\ workflow_state' = "recovering"
    /\ recovery_required' = FALSE
    /\ Publish(<<DraftWith("TASK_REASSIGNED", from, {to}),
                 DraftWith("AGENT_CREATED", to, TrustedContextFor(to)),
                 Draft("AGENT_STARTED", to)>>)
    /\ UNCHANGED <<artifactVars, attack_detected, tests_passed, model_calls>>

Replacements == {w \in Active : replaces[w] # None}

\* Every enumeration of a finite set; the code's is the dict's own order.
Orders(S) == {f \in [1..Cardinality(S) -> S] :
                 \A i, j \in 1..Cardinality(S) : f[i] = f[j] => i = j}

Recover ==
    /\ NextStep
    /\ workflow_state' = "recovered"
    /\ recovery_required' = FALSE
    /\ security_state' = [w \in Worker |-> IF w \in Replacements
                                           THEN "recovered" ELSE security_state[w]]
    /\ \E order \in Orders(Replacements) :
         Publish([i \in DOMAIN order |-> Draft("AGENT_RECOVERED", order[i])]
                 \o <<DraftWith("WORKFLOW_RECOVERED", None, Quarantined)>>)
    /\ UNCHANGED <<current_task, replaces, model_backed, artifactVars,
                   attack_detected, tests_passed, model_calls>>

Fail ==
    /\ NextStep
    /\ workflow_state' = "failed"
    /\ Publish(<<Draft("EXPERIMENT_STOPPED", None)>>)
    /\ UNCHANGED <<workerVars, artifactVars, attack_detected, recovery_required,
                   tests_passed, model_calls>>

----------------------------------------------------------------------------
WorkerCall(w) ==
    \/ StartTask(w)
    \/ CompleteTask(w)
    \/ \E passed \in BOOLEAN : RecordTestRun(w, passed)
    \/ RecordModelCall(w)
    \/ \E a \in Artifact : RecordArtifact(a, w)
    \/ RefuseQuarantined(w)
    \/ AllowResource(w)
    \/ DenyResource(w)

ControlCall ==
    \/ \E w \in Worker, r \in Worker \cup {None}, backed \in BOOLEAN :
          RegisterWorker(w, r, backed)
    \/ \E w \in Worker : Quarantine(w)
    \/ \E from, to \in Worker, context \in SUBSET Artifact, backed \in BOOLEAN :
          Reassign(from, to, context, backed)
    \/ Recover
    \/ Fail

Next == ControlCall \/ \E w \in Worker : WorkerCall(w)

Spec == Init /\ [][Next]_vars

----------------------------------------------------------------------------
(* Properties *)

\* Every field holds a value of the code's type, and only a worker that is in
\* the dict holds a task, a model-backed flag or a replacement relation.
TypeOK ==
    /\ security_state \in [Worker -> SecurityState]
    /\ current_task \subseteq Registered /\ model_backed \subseteq Registered
    /\ replaces \in [Worker -> Worker \cup {None}]
    /\ owner \in [Artifact -> Worker \cup {None}]
    /\ trusted \subseteq Artifact
    /\ workflow_state \in WorkflowState
    /\ step \in 0..MaxStep /\ model_calls \in 0..step
    /\ attack_detected \in BOOLEAN /\ recovery_required \in BOOLEAN
    /\ tests_passed \in BOOLEAN \cup {None}
    /\ last_seq \in Nat
    /\ batch \in Seq(EventDraft)

\* Containment (taint_artifacts_of, record_artifact): an artifact that is
\* still trusted was produced by a worker that is still on the team, whatever
\* order recordings, overwrites, quarantines and replacements came in.
TrustedHasActiveOwner == \A a \in trusted : owner[a] \in Active

\* A quarantined worker holds no task, and the session knows of the attack:
\* neither flag can be lost by later registrations, recoveries or failures.
QuarantineIsAccounted ==
    \A w \in Quarantined : w \notin current_task /\ attack_detected

\* recovery_required agrees with the workflow's state machine: it is set while
\* under attack, and outlives that state only when the run was given up.
RecoveryFlagMatchesState ==
    /\ workflow_state = "under_attack" => recovery_required
    /\ recovery_required => attack_detected /\ workflow_state \in {"under_attack", "failed"}

Cascade(w) == <<Draft("TOOL_REQUESTED", w), Draft("TOOL_DENIED", w),
                Draft("POLICY_VIOLATION", w), Draft("ANOMALY_DETECTED", w)>>

\* The ordering contract of the deny cascade (request_resource): whenever a
\* worker becomes quarantined its AGENT_QUARANTINED event is the last of a batch
\* that holds the whole cascade or, for quarantine(), nothing else; it lists
\* exactly the artifacts that lose trust in that step, and nobody else changes.
QuarantineIsOneBatch ==
    [][\A w \in Worker :
         (security_state[w] # "quarantined" /\ security_state'[w] = "quarantined")
         => /\ Last(batch') = DraftWith("AGENT_QUARANTINED", w, trusted \ trusted')
            /\ Front(batch') \in {<< >>, Cascade(w)}
            /\ last_seq' = last_seq + Len(batch')
            /\ \A v \in Worker \ {w} : security_state'[v] = security_state[v]]_vars

\* Lost trust comes back only through a fresh recording by an active worker;
\* recovery, reassignment and re-registration launder nothing.
TaintIsSticky ==
    [][\A a \in Artifact :
         (owner[a] # None /\ a \notin trusted /\ a \in trusted')
         => owner'[a] \in Active /\ UNCHANGED <<workerVars, logVars>>]_vars

\* What a replacement is told it may be seeded with (the trusted_context of its
\* AGENT_CREATED event) holds nothing a quarantined worker produced, nothing of
\* its own, and no artifact that is not trusted when the event is read.
ReplacementContextIsClean ==
    [][\A i \in DOMAIN batch' :
         LET e == batch'[i] IN
         (last_seq' # last_seq /\ e.type = "AGENT_CREATED")
         => \A a \in e.refs : /\ a \in trusted'
                              /\ owner'[a] \notin {e.agent, None}
                              /\ security_state'[owner'[a]] # "quarantined"]_vars

\* How the session stands: each worker's security state, the workflow's state and its two
\* flags.  A snapshot has more, which no event says: what compromised a worker
\* (compromised_by) and, by its edges, which workers it was registered downstream of.
Status == [state |-> security_state, status |-> workflow_state,
         attack |-> attack_detected, recovery |-> recovery_required]

\* How it stands after one event.
Reduce(v, e) ==
    CASE e.type = "AGENT_CREATED" -> [v EXCEPT !.state[e.agent] = "healthy"]
      [] e.type = "AGENT_RECOVERED" -> [v EXCEPT !.state[e.agent] = "recovered"]
      [] e.type = "AGENT_STARTED" ->
           [v EXCEPT !.status = IF @ = "idle" THEN "running" ELSE @]
      [] e.type = "AGENT_QUARANTINED" ->
           [v EXCEPT !.state[e.agent] = "quarantined", !.status = "under_attack",
                     !.attack = TRUE, !.recovery = TRUE]
      [] e.type = "TASK_REASSIGNED" ->
           [v EXCEPT !.status = "recovering", !.recovery = FALSE]
      [] e.type = "WORKFLOW_RECOVERED" ->
           [v EXCEPT !.status = "recovered", !.recovery = FALSE]
      [] e.type = "EXPERIMENT_STOPPED" -> [v EXCEPT !.status = "failed"]
      [] OTHER -> v

\* The events a call publishes carry every change it makes to how the session stands:
\* who folds them over what it was before the call holds what it is after, in whatever
\* order starts, quarantines, replacements, recoveries and failures come.
EventsCarryTheStatus ==
    [][Status' = IF logVars' = logVars THEN Status ELSE FoldLeft(Reduce, Status, batch')]_vars
============================================================================
