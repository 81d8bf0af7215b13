------------------------ MODULE RuntimeSessionProofs ------------------------
(***************************************************************************)
(* Theorems about RuntimeSession, for every team, artifact set and MaxStep,  *)
(* and about the screen IncidentView draws of it, for every cap of its log.  *)
(***************************************************************************)
EXTENDS IncidentView, FiniteSetTheorems, SequenceTheorems, WellFoundedInduction, TLAPS

\* The conjunction the steps preserve.  Only the batch's type needs a lemma on
\* Recover; every other part is kept by the actions' own guards.
StateTypeOK ==
    /\ security_state \in [Worker -> SecurityState]
    /\ current_task \subseteq Registered /\ model_backed \subseteq Registered
    /\ replaces \in [Worker -> Worker \cup {None}]
    /\ owner \in [Artifact -> Worker \cup {None}]
    /\ trusted \subseteq Artifact
    /\ workflow_state \in WorkflowState
    /\ step \in 0..MaxStep /\ model_calls \in 0..step
    /\ attack_detected \in BOOLEAN /\ recovery_required \in BOOLEAN
    /\ tests_passed \in BOOLEAN \cup {None}

LogTypeOK == last_seq \in Nat /\ batch \in Seq(EventDraft)

\* A published batch of drafts keeps the log well typed.
LEMMA PublishType ==
    ASSUME LogTypeOK, NEW drafts \in Seq(EventDraft), Publish(drafts)
    PROVE  LogTypeOK'
  BY DEF LogTypeOK, Publish

\* ... and so does one whose last draft is appended to a cascade.
LEMMA PublishAfterType ==
    ASSUME LogTypeOK, NEW drafts \in Seq(EventDraft), NEW d \in EventDraft,
           Publish(drafts \o <<d>>)
    PROVE  LogTypeOK'
<1>1. drafts \o <<d>> \in Seq(EventDraft)
  OBVIOUS
<1> QED BY <1>1, PublishType

\* The two draft constructors build drafts.
LEMMA DraftType ==
    ASSUME NEW type \in EventType, NEW w \in Worker \cup {None},
           NEW refs \in SUBSET (Artifact \cup Worker)
    PROVE  Draft(type, w) \in EventDraft /\ DraftWith(type, w, refs) \in EventDraft
  BY DEF Draft, DraftWith, EventDraft

\* The AGENT_RECOVERED drafts of recover(), in whatever order, form a sequence.
LEMMA RecoveredDrafts ==
    ASSUME NEW S \in SUBSET Worker, NEW order \in Orders(S)
    PROVE  [i \in DOMAIN order |-> Draft("AGENT_RECOVERED", order[i])] \in Seq(EventDraft)
<1>1. IsFiniteSet(S)
  BY WorkerAssumption, FS_Subset
<1>2. Cardinality(S) \in Nat
  BY <1>1, FS_CardinalityType
<1>3. order \in [1..Cardinality(S) -> S]
  BY DEF Orders
<1>4. \A i \in 1..Cardinality(S) : Draft("AGENT_RECOVERED", order[i]) \in EventDraft
  <2> TAKE i \in 1..Cardinality(S)
  <2>1. order[i] \in Worker \cup {None} BY <1>3
  <2> QED BY <2>1 DEF Draft, EventDraft, EventType
<1>5. DOMAIN order = 1..Cardinality(S)
  BY <1>3
<1> QED BY <1>2, <1>4, <1>5

\* Every call leaves the log well typed.
LEMMA LogType == StateTypeOK /\ LogTypeOK /\ [Next]_vars => LogTypeOK'
<1> SUFFICES ASSUME StateTypeOK, LogTypeOK, [Next]_vars PROVE LogTypeOK'
  OBVIOUS
<1>t. \A w \in Worker : TrustedContextFor(w) \in SUBSET (Artifact \cup Worker)
                        /\ TaintedBy(w) \in SUBSET (Artifact \cup Worker)
  BY DEF StateTypeOK, TrustedContextFor, TaintedBy
<1>1. ASSUME NEW w \in Worker, WorkerCall(w) PROVE LogTypeOK'
  <2>1. CASE StartTask(w)
    BY <2>1 DEF StartTask, Publish, LogTypeOK, Draft, EventDraft, EventType
  <2>2. CASE CompleteTask(w)
    BY <2>2 DEF CompleteTask, FinishTask, Publish, LogTypeOK, Draft, EventDraft, EventType
  <2>3. CASE \E passed \in BOOLEAN : RecordTestRun(w, passed)
    BY <2>3 DEF RecordTestRun, FinishTask, Publish, LogTypeOK, Draft, EventDraft, EventType
  <2>4. CASE RecordModelCall(w)
    BY <2>4 DEF RecordModelCall, Publish, LogTypeOK, Draft, EventDraft, EventType
  <2>5. CASE \E a \in Artifact : RecordArtifact(a, w)
    BY <2>5 DEF RecordArtifact, logVars, LogTypeOK
  <2>6. CASE RefuseQuarantined(w)
    BY <2>6 DEF RefuseQuarantined, Publish, LogTypeOK, Draft, EventDraft, EventType
  <2>7. CASE AllowResource(w)
    BY <2>7 DEF AllowResource, Publish, LogTypeOK, Draft, EventDraft, EventType
  <2>8. CASE DenyResource(w)
    <3>1. DraftWith("AGENT_QUARANTINED", w, TaintedBy(w)) \in EventDraft
      BY <1>t, DraftType DEF EventType
    <3>2. /\ Draft("TOOL_REQUESTED", w) \in EventDraft
          /\ Draft("TOOL_DENIED", w) \in EventDraft
          /\ Draft("POLICY_VIOLATION", w) \in EventDraft
          /\ Draft("ANOMALY_DETECTED", w) \in EventDraft
      BY DEF Draft, EventDraft, EventType
    <3>3. Publish(<<Draft("TOOL_REQUESTED", w), Draft("TOOL_DENIED", w),
                    Draft("POLICY_VIOLATION", w), Draft("ANOMALY_DETECTED", w)>>
                  \o <<DraftWith("AGENT_QUARANTINED", w, TaintedBy(w))>>)
      BY <2>8 DEF DenyResource, QuarantineAfter
    <3>4. <<Draft("TOOL_REQUESTED", w), Draft("TOOL_DENIED", w),
            Draft("POLICY_VIOLATION", w), Draft("ANOMALY_DETECTED", w)>>
          \in Seq(EventDraft)
      BY <3>2
    <3> QED BY <3>1, <3>3, <3>4, PublishAfterType
  <2> QED BY <1>1, <2>1, <2>2, <2>3, <2>4, <2>5, <2>6, <2>7, <2>8 DEF WorkerCall
<1>2. CASE \E w \in Worker, r \in Worker \cup {None}, backed \in BOOLEAN :
             RegisterWorker(w, r, backed)
  BY <1>2 DEF RegisterWorker, Publish, LogTypeOK, Draft, EventDraft, EventType
<1>3. ASSUME NEW w \in Worker, Quarantine(w) PROVE LogTypeOK'
  <2>1. DraftWith("AGENT_QUARANTINED", w, TaintedBy(w)) \in EventDraft
    BY <1>t, DraftType DEF EventType
  <2>2. Publish(<< >> \o <<DraftWith("AGENT_QUARANTINED", w, TaintedBy(w))>>)
    BY <1>3 DEF Quarantine, QuarantineAfter
  <2>3. << >> \in Seq(EventDraft)
    OBVIOUS
  <2> QED BY <2>1, <2>2, <2>3, PublishAfterType
<1>4. ASSUME NEW from \in Worker, NEW to \in Worker, NEW context \in SUBSET Artifact,
             NEW backed \in BOOLEAN, Reassign(from, to, context, backed)
      PROVE LogTypeOK'
  <2>1. /\ DraftWith("TASK_REASSIGNED", from, {to}) \in EventDraft
        /\ DraftWith("AGENT_CREATED", to, TrustedContextFor(to)) \in EventDraft
        /\ Draft("AGENT_STARTED", to) \in EventDraft
    BY <1>t, DraftType DEF EventType
  <2>2. Publish(<<DraftWith("TASK_REASSIGNED", from, {to}),
                  DraftWith("AGENT_CREATED", to, TrustedContextFor(to)),
                  Draft("AGENT_STARTED", to)>>)
    BY <1>4 DEF Reassign
  <2>3. <<DraftWith("TASK_REASSIGNED", from, {to}),
          DraftWith("AGENT_CREATED", to, TrustedContextFor(to)),
          Draft("AGENT_STARTED", to)>> \in Seq(EventDraft)
    BY <2>1
  <2> QED BY <2>2, <2>3, PublishType
<1>5. CASE Recover
  <2>1. Replacements \in SUBSET Worker
    BY DEF Replacements, Active, Registered
  <2>2. PICK order \in Orders(Replacements) :
          Publish([i \in DOMAIN order |-> Draft("AGENT_RECOVERED", order[i])]
                  \o <<DraftWith("WORKFLOW_RECOVERED", None, Quarantined)>>)
    BY <1>5 DEF Recover
  <2>3. [i \in DOMAIN order |-> Draft("AGENT_RECOVERED", order[i])] \in Seq(EventDraft)
    BY <2>1, <2>2, RecoveredDrafts
  <2>4. DraftWith("WORKFLOW_RECOVERED", None, Quarantined) \in EventDraft
    BY DEF DraftWith, EventDraft, EventType, Quarantined
  <2> QED BY <2>2, <2>3, <2>4, PublishAfterType
<1>6. CASE Fail
  BY <1>6 DEF Fail, Publish, LogTypeOK, Draft, EventDraft, EventType
<1>7. CASE UNCHANGED vars
  BY <1>7 DEF vars, logVars, LogTypeOK
<1> QED BY <1>1, <1>2, <1>3, <1>4, <1>5, <1>6, <1>7 DEF Next, ControlCall

----------------------------------------------------------------------------
\* TypeOK is the two halves together.
LEMMA TypeOKSplit == TypeOK <=> StateTypeOK /\ LogTypeOK
  BY DEF TypeOK, StateTypeOK, LogTypeOK

\* Every call keeps the session's state well typed.
LEMMA StateType == StateTypeOK /\ [Next]_vars => StateTypeOK'
<1> SUFFICES ASSUME StateTypeOK, [Next]_vars PROVE StateTypeOK'
  OBVIOUS
<1> USE MaxStepAssumption DEF StateTypeOK, Registered, SecurityState, WorkflowState, NextStep
<1>1. ASSUME NEW w \in Worker, StartTask(w) PROVE StateTypeOK'
  BY <1>1 DEF StartTask, Active, artifactVars
<1>2. ASSUME NEW w \in Worker, CompleteTask(w) PROVE StateTypeOK'
  BY <1>2 DEF CompleteTask, FinishTask, artifactVars, statusVars
<1>3. ASSUME NEW w \in Worker, NEW passed \in BOOLEAN, RecordTestRun(w, passed)
      PROVE StateTypeOK'
  BY <1>3 DEF RecordTestRun, FinishTask, artifactVars, statusVars
<1>4. ASSUME NEW w \in Worker, RecordModelCall(w) PROVE StateTypeOK'
  BY <1>4 DEF RecordModelCall, Active, artifactVars, statusVars
<1>5. ASSUME NEW w \in Worker, NEW a \in Artifact, RecordArtifact(a, w)
      PROVE StateTypeOK'
  BY <1>5 DEF RecordArtifact, workerVars, statusVars
<1>6. ASSUME NEW w \in Worker, RefuseQuarantined(w) \/ AllowResource(w)
      PROVE StateTypeOK'
  BY <1>6 DEF RefuseQuarantined, AllowResource, workerVars, artifactVars, statusVars
<1>7. ASSUME NEW w \in Worker, DenyResource(w) \/ Quarantine(w) PROVE StateTypeOK'
  <2>1. /\ security_state' = [security_state EXCEPT ![w] = "quarantined"]
        /\ current_task' = current_task \ {w}
        /\ trusted' = trusted \ TaintedBy(w)
        /\ attack_detected' = TRUE /\ recovery_required' = TRUE
        /\ workflow_state' = "under_attack" /\ NextStep
        /\ UNCHANGED <<replaces, model_backed, owner, tests_passed, model_calls>>
    BY <1>7 DEF DenyResource, Quarantine, QuarantineAfter, RaiseAlarm
  <2>2. security_state' \in [Worker -> SecurityState] /\ Registered \subseteq Registered'
    BY <2>1
  <2> QED BY <2>1, <2>2
<1>8. ASSUME NEW w \in Worker, NEW r \in Worker \cup {None}, NEW backed \in BOOLEAN,
             RegisterWorker(w, r, backed)
      PROVE StateTypeOK'
  BY <1>8 DEF RegisterWorker, PutWorker, artifactVars, statusVars
<1>9. ASSUME NEW from \in Worker, NEW to \in Worker, NEW context \in SUBSET Artifact,
             NEW backed \in BOOLEAN, Reassign(from, to, context, backed)
      PROVE StateTypeOK'
  <2>1. /\ PutWorker(to, from, backed, TRUE) /\ NextStep
        /\ workflow_state' = "recovering" /\ recovery_required' = FALSE
        /\ UNCHANGED <<owner, trusted, attack_detected, tests_passed, model_calls>>
    BY <1>9 DEF Reassign, artifactVars
  <2>2. /\ security_state' \in [Worker -> SecurityState]
        /\ replaces' \in [Worker -> Worker \cup {None}]
        /\ Registered \cup {to} \subseteq Registered'
    BY <2>1 DEF PutWorker
  <2>3. current_task' \subseteq Registered' /\ model_backed' \subseteq Registered'
    BY <2>1, <2>2 DEF PutWorker
  <2>4. recovery_required' \in BOOLEAN
    <3>1. recovery_required' = FALSE BY <2>1
    <3> QED BY ONLY <3>1, Zenon
  <2> QED BY <2>1, <2>2, <2>3, <2>4
<1>10. CASE Recover
  <2>1. /\ security_state' = [w \in Worker |-> IF w \in Replacements
                                                THEN "recovered" ELSE security_state[w]]
        /\ NextStep /\ workflow_state' = "recovered" /\ recovery_required' = FALSE
        /\ UNCHANGED <<current_task, replaces, model_backed, owner, trusted,
                       attack_detected, tests_passed, model_calls>>
    BY <1>10 DEF Recover, artifactVars
  <2>2. security_state' \in [Worker -> SecurityState] /\ Registered \subseteq Registered'
    BY <2>1
  <2>3. recovery_required' \in BOOLEAN
    <3>1. recovery_required' = FALSE BY <2>1
    <3> QED BY ONLY <3>1, Zenon
  <2> QED BY <2>1, <2>2, <2>3
<1>11. CASE Fail
  BY <1>11 DEF Fail, workerVars, artifactVars
<1>12. CASE UNCHANGED vars
  BY <1>12 DEF vars, workerVars, artifactVars, statusVars
<1> HIDE DEF StateTypeOK, Registered, SecurityState, WorkflowState, NextStep
<1> QED BY <1>1, <1>2, <1>3, <1>4, <1>5, <1>6, <1>7, <1>8, <1>9, <1>10, <1>11, <1>12
        DEF Next, ControlCall, WorkerCall

\* The session's state and its event log hold values of the code's types
\* whatever calls arrive in whatever order (LiveRuntimeSession's fields).
THEOREM TypeCorrect == Spec => []TypeOK
<1>1. Init => TypeOK
  <2> SUFFICES ASSUME Init PROVE StateTypeOK /\ LogTypeOK
    BY TypeOKSplit
  <2>0. attack_detected \in BOOLEAN /\ recovery_required \in BOOLEAN
    <3>1. attack_detected = FALSE /\ recovery_required = FALSE BY DEF Init
    <3> QED BY ONLY <3>1, Zenon
  <2>1. StateTypeOK
    BY <2>0, MaxStepAssumption DEF Init, StateTypeOK, SecurityState, WorkflowState, Registered
  <2>2. LogTypeOK
    BY DEF Init, LogTypeOK
  <2> QED BY <2>1, <2>2
<1>2. TypeOK /\ [Next]_vars => TypeOK'
  <2> SUFFICES ASSUME StateTypeOK, LogTypeOK, [Next]_vars PROVE StateTypeOK' /\ LogTypeOK'
    BY TypeOKSplit DEF TypeOK, StateTypeOK, LogTypeOK
  <2> QED BY StateType, LogType
<1> QED BY <1>1, <1>2, PTL DEF Spec

----------------------------------------------------------------------------
\* What quarantine means, as one inductive invariant: trust follows the owner,
\* and the flags follow the workflow's state machine.
Safe ==
    /\ TrustedHasActiveOwner
    /\ QuarantineIsAccounted
    /\ RecoveryFlagMatchesState

\* Every call preserves the three safety invariants together.
LEMMA SafeStep == StateTypeOK /\ Safe /\ [Next]_vars => Safe'
<1> SUFFICES ASSUME StateTypeOK, Safe, [Next]_vars PROVE Safe'
  OBVIOUS
<1> USE DEF StateTypeOK, Safe, TrustedHasActiveOwner, QuarantineIsAccounted,
            RecoveryFlagMatchesState, Active, Registered, Quarantined
<1>1. ASSUME NEW w \in Worker, StartTask(w) PROVE Safe'
  BY <1>1 DEF StartTask, artifactVars, WorkflowState
<1>2. ASSUME NEW w \in Worker, CompleteTask(w) PROVE Safe'
  BY <1>2 DEF CompleteTask, FinishTask, artifactVars, statusVars
<1>3. ASSUME NEW w \in Worker, NEW passed \in BOOLEAN, RecordTestRun(w, passed) PROVE Safe'
  BY <1>3 DEF RecordTestRun, FinishTask, artifactVars, statusVars
<1>4. ASSUME NEW w \in Worker, RecordModelCall(w) PROVE Safe'
  BY <1>4 DEF RecordModelCall, artifactVars, statusVars
<1>5. ASSUME NEW w \in Worker, NEW a \in Artifact, RecordArtifact(a, w) PROVE Safe'
  BY <1>5 DEF RecordArtifact, workerVars, statusVars
<1>6. ASSUME NEW w \in Worker, RefuseQuarantined(w) \/ AllowResource(w) PROVE Safe'
  BY <1>6 DEF RefuseQuarantined, AllowResource, workerVars, artifactVars, statusVars
<1>7. ASSUME NEW w \in Worker, DenyResource(w) \/ Quarantine(w) PROVE Safe'
  BY <1>7 DEF DenyResource, Quarantine, QuarantineAfter, RaiseAlarm, TaintedBy
<1>8. ASSUME NEW w \in Worker, NEW r \in Worker \cup {None}, NEW backed \in BOOLEAN,
             RegisterWorker(w, r, backed)
      PROVE Safe'
  BY <1>8 DEF RegisterWorker, PutWorker, artifactVars, statusVars
<1>9. ASSUME NEW from \in Worker, NEW to \in Worker, NEW context \in SUBSET Artifact,
             NEW backed \in BOOLEAN, Reassign(from, to, context, backed)
      PROVE Safe'
  BY <1>9 DEF Reassign, PutWorker, artifactVars
<1>10. CASE Recover
  BY <1>10 DEF Recover, Replacements, artifactVars
<1>11. CASE Fail
  BY <1>11 DEF Fail, workerVars, artifactVars
<1>12. CASE UNCHANGED vars
  BY <1>12 DEF vars, workerVars, artifactVars, statusVars
<1> HIDE DEF StateTypeOK, Safe, TrustedHasActiveOwner, QuarantineIsAccounted,
            RecoveryFlagMatchesState, Active, Registered, Quarantined
<1> QED BY <1>1, <1>2, <1>3, <1>4, <1>5, <1>6, <1>7, <1>8, <1>9, <1>10, <1>11, <1>12
        DEF Next, ControlCall, WorkerCall

\* The inductive invariant holds in every reachable state.
THEOREM SessionSafe == Spec => []Safe
<1>1. Init => Safe
  BY DEF Init, Safe, TrustedHasActiveOwner, QuarantineIsAccounted,
         RecoveryFlagMatchesState, Quarantined
<1>2. TypeOK /\ Safe /\ [Next]_vars => Safe'
  BY TypeOKSplit, SafeStep
<1> QED BY <1>1, <1>2, TypeCorrect, PTL DEF Spec

\* Containment: no artifact of a quarantined worker is ever still trusted.
THEOREM Containment == Spec => []TrustedHasActiveOwner
<1>1. Safe => TrustedHasActiveOwner
  BY DEF Safe
<1> QED BY <1>1, SessionSafe, PTL

\* The recovery flag and the workflow's state machine never disagree.
THEOREM RecoveryFlag == Spec => []RecoveryFlagMatchesState
<1>1. Safe => RecoveryFlagMatchesState
  BY DEF Safe
<1> QED BY <1>1, SessionSafe, PTL

\* A quarantined worker holds no task, and the session never forgets the attack.
THEOREM QuarantineAccounted == Spec => []QuarantineIsAccounted
<1>1. Safe => QuarantineIsAccounted
  BY DEF Safe
<1> QED BY <1>1, SessionSafe, PTL

----------------------------------------------------------------------------
\* Only record_artifact adds to the trusted artifacts; everything else the step
\* then has to satisfy is its guard and what it leaves alone.
LEMMA TrustStep ==
    ASSUME StateTypeOK, [Next]_vars, NEW a \in Artifact, a \notin trusted, a \in trusted'
    PROVE  \E w \in Worker : RecordArtifact(a, w)
<1>1. ASSUME NEW w \in Worker, WorkerCall(w) PROVE \E v \in Worker : RecordArtifact(a, v)
  <2>1. CASE \E b \in Artifact : RecordArtifact(b, w)
    <3>1. PICK b \in Artifact : RecordArtifact(b, w) BY <2>1
    <3>2. a = b BY <3>1 DEF RecordArtifact
    <3> QED BY <3>1, <3>2
  <2>2. CASE DenyResource(w)
    BY <2>2 DEF DenyResource, QuarantineAfter
  <2>3. CASE \/ StartTask(w) \/ CompleteTask(w) \/ \E passed \in BOOLEAN : RecordTestRun(w, passed)
             \/ RecordModelCall(w) \/ RefuseQuarantined(w) \/ AllowResource(w)
    BY <2>3 DEF StartTask, CompleteTask, RecordTestRun, FinishTask, RecordModelCall,
                RefuseQuarantined, AllowResource, artifactVars
  <2> QED BY <1>1, <2>1, <2>2, <2>3 DEF WorkerCall
<1>2. CASE ControlCall
  BY <1>2 DEF ControlCall, RegisterWorker, Quarantine, QuarantineAfter, Reassign, Recover, Fail,
              artifactVars
<1>3. CASE UNCHANGED vars
  BY <1>3 DEF vars, artifactVars
<1> QED BY <1>1, <1>2, <1>3 DEF Next

\* Lost trust comes back only by a fresh recording of an active worker, whatever
\* recoveries, reassignments and registrations lie between (record_artifact).
THEOREM TaintStays == Spec => TaintIsSticky
<1>1. TypeOK /\ [Next]_vars =>
        [\A a \in Artifact :
           (owner[a] # None /\ a \notin trusted /\ a \in trusted')
           => owner'[a] \in Active /\ UNCHANGED <<workerVars, logVars>>]_vars
  <2> SUFFICES ASSUME StateTypeOK, [Next]_vars, NEW a \in Artifact, a \notin trusted, a \in trusted'
               PROVE  owner'[a] \in Active /\ UNCHANGED <<workerVars, logVars>>
    BY TypeOKSplit
  <2>1. PICK w \in Worker : RecordArtifact(a, w)
    BY TrustStep
  <2> QED BY <2>1 DEF RecordArtifact, StateTypeOK
<1> QED BY <1>1, TypeCorrect, PTL DEF Spec, TaintIsSticky

----------------------------------------------------------------------------
\* Drafts that do not introduce a worker.
Others == {e \in EventDraft : e.type # "AGENT_CREATED"}

\* A batch of a reassignment is the only one whose AGENT_CREATED names artifacts.
LEMMA WhoIsCreated ==
    ASSUME StateTypeOK, [Next]_vars, last_seq' # last_seq, NEW i \in DOMAIN batch',
           batch'[i].type = "AGENT_CREATED"
    PROVE  \/ batch'[i].refs = {}
           \/ \E from, to \in Worker, context \in SUBSET Artifact, backed \in BOOLEAN :
                Reassign(from, to, context, backed)
                /\ batch'[i] = DraftWith("AGENT_CREATED", to, TrustedContextFor(to))
<1>t. \A w \in Worker : TaintedBy(w) \in SUBSET (Artifact \cup Worker)
  BY DEF StateTypeOK, TaintedBy
<1>o. batch' \notin Seq(Others)
  BY DEF Others
<1>d. ASSUME NEW type \in EventType, type # "AGENT_CREATED", NEW w \in Worker \cup {None},
             NEW refs \in SUBSET (Artifact \cup Worker)
      PROVE  Draft(type, w) \in Others /\ DraftWith(type, w, refs) \in Others
  BY <1>d, DraftType DEF Others, Draft, DraftWith
<1>1. ASSUME NEW w \in Worker, WorkerCall(w) PROVE FALSE
  <2>d. ASSUME NEW type \in EventType, type # "AGENT_CREATED"
        PROVE  Draft(type, w) \in Others
    BY <1>d, <2>d
  <2>1. CASE StartTask(w) \/ RecordModelCall(w) \/ RefuseQuarantined(w) \/ AllowResource(w)
    <3>1. \E a, b \in EventType \ {"AGENT_CREATED"} : batch' = <<Draft(a, w), Draft(b, w)>>
      BY <2>1 DEF StartTask, RecordModelCall, RefuseQuarantined, AllowResource, Publish, EventType
    <3> QED BY <3>1, <2>d, <1>o
  <2>2. CASE CompleteTask(w) \/ \E passed \in BOOLEAN : RecordTestRun(w, passed)
    <3>1. batch' = <<Draft("TASK_COMPLETED", w)>>
      BY <2>2 DEF CompleteTask, RecordTestRun, FinishTask, Publish
    <3>2. Draft("TASK_COMPLETED", w) \in Others
      BY <2>d DEF EventType
    <3> QED BY <3>1, <3>2, <1>o
  <2>3. CASE \E a \in Artifact : RecordArtifact(a, w)
    BY <2>3 DEF RecordArtifact, logVars
  <2>4. CASE DenyResource(w)
    <3>1. DraftWith("AGENT_QUARANTINED", w, TaintedBy(w)) \in Others
      BY <1>t, <1>d DEF EventType
    <3>2. <<Draft("TOOL_REQUESTED", w), Draft("TOOL_DENIED", w),
            Draft("POLICY_VIOLATION", w), Draft("ANOMALY_DETECTED", w)>> \in Seq(Others)
      <4>1. /\ Draft("TOOL_REQUESTED", w) \in Others /\ Draft("TOOL_DENIED", w) \in Others
            /\ Draft("POLICY_VIOLATION", w) \in Others
            /\ Draft("ANOMALY_DETECTED", w) \in Others
        BY <2>d DEF EventType
      <4> QED BY <4>1
    <3>3. batch' = <<Draft("TOOL_REQUESTED", w), Draft("TOOL_DENIED", w),
                     Draft("POLICY_VIOLATION", w), Draft("ANOMALY_DETECTED", w)>>
                   \o <<DraftWith("AGENT_QUARANTINED", w, TaintedBy(w))>>
      BY <2>4 DEF DenyResource, QuarantineAfter, Publish
    <3> QED BY <3>1, <3>2, <3>3, <1>o
  <2> QED BY <1>1, <2>1, <2>2, <2>3, <2>4 DEF WorkerCall
<1>2. ASSUME NEW w \in Worker, NEW r \in Worker \cup {None}, NEW backed \in BOOLEAN,
             RegisterWorker(w, r, backed)
      PROVE  batch'[i].refs = {}
  BY <1>2 DEF RegisterWorker, Publish, Draft
<1>3. ASSUME NEW w \in Worker, Quarantine(w) PROVE FALSE
  <2>1. DraftWith("AGENT_QUARANTINED", w, TaintedBy(w)) \in Others
    BY <1>t, <1>d DEF EventType
  <2>2. batch' = << >> \o <<DraftWith("AGENT_QUARANTINED", w, TaintedBy(w))>>
    BY <1>3 DEF Quarantine, QuarantineAfter, Publish
  <2> QED BY <2>1, <2>2, <1>o
<1>4. ASSUME NEW from \in Worker, NEW to \in Worker, NEW context \in SUBSET Artifact,
             NEW backed \in BOOLEAN, Reassign(from, to, context, backed)
      PROVE  batch'[i] = DraftWith("AGENT_CREATED", to, TrustedContextFor(to))
  BY <1>4 DEF Reassign, Publish, Draft, DraftWith
<1>5. CASE Recover
  <2>1. PICK order \in Orders(Replacements) :
          batch' = [j \in DOMAIN order |-> Draft("AGENT_RECOVERED", order[j])]
                   \o <<DraftWith("WORKFLOW_RECOVERED", None, Quarantined)>>
    BY <1>5 DEF Recover, Publish
  <2>2. [j \in DOMAIN order |-> Draft("AGENT_RECOVERED", order[j])] \in Seq(Others)
    <3>1. [j \in DOMAIN order |-> Draft("AGENT_RECOVERED", order[j])] \in Seq(EventDraft)
      BY RecoveredDrafts DEF Replacements, Active, Registered
    <3>2. \A j \in DOMAIN order : Draft("AGENT_RECOVERED", order[j]).type # "AGENT_CREATED"
      BY DEF Draft
    <3> QED BY <3>1, <3>2 DEF Others
  <2>3. DraftWith("WORKFLOW_RECOVERED", None, Quarantined) \in Others
    BY DEF DraftWith, Others, EventDraft, EventType, Quarantined
  <2> QED BY <2>1, <2>2, <2>3, <1>o
<1>6. CASE Fail
  BY <1>6 DEF Fail, Publish, Draft
<1>7. CASE UNCHANGED vars
  BY <1>7 DEF vars, logVars
<1> QED BY <1>1, <1>2, <1>3, <1>4, <1>5, <1>6, <1>7 DEF Next, ControlCall

\* What a replacement is told it may be seeded with was produced by others, is
\* trusted, and comes from nobody under quarantine (trusted_context_for, reassign).
THEOREM CleanContext == Spec => ReplacementContextIsClean
<1> DEFINE Clean ==
        \A i \in DOMAIN batch' :
          (last_seq' # last_seq /\ batch'[i].type = "AGENT_CREATED")
          => \A a \in batch'[i].refs : /\ a \in trusted'
                                       /\ owner'[a] \notin {batch'[i].agent, None}
                                       /\ security_state'[owner'[a]] # "quarantined"
<1>1. TypeOK /\ Safe /\ [Next]_vars => [Clean]_vars
  <2> SUFFICES ASSUME StateTypeOK, Safe, [Next]_vars, NEW i \in DOMAIN batch',
                      last_seq' # last_seq, batch'[i].type = "AGENT_CREATED",
                      NEW a \in batch'[i].refs
               PROVE  /\ a \in trusted'
                      /\ owner'[a] \notin {batch'[i].agent, None}
                      /\ security_state'[owner'[a]] # "quarantined"
    BY TypeOKSplit
  <2>1. PICK from \in Worker, to \in Worker, context \in SUBSET Artifact, backed \in BOOLEAN :
          Reassign(from, to, context, backed)
          /\ batch'[i] = DraftWith("AGENT_CREATED", to, TrustedContextFor(to))
    BY WhoIsCreated
  <2>2. a \in trusted /\ owner[a] # to /\ batch'[i].agent = to
    BY <2>1 DEF DraftWith, TrustedContextFor
  <2>3. owner[a] \in Active
    BY <2>2 DEF Safe, TrustedHasActiveOwner
  <2>4. trusted' = trusted /\ owner' = owner
    BY <2>1 DEF Reassign, artifactVars
  <2>5. security_state' = [security_state EXCEPT ![to] = "healthy"]
    BY <2>1 DEF Reassign, PutWorker
  <2> QED BY <2>2, <2>3, <2>4, <2>5, WorkerAssumption
          DEF Active, Registered, Quarantined, StateTypeOK
<1>2. [][Clean]_vars => ReplacementContextIsClean
  BY PTL DEF ReplacementContextIsClean
<1> QED BY <1>1, <1>2, TypeCorrect, SessionSafe, PTL DEF Spec


----------------------------------------------------------------------------
\* Only the two quarantine calls quarantine a worker, and they touch no other.
LEMMA WhoIsQuarantined ==
    ASSUME StateTypeOK, [Next]_vars, NEW w \in Worker,
           security_state[w] # "quarantined", security_state'[w] = "quarantined"
    PROVE  \E cascade \in {<< >>, Cascade(w)} : QuarantineAfter(w, cascade)
<1>1. ASSUME NEW v \in Worker, DenyResource(v) \/ Quarantine(v)
      PROVE  \E cascade \in {<< >>, Cascade(w)} : QuarantineAfter(w, cascade)
  <2>1. v = w
    BY <1>1 DEF DenyResource, Quarantine, QuarantineAfter, StateTypeOK
  <2> QED
    BY <1>1, <2>1 DEF DenyResource, Quarantine, Cascade
<1>2. ASSUME NEW v \in Worker, NEW a \in Artifact, RecordArtifact(a, v)
      PROVE  FALSE
  BY <1>2 DEF RecordArtifact, workerVars
<1>3. ASSUME NEW v \in Worker,
             \/ StartTask(v) \/ CompleteTask(v) \/ \E passed \in BOOLEAN : RecordTestRun(v, passed)
             \/ RecordModelCall(v) \/ RefuseQuarantined(v) \/ AllowResource(v)
      PROVE  FALSE
  BY <1>3 DEF StartTask, CompleteTask, RecordTestRun, FinishTask, RecordModelCall,
              RefuseQuarantined, AllowResource, workerVars
<1>4. ASSUME NEW v \in Worker, NEW r, NEW backed, RegisterWorker(v, r, backed)
      PROVE  FALSE
  BY <1>4 DEF RegisterWorker, PutWorker, StateTypeOK
<1>5. ASSUME NEW v \in Worker, NEW to \in Worker, NEW context, NEW backed,
             Reassign(v, to, context, backed)
      PROVE  FALSE
  BY <1>5 DEF Reassign, PutWorker, StateTypeOK
<1>6. ASSUME Recover \/ Fail \/ UNCHANGED vars
      PROVE  FALSE
  BY <1>6 DEF Recover, Fail, vars, workerVars, StateTypeOK
<1> QED
  BY <1>1, <1>2, <1>3, <1>4, <1>5, <1>6 DEF Next, ControlCall, WorkerCall

\* What a batch ends with, and what stands in front of it.
LEMMA EndOfABatch ==
    ASSUME NEW drafts \in Seq(EventDraft), NEW d \in EventDraft
    PROVE  Last(drafts \o <<d>>) = d /\ Front(drafts \o <<d>>) = drafts
<1> DEFINE all == drafts \o <<d>>
           n == Len(drafts)
<1>1. /\ all \in Seq(EventDraft) /\ Len(all) = n + 1 /\ n \in Nat /\ all[n + 1] = d
      /\ \A i \in 1..n : all[i] = drafts[i]
  OBVIOUS
<1>2. Front(all) \in Seq(EventDraft) /\ Len(Front(all)) = n /\ \A i \in 1..n : Front(all)[i] = all[i]
  <2> HIDE DEF all, n
  <2>1. Front(all) = SubSeq(all, 1, n)
    BY <1>1 DEF Front
  <2> QED
    BY <1>1, <2>1
<1>3. Front(all) = drafts
  <2> HIDE DEF all
  <2>1. DOMAIN Front(all) = 1..n /\ DOMAIN drafts = 1..n
    BY <1>2
  <2> QED
    BY <1>1, <1>2, SeqEqual
<1> QED
  BY <1>1, <1>3 DEF Last

\* The deny cascade is one batch with AGENT_QUARANTINED at its end, which lists exactly
\* the artifacts that lose trust (request_resource, _quarantine_drafts).
THEOREM OneBatch == Spec => QuarantineIsOneBatch
<1> DEFINE Ordered(w) ==
             /\ Last(batch') = DraftWith("AGENT_QUARANTINED", w, trusted \ trusted')
             /\ Front(batch') \in {<< >>, Cascade(w)}
             /\ last_seq' = last_seq + Len(batch')
             /\ \A v \in Worker \ {w} : security_state'[v] = security_state[v]
<1>1. TypeOK /\ [Next]_vars =>
        [\A w \in Worker :
           (security_state[w] # "quarantined" /\ security_state'[w] = "quarantined")
           => Ordered(w)]_vars
  <2> SUFFICES ASSUME StateTypeOK, [Next]_vars, NEW w \in Worker,
                      security_state[w] # "quarantined", security_state'[w] = "quarantined"
               PROVE  Ordered(w)
    BY TypeOKSplit
  <2>1. PICK cascade \in {<< >>, Cascade(w)} : QuarantineAfter(w, cascade)
    BY WhoIsQuarantined
  <2> DEFINE last == DraftWith("AGENT_QUARANTINED", w, TaintedBy(w))
  <2>2. cascade \in Seq(EventDraft) /\ last \in EventDraft
    <3>1. TaintedBy(w) \subseteq Artifact
      BY DEF TaintedBy, StateTypeOK
    <3>2. last \in EventDraft
      BY <3>1, DraftType DEF EventType
    <3>3. \A type \in EventType : Draft(type, w) \in EventDraft
      BY DEF Draft, EventDraft
    <3>4. Cascade(w) \in Seq(EventDraft)
      BY <3>3 DEF Cascade, EventType
    <3>5. << >> \in Seq(EventDraft)
      BY EmptySeq
    <3>6. cascade = << >> \/ cascade = Cascade(w)
      OBVIOUS
    <3> HIDE DEF last
    <3> QED
      BY <3>2, <3>4, <3>5, <3>6, Zenon
  <2>3. batch' = cascade \o <<last>> /\ last_seq' = last_seq + Len(batch')
    BY <2>1 DEF QuarantineAfter, Publish
  <2>4. trusted \ trusted' = TaintedBy(w)
    BY <2>1 DEF QuarantineAfter, TaintedBy
  <2>5. \A v \in Worker \ {w} : security_state'[v] = security_state[v]
    BY <2>1 DEF QuarantineAfter, StateTypeOK
  <2> HIDE DEF last
  <2>6. Last(batch') = last /\ Front(batch') = cascade
    BY <2>2, <2>3, EndOfABatch
  <2> QED
    BY <2>3, <2>4, <2>5, <2>6 DEF last
<1> QED
  BY <1>1, TypeCorrect, PTL DEF Spec, QuarantineIsOneBatch

----------------------------------------------------------------------------
(* Snapshot, then deltas: what the fold of a batch computes *)

\* Induction over the naturals up to n, stated of a set.
LEMMA UpTo ==
    ASSUME NEW n \in Nat, NEW S, 0 \in S, \A k \in 0..(n - 1) : k \in S => k + 1 \in S
    PROVE  0..n \subseteq S
<1> DEFINE T == (0..n) \ S
<1> SUFFICES ASSUME T # {}
             PROVE  FALSE
  OBVIOUS
<1>1. T \subseteq Nat
  OBVIOUS
<1> HIDE DEF T
<1>2. PICK k \in T : \A y \in T : ~(<<y, k>> \in OpToRel(<, Nat))
  BY <1>1, NatLessThanWellFounded, WFMin, Zenon
<1>3. \A y \in T : ~(y < k)
  BY <1>1, <1>2 DEF OpToRel
<1>4. k # 0 /\ k - 1 \in 0..(n - 1) /\ k - 1 < k
  BY DEF T
<1>5. k - 1 \in S
  BY <1>3, <1>4 DEF T
<1> QED
  BY <1>4, <1>5 DEF T

\* A non-empty set of places in a list has a last one.
LEMMA MaxIs ==
    ASSUME NEW k \in Nat, NEW s \in SUBSET (1..k), s # {}
    PROVE  Max(s) \in s /\ \A y \in s : Max(s) >= y
<1> DEFINE S == {j \in 0..k : s \cap (1..j) # {} => \E x \in s : \A y \in s \cap (1..j) : x >= y}
<1>1. 0..k \subseteq S
  <2>1. 0 \in S
    OBVIOUS
  <2>2. ASSUME NEW j \in 0..(k - 1), j \in S
        PROVE  j + 1 \in S
    <3>1. CASE j + 1 \in s
      <4>1. \A y \in s \cap (1..(j + 1)) : j + 1 >= y
        OBVIOUS
      <4> QED
        BY <3>1, <4>1
    <3>2. CASE j + 1 \notin s
      <4>1. s \cap (1..(j + 1)) = s \cap (1..j)
        BY <3>2
      <4> QED
        BY <2>2, <4>1
    <3> QED
      BY <3>1, <3>2
  <2> HIDE DEF S
  <2> QED
    BY <2>1, <2>2, UpTo
<1>2. k \in S
  <2> HIDE DEF S
  <2> QED
    BY <1>1
<1>3. \E x \in s : \A y \in s : x >= y
  <2>1. s \cap (1..k) = s
    OBVIOUS
  <2> QED
    BY <1>2, <2>1
<1> QED
  BY <1>3 DEF Max

\* What FoldLeft computes, if one knows it place by place.
LEMMA FoldOfBatch ==
    ASSUME NEW drafts, NEW n \in Nat, DOMAIN drafts = 1..n, NEW views,
           \A i \in 1..n : views[i] = Reduce(views[i - 1], drafts[i])
    PROVE  FoldLeft(Reduce, views[0], drafts) = views[n]
<1> DEFINE Iter(f, k) ==
             f = [s \in SUBSET (1..k) |->
                    IF s = {} THEN views[0] ELSE Reduce(f[s \ {Max(s)}], drafts[Max(s)])]
<1>1. \E f : Iter(f, n)
  <2> DEFINE S == {k \in Nat : \E f : Iter(f, k)}
  <2>1. 0 \in S
    <3>1. SUBSET (1..0) = {{}}
      OBVIOUS
    <3>2. Iter([s \in {{}} |-> views[0]], 0)
      BY <3>1
    <3> QED
      BY <3>2
  <2>2. ASSUME NEW k \in 0..(n - 1), k \in S
        PROVE  k + 1 \in S
    <3>1. PICK f : Iter(f, k)
      BY <2>2
    <3> DEFINE g == [s \in SUBSET (1..(k + 1)) |->
                       IF k + 1 \in s THEN Reduce(f[s \ {k + 1}], drafts[k + 1]) ELSE f[s]]
    <3>2. ASSUME NEW s \in SUBSET (1..(k + 1))
          PROVE  g[s] = IF s = {} THEN views[0] ELSE Reduce(g[s \ {Max(s)}], drafts[Max(s)])
      <4>1. CASE s = {}
        <5>1. f[{}] = views[0]
          BY <3>1
        <5> QED
          BY <4>1, <5>1
      <4>2. CASE k + 1 \in s
        <5>1. Max(s) = k + 1
          <6>1. k + 1 \in Nat /\ s # {}
            BY <4>2
          <6>2. PICK m : m = Max(s)
            OBVIOUS
          <6>3. m \in s /\ \A y \in s : m >= y
            BY <6>1, <6>2, MaxIs
          <6>4. m \in 1..(k + 1)
            BY <6>3
          <6> QED
            BY <4>2, <6>2, <6>3, <6>4
        <5>2. s \ {k + 1} \in SUBSET (1..k) /\ s \ {k + 1} \in SUBSET (1..(k + 1))
          OBVIOUS
        <5>3. g[s \ {k + 1}] = f[s \ {k + 1}]
          BY <5>2
        <5> QED
          BY <4>2, <5>1, <5>3
      <4>3. CASE s # {} /\ k + 1 \notin s
        <5>1. s \in SUBSET (1..k)
          BY <4>3
        <5>2. Max(s) \in s
          <6>1. k \in Nat /\ s # {}
            BY <4>3
          <6> QED
            BY <5>1, <6>1, MaxIs
        <5>3. PICK r : r = s \ {Max(s)}
          OBVIOUS
        <5>4. r \in SUBSET (1..k) /\ r \in SUBSET (1..(k + 1)) /\ k + 1 \notin r
          BY <4>3, <5>1, <5>3
        <5>6. g[s] = f[s] /\ g[s \ {Max(s)}] = f[s \ {Max(s)}]
          BY <4>3, <5>3, <5>4
        <5>5. f[s] = Reduce(f[s \ {Max(s)}], drafts[Max(s)])
          BY <3>1, <4>3, <5>1
        <5> QED
          BY <4>3, <5>5, <5>6
      <4> QED
        BY <4>1, <4>2, <4>3
    <3>3. DOMAIN g = SUBSET (1..(k + 1))
      OBVIOUS
    <3>4. Iter(g, k + 1)
      <4> HIDE DEF g
      <4> DEFINE h == [s \in SUBSET (1..(k + 1)) |->
                    IF s = {} THEN views[0] ELSE Reduce(g[s \ {Max(s)}], drafts[Max(s)])]
      <4>1. g = [s \in SUBSET (1..(k + 1)) |-> g[s]]
        BY <3>3 DEF g
      <4>2. h = [s \in SUBSET (1..(k + 1)) |-> g[s]]
        BY <3>2, Zenon
      <4> QED
        BY <4>1, <4>2, Zenon
    <3>5. k + 1 \in Nat
      OBVIOUS
    <3> HIDE DEF Iter, g
    <3> QED
      BY <3>4, <3>5
  <2> HIDE DEF S
  <2>3. 0..n \subseteq S
    BY <2>1, <2>2, UpTo
  <2>4. n \in S
    BY <2>3
  <2> QED
    BY <2>4 DEF S
<1> DEFINE iter == CHOOSE f : Iter(f, n)
<1>2. Iter(iter, n)
  BY <1>1, Zenon
<1>3. FoldLeft(Reduce, views[0], drafts) = iter[1..n]
  BY DEF FoldLeft, MapThenFoldSet
<1> HIDE DEF iter
<1>4. 0..n \subseteq {i \in 0..n : iter[1..i] = views[i]}
  <2> DEFINE S == {i \in 0..n : iter[1..i] = views[i]}
  <2>1. 0 \in S
    <3>1. 1..0 = {} /\ {} \in SUBSET (1..n)
      OBVIOUS
    <3>2. iter[{}] = views[0]
      BY <1>2, <3>1
    <3> QED
      BY <3>1, <3>2
  <2>2. ASSUME NEW i \in 0..(n - 1), i \in S
        PROVE  i + 1 \in S
    <3>1. PICK s : s = 1..(i + 1)
      OBVIOUS
    <3>2. s \in SUBSET (1..n) /\ s # {} /\ i + 1 \in s
      <4>1. n \in Nat /\ i \in Nat /\ i + 1 <= n
        OBVIOUS
      <4>2. 1..(i + 1) \subseteq 1..n /\ i + 1 \in 1..(i + 1)
        BY <4>1
      <4> QED
        BY <3>1, <4>2
    <3>3. Max(s) = i + 1
      <4>1. PICK m : m = Max(s)
        OBVIOUS
      <4>2. m \in s /\ \A y \in s : m >= y
        BY <3>2, <4>1, MaxIs
      <4> QED
        BY <3>1, <4>1, <4>2
    <3>4. s \ {Max(s)} = 1..i
      BY <3>1, <3>3
    <3>5. iter[s] = Reduce(iter[1..i], drafts[i + 1])
      BY <1>2, <3>2, <3>3, <3>4
    <3>6. i + 1 \in 1..n /\ (i + 1) - 1 = i /\ i + 1 \in 0..n
      OBVIOUS
    <3>7. views[i + 1] = Reduce(views[i], drafts[i + 1])
      BY <3>6
    <3> QED
      BY <2>2, <3>1, <3>5, <3>6, <3>7
  <2> HIDE DEF S
  <2> QED
    BY <2>1, <2>2, UpTo DEF S
<1> QED
  BY <1>3, <1>4

\* Batches of one, two and three drafts.
LEMMA FoldOne ==
    ASSUME NEW v, NEW drafts, DOMAIN drafts = 1..1
    PROVE  FoldLeft(Reduce, v, drafts) = Reduce(v, drafts[1])
<1>1. PICK after : after = [i \in 0..1 |-> IF i = 0 THEN v ELSE Reduce(v, drafts[1])]
  OBVIOUS
<1>2. 1 \in Nat /\ after[0] = v /\ after[1] = Reduce(v, drafts[1])
  BY <1>1
<1>3. \A i \in 1..1 : after[i] = Reduce(after[i - 1], drafts[i])
  BY <1>2
<1>4. FoldLeft(Reduce, after[0], drafts) = after[1]
  <2>1. 1 \in Nat
    OBVIOUS
  <2> QED
    BY <1>3, <2>1, FoldOfBatch
<1> QED
  BY <1>2, <1>4

LEMMA FoldTwo ==
    ASSUME NEW v, NEW drafts, DOMAIN drafts = 1..2
    PROVE  FoldLeft(Reduce, v, drafts) = Reduce(Reduce(v, drafts[1]), drafts[2])
<1>1. PICK after :
        after = [i \in 0..2 |-> IF i = 0 THEN v ELSE IF i = 1 THEN Reduce(v, drafts[1])
                                ELSE Reduce(Reduce(v, drafts[1]), drafts[2])]
  OBVIOUS
<1>2. /\ 2 \in Nat /\ after[0] = v /\ after[1] = Reduce(v, drafts[1])
      /\ after[2] = Reduce(Reduce(v, drafts[1]), drafts[2])
  BY <1>1
<1>3. \A i \in 1..2 : after[i] = Reduce(after[i - 1], drafts[i])
  <2> TAKE i \in 1..2
  <2>1. i = 1 \/ i = 2
    OBVIOUS
  <2> QED
    BY <1>2, <2>1
<1>4. FoldLeft(Reduce, after[0], drafts) = after[2]
  <2>1. 2 \in Nat
    OBVIOUS
  <2> QED
    BY <1>3, <2>1, FoldOfBatch
<1>5. after[0] = v /\ after[2] = Reduce(Reduce(v, drafts[1]), drafts[2])
  BY <1>2
<1> QED
  BY <1>4, <1>5, Zenon

LEMMA FoldThree ==
    ASSUME NEW v, NEW drafts, DOMAIN drafts = 1..3
    PROVE  FoldLeft(Reduce, v, drafts) =
             Reduce(Reduce(Reduce(v, drafts[1]), drafts[2]), drafts[3])
<1>1. PICK after :
        after = [i \in 0..3 |-> IF i = 0 THEN v ELSE IF i = 1 THEN Reduce(v, drafts[1])
                                ELSE IF i = 2 THEN Reduce(Reduce(v, drafts[1]), drafts[2])
                                ELSE Reduce(Reduce(Reduce(v, drafts[1]), drafts[2]), drafts[3])]
  OBVIOUS
<1>2. /\ 3 \in Nat /\ after[0] = v /\ after[1] = Reduce(v, drafts[1])
      /\ after[2] = Reduce(Reduce(v, drafts[1]), drafts[2])
      /\ after[3] = Reduce(Reduce(Reduce(v, drafts[1]), drafts[2]), drafts[3])
  BY <1>1
<1>3. \A i \in 1..3 : after[i] = Reduce(after[i - 1], drafts[i])
  <2> TAKE i \in 1..3
  <2>1. i = 1 \/ i = 2 \/ i = 3
    OBVIOUS
  <2> QED
    BY <1>2, <2>1
<1>4. FoldLeft(Reduce, after[0], drafts) = after[3]
  <2>1. 3 \in Nat
    OBVIOUS
  <2> QED
    BY <1>3, <2>1, FoldOfBatch
<1>5. /\ after[0] = v
      /\ after[3] = Reduce(Reduce(Reduce(v, drafts[1]), drafts[2]), drafts[3])
  BY <1>2
<1> QED
  BY <1>4, <1>5, Zenon

\* Events that say nothing of how the session stands.
Idle == EventType \ {"AGENT_CREATED", "AGENT_RECOVERED", "AGENT_STARTED", "AGENT_QUARANTINED",
                     "TASK_REASSIGNED", "WORKFLOW_RECOVERED", "EXPERIMENT_STOPPED"}

LEMMA ReduceIdle ==
    ASSUME NEW v, NEW e, e.type \in Idle
    PROVE  Reduce(v, e) = v
BY DEF Idle, Reduce

Carries == last_seq' # last_seq /\ Status' = FoldLeft(Reduce, Status, batch')

\* Calls that change nothing of how the session stands, and tell of nothing of it.
LEMMA QuietCarries ==
    ASSUME LogTypeOK, UNCHANGED <<security_state, workflow_state, attack_detected, recovery_required>>,
           NEW a, NEW b, a.type \in Idle, b.type \in Idle,
           Publish(<<a>>) \/ Publish(<<a, b>>)
    PROVE  Carries
<1>1. Reduce(Status, a) = Status /\ Reduce(Status, b) = Status
  BY ReduceIdle
<1>2. FoldLeft(Reduce, Status, batch') = Status
  <2>1. batch' = <<a>> \/ batch' = <<a, b>>
    BY DEF Publish
  <2>2. CASE batch' = <<a>>
    <3>1. DOMAIN batch' = 1..1 /\ batch'[1] = a
      BY <2>2
    <3>2. FoldLeft(Reduce, Status, batch') = Reduce(Status, batch'[1])
      BY <3>1, FoldOne
    <3> QED
      BY <1>1, <3>1, <3>2
  <2>3. CASE batch' = <<a, b>>
    <3>1. DOMAIN batch' = 1..2 /\ batch'[1] = a /\ batch'[2] = b
      BY <2>3
    <3>2. FoldLeft(Reduce, Status, batch') = Reduce(Reduce(Status, batch'[1]), batch'[2])
      BY <3>1, FoldTwo
    <3> QED
      BY <1>1, <3>1, <3>2
  <2> QED
    BY <2>1, <2>2, <2>3
<1>3. Status' = Status
  BY DEF Status
<1>4. last_seq' # last_seq
  BY DEF Publish, LogTypeOK
<1> QED
  BY <1>2, <1>3, <1>4 DEF Carries

LEMMA WorkerCarries ==
    ASSUME StateTypeOK, LogTypeOK, NEW w \in Worker, 
           \/ CompleteTask(w) \/ \E passed \in BOOLEAN : RecordTestRun(w, passed)
           \/ RecordModelCall(w) \/ RefuseQuarantined(w) \/ AllowResource(w)
    PROVE  Carries
<1>1. ASSUME NEW type \in Idle
      PROVE  Draft(type, w).type \in Idle
  BY DEF Draft
<1>2. CASE CompleteTask(w) \/ \E passed \in BOOLEAN : RecordTestRun(w, passed)
  <2>1. /\ UNCHANGED <<security_state, workflow_state, attack_detected, recovery_required>>
        /\ Publish(<<Draft("TASK_COMPLETED", w)>>)
    BY <1>2 DEF CompleteTask, RecordTestRun, FinishTask, statusVars
  <2>2. "TASK_COMPLETED" \in Idle
    BY DEF Idle, EventType
  <2> QED
    BY <1>1, <2>1, <2>2, QuietCarries
<1>3. CASE RecordModelCall(w) \/ RefuseQuarantined(w) \/ AllowResource(w)
  <2>1. PICK t, u \in {"MODEL_REQUESTED", "MODEL_RESPONDED", "TOOL_REQUESTED", "TOOL_DENIED",
                       "TOOL_EXECUTED"} : Publish(<<Draft(t, w), Draft(u, w)>>)
    BY <1>3 DEF RecordModelCall, RefuseQuarantined, AllowResource
  <2>2. UNCHANGED <<security_state, workflow_state, attack_detected, recovery_required>>
    BY <1>3 DEF RecordModelCall, RefuseQuarantined, AllowResource, statusVars, workerVars
  <2>3. t \in Idle /\ u \in Idle
    BY DEF Idle, EventType
  <2> QED
    BY <1>1, <2>1, <2>2, <2>3, QuietCarries
<1> QED
  BY <1>2, <1>3

LEMMA StartCarries ==
    ASSUME StateTypeOK, LogTypeOK, NEW w \in Worker, StartTask(w)
    PROVE  Carries
<1> DEFINE a == Draft("TASK_ASSIGNED", w)
           b == Draft("AGENT_STARTED", w)
<1>1. a.type \in Idle /\ b.type = "AGENT_STARTED"
  BY DEF Draft, Idle, EventType
<1> HIDE DEF a, b
<1>2. batch' = <<a, b>> /\ last_seq' # last_seq
  BY DEF StartTask, Publish, LogTypeOK, a, b
<1>3. Reduce(Status, a) = Status
  BY <1>1, ReduceIdle
<1>4. FoldLeft(Reduce, Status, <<a, b>>) = Reduce(Status, b)
  <2>1. PICK drafts : drafts = <<a, b>>
    OBVIOUS
  <2>2. DOMAIN drafts = 1..2 /\ drafts[1] = a /\ drafts[2] = b
    BY <2>1
  <2>3. FoldLeft(Reduce, Status, drafts) = Reduce(Reduce(Status, drafts[1]), drafts[2])
    BY <2>2, FoldTwo
  <2> QED
    BY <1>3, <2>1, <2>2, <2>3
<1>5. Reduce(Status, b) = [Status EXCEPT !.status = IF @ = "idle" THEN "running" ELSE @]
  BY <1>1 DEF Reduce
<1>6. Status' = Reduce(Status, b)
  BY <1>5 DEF Status, StartTask
<1> QED
  BY <1>2, <1>4, <1>6 DEF Carries

LEMMA OneCarries ==
    ASSUME StateTypeOK, LogTypeOK, NEW e, Publish(<<e>>), Status' = Reduce(Status, e)
    PROVE  Carries
<1>1. batch' = <<e>> /\ last_seq' # last_seq
  BY DEF Publish, LogTypeOK
<1>2. DOMAIN batch' = 1..1 /\ batch'[1] = e
  BY <1>1
<1>3. FoldLeft(Reduce, Status, batch') = Reduce(Status, batch'[1])
  BY <1>2, FoldOne
<1> QED
  BY <1>1, <1>2, <1>3 DEF Carries

LEMMA RegisterCarries ==
    ASSUME StateTypeOK, LogTypeOK, NEW w \in Worker, NEW r, NEW backed,
           RegisterWorker(w, r, backed)
    PROVE  Carries
<1> DEFINE e == Draft("AGENT_CREATED", w)
<1>1. e.type = "AGENT_CREATED" /\ e.agent = w
  BY DEF Draft
<1>2. Publish(<<e>>)
  BY DEF RegisterWorker
<1> HIDE DEF e
<1>3. Reduce(Status, e) = [Status EXCEPT !.state[w] = "healthy"]
  BY <1>1 DEF Reduce
<1>4. Status' = Reduce(Status, e)
  BY <1>3 DEF Status, RegisterWorker, PutWorker, statusVars, StateTypeOK
<1> QED
  BY <1>2, <1>4, OneCarries

LEMMA FailCarries ==
    ASSUME StateTypeOK, LogTypeOK, Fail
    PROVE  Carries
<1> DEFINE e == Draft("EXPERIMENT_STOPPED", None)
<1>1. e.type = "EXPERIMENT_STOPPED"
  BY DEF Draft
<1>2. Publish(<<e>>)
  BY DEF Fail
<1> HIDE DEF e
<1>3. Reduce(Status, e) = [Status EXCEPT !.status = "failed"]
  BY <1>1 DEF Reduce
<1>4. Status' = Reduce(Status, e)
  BY <1>3 DEF Status, Fail, workerVars
<1> QED
  BY <1>2, <1>4, OneCarries

LEMMA ReassignCarries ==
    ASSUME StateTypeOK, LogTypeOK, NEW from \in Worker, NEW to \in Worker, NEW context, NEW backed,
           Reassign(from, to, context, backed)
    PROVE  Carries
<1> DEFINE a == DraftWith("TASK_REASSIGNED", from, {to})
           b == DraftWith("AGENT_CREATED", to, TrustedContextFor(to))
           c == Draft("AGENT_STARTED", to)
<1>1. a.type = "TASK_REASSIGNED" /\ b.type = "AGENT_CREATED" /\ b.agent = to /\ c.type = "AGENT_STARTED"
  BY DEF Draft, DraftWith
<1>2. batch' = <<a, b, c>> /\ last_seq' # last_seq
  BY DEF Reassign, Publish, LogTypeOK
<1> HIDE DEF a, b, c
<1>3. PICK v : v = Reduce(Status, a)
  OBVIOUS
<1>4. PICK x : x = Reduce(v, b)
  OBVIOUS
<1>5. v = [Status EXCEPT !.status = "recovering", !.recovery = FALSE]
  BY <1>1, <1>3 DEF Reduce
<1>6. x = [v EXCEPT !.state[to] = "healthy"]
  BY <1>1, <1>4 DEF Reduce
<1>7. Reduce(x, c) = [x EXCEPT !.status = IF @ = "idle" THEN "running" ELSE @]
  BY <1>1 DEF Reduce
<1>8. FoldLeft(Reduce, Status, <<a, b, c>>) = Reduce(x, c)
  <2>1. PICK drafts : drafts = <<a, b, c>>
    OBVIOUS
  <2>2. DOMAIN drafts = 1..3 /\ drafts[1] = a /\ drafts[2] = b /\ drafts[3] = c
    BY <2>1
  <2>3. FoldLeft(Reduce, Status, drafts) = Reduce(Reduce(Reduce(Status, drafts[1]), drafts[2]), drafts[3])
    BY <2>2, FoldThree
  <2> QED
    BY <1>3, <1>4, <2>1, <2>2, <2>3
<1>9. Status' = Reduce(x, c)
  BY <1>5, <1>6, <1>7 DEF Status, Reassign, PutWorker, StateTypeOK
<1> QED
  BY <1>2, <1>8, <1>9 DEF Carries

LEMMA QuarantineCarries ==
    ASSUME StateTypeOK, LogTypeOK, NEW w \in Worker, NEW cascade \in {<< >>, Cascade(w)},
           QuarantineAfter(w, cascade)
    PROVE  Carries
<1> DEFINE e == DraftWith("AGENT_QUARANTINED", w, TaintedBy(w))
           n == Len(cascade)
           after == [i \in 0..(n + 1) |-> IF i <= n THEN Status ELSE Reduce(Status, e)]
<1>1. e.type = "AGENT_QUARANTINED" /\ e.agent = w
  BY DEF DraftWith
<1>2. batch' = cascade \o <<e>> /\ last_seq' = last_seq + Len(batch')
  BY DEF QuarantineAfter, Publish
<1>3. /\ n \in Nat /\ DOMAIN batch' = 1..(n + 1) /\ Len(batch') = n + 1 /\ batch'[n + 1] = e
      /\ \A i \in 1..n : batch'[i].type \in Idle
  <2> HIDE DEF e
  <2>1. CASE cascade = << >>
    BY <1>2, <2>1
  <2>2. CASE cascade = Cascade(w)
    <3>1. \A type : Draft(type, w).type = type
      BY DEF Draft
    <3>2. \A i \in 1..4 : Cascade(w)[i].type \in Idle
      BY <3>1 DEF Cascade, Idle, EventType
    <3> QED
      BY <1>2, <2>2, <3>2 DEF Cascade
  <2> QED
    BY <2>1, <2>2
<1> HIDE DEF e, n
<1>4. /\ after[0] = Status /\ after[n + 1] = Reduce(Status, e) /\ \A i \in 0..n : after[i] = Status
  BY <1>3
<1> HIDE DEF after
<1>5. \A i \in 1..(n + 1) : after[i] = Reduce(after[i - 1], batch'[i])
  <2> TAKE i \in 1..(n + 1)
  <2>1. i - 1 \in 0..n
    BY <1>3
  <2>2. CASE i = n + 1
    BY <1>3, <1>4, <2>1, <2>2
  <2>3. CASE i \in 1..n
    BY <1>3, <1>4, <2>1, <2>3, ReduceIdle
  <2> QED
    BY <1>3, <2>2, <2>3
<1>6. FoldLeft(Reduce, Status, batch') = Reduce(Status, e)
  <2>1. n + 1 \in Nat /\ DOMAIN batch' = 1..(n + 1)
    BY <1>3
  <2>2. FoldLeft(Reduce, after[0], batch') = after[n + 1]
    BY <1>5, <2>1, FoldOfBatch
  <2> QED
    BY <1>4, <2>2
<1>7. Reduce(Status, e) = [Status EXCEPT !.state[w] = "quarantined", !.status = "under_attack",
                                     !.attack = TRUE, !.recovery = TRUE]
  BY <1>1 DEF Reduce
<1>8. Status' = Reduce(Status, e)
  BY <1>7 DEF Status, QuarantineAfter, RaiseAlarm, StateTypeOK
<1>9. last_seq' # last_seq
  BY <1>2, <1>3 DEF LogTypeOK
<1> QED
  BY <1>6, <1>8, <1>9 DEF Carries

\* After i of the AGENT_RECOVERED drafts, the replacements they name are recovered.
LEMMA RecoverCarries ==
    ASSUME StateTypeOK, LogTypeOK, Recover
    PROVE  Carries
<1>1. PICK order \in Orders(Replacements) :
        Publish([i \in DOMAIN order |-> Draft("AGENT_RECOVERED", order[i])]
                \o <<DraftWith("WORKFLOW_RECOVERED", None, Quarantined)>>)
  BY DEF Recover
<1> DEFINE e == DraftWith("WORKFLOW_RECOVERED", None, Quarantined)
           drafts == [i \in DOMAIN order |-> Draft("AGENT_RECOVERED", order[i])]
           n == Cardinality(Replacements)
           Told(i) == [w \in Worker |-> IF \E j \in 1..i : order[j] = w
                                        THEN "recovered" ELSE security_state[w]]
           after == [i \in 0..(n + 1) |->
                       IF i <= n THEN [Status EXCEPT !.state = Told(i)]
                       ELSE Reduce([Status EXCEPT !.state = Told(n)], e)]
<1>2. Replacements \subseteq Worker /\ IsFiniteSet(Replacements) /\ n \in Nat
  <2>1. Replacements \subseteq Worker
    BY DEF Replacements, Active, Registered
  <2> QED
    BY <2>1, WorkerAssumption, FS_Subset, FS_CardinalityType
<1>3. order \in [1..n -> Replacements]
  BY DEF Orders
<1>4. \A w \in Replacements : \E j \in 1..n : order[j] = w
  <2>1. order \in Injection(1..n, Replacements)
    BY <1>3 DEF Injection, IsInjective, Orders
  <2>2. Cardinality(1..n) = n
    BY <1>2, FS_Interval
  <2>3. order \in Surjection(1..n, Replacements)
    BY <1>2, <2>1, <2>2, FS_Injection
  <2> QED
    BY <2>3 DEF Surjection
<1>5. /\ DOMAIN drafts = 1..n
      /\ \A i \in 1..n : drafts[i].type = "AGENT_RECOVERED" /\ drafts[i].agent = order[i]
  BY <1>2, <1>3 DEF Draft
<1>6. drafts \in Seq(EventDraft) /\ Len(drafts) = n
  <2>1. drafts \in Seq(EventDraft)
    BY <1>2, RecoveredDrafts
  <2> HIDE DEF drafts
  <2> QED
    BY <1>2, <1>5, <2>1
<1>7. e.type = "WORKFLOW_RECOVERED"
  BY DEF DraftWith
<1> HIDE DEF drafts, e, n
<1>8. batch' = drafts \o <<e>> /\ last_seq' = last_seq + Len(batch')
  BY <1>1 DEF Publish, drafts, e
<1>9. /\ DOMAIN batch' = 1..(n + 1) /\ Len(batch') = n + 1 /\ batch'[n + 1] = e
      /\ \A i \in 1..n : batch'[i] = drafts[i]
  BY <1>2, <1>6, <1>8
<1>10. /\ \A i \in 0..n : after[i] = [Status EXCEPT !.state = Told(i)]
       /\ after[n + 1] = Reduce(after[n], e)
  BY <1>2
<1>11. after[0] = Status
  <2>1. Told(0) = security_state
    BY DEF StateTypeOK
  <2>2. after[0] = [Status EXCEPT !.state = Told(0)]
    BY <1>2, <1>10
  <2> QED
    BY <2>1, <2>2 DEF Status
<1>12. after[n + 1] = Status'
  <2>1. security_state' = Told(n)
    BY <1>3, <1>4 DEF Recover
  <2>2. after[n] = [Status EXCEPT !.state = Told(n)]
    BY <1>2, <1>10
  <2> HIDE DEF after
  <2>3. after[n + 1] = [after[n] EXCEPT !.status = "recovered", !.recovery = FALSE]
    BY <1>7, <1>10 DEF Reduce
  <2> HIDE DEF Told
  <2> QED
    BY <2>1, <2>2, <2>3 DEF Status, Recover
<1>13. \A i \in 1..(n + 1) : after[i] = Reduce(after[i - 1], batch'[i])
  <2> TAKE i \in 1..(n + 1)
  <2>1. CASE i = n + 1
    <3>1. (n + 1) - 1 = n
      BY <1>2
    <3>2. after[n + 1] = Reduce(after[n], batch'[n + 1])
      BY <1>9, <1>10
    <3> QED
      BY <2>1, <3>1, <3>2
  <2>2. CASE i \in 1..n
    <3>1. PICK d : d = batch'[i]
      OBVIOUS
    <3>2. d.type = "AGENT_RECOVERED" /\ d.agent = order[i] /\ order[i] \in Worker
      BY <1>2, <1>3, <1>5, <1>9, <2>2, <3>1
    <3>3. /\ after[i - 1] = [Status EXCEPT !.state = Told(i - 1)]
          /\ after[i] = [Status EXCEPT !.state = Told(i)]
      BY <1>2, <1>10, <2>2
    <3>4. Told(i) = [Told(i - 1) EXCEPT ![order[i]] = "recovered"]
      <4>1. \A j : j \in 1..i <=> j \in 1..(i - 1) \/ j = i
        BY <1>2, <2>2
      <4> QED
        BY <3>2, <4>1
    <3> HIDE DEF after
    <3>5. Reduce(after[i - 1], d) = [after[i - 1] EXCEPT !.state[order[i]] = "recovered"]
      BY <3>2 DEF Reduce
    <3> HIDE DEF Told
    <3> QED
      BY <3>1, <3>3, <3>4, <3>5 DEF Status
  <2> QED
    BY <1>2, <2>1, <2>2
<1> HIDE DEF after
<1>14. FoldLeft(Reduce, Status, batch') = Status'
  <2>1. n + 1 \in Nat
    BY <1>2
  <2>2. FoldLeft(Reduce, after[0], batch') = after[n + 1]
    BY <1>9, <1>13, <2>1, FoldOfBatch
  <2> QED
    BY <1>11, <1>12, <2>2, Zenon
<1> QED
  BY <1>2, <1>8, <1>9, <1>14 DEF Carries, LogTypeOK

LEMMA StepCarries ==
    ASSUME StateTypeOK, LogTypeOK, [Next]_vars
    PROVE  Carries \/ (UNCHANGED logVars /\ Status' = Status)
<1>1. ASSUME NEW w \in Worker, WorkerCall(w)
      PROVE  Carries \/ (UNCHANGED logVars /\ Status' = Status)
  <2>1. CASE \E a \in Artifact : RecordArtifact(a, w)
    BY <2>1 DEF RecordArtifact, Status, workerVars, statusVars
  <2>2. CASE DenyResource(w)
    BY <2>2, QuarantineCarries DEF DenyResource, Cascade
  <2> QED
    BY <1>1, <2>1, <2>2, StartCarries, WorkerCarries DEF WorkerCall
<1>2. ASSUME NEW w \in Worker, Quarantine(w)
      PROVE  Carries
  BY <1>2, QuarantineCarries DEF Quarantine
<1>3. CASE UNCHANGED vars
  BY <1>3 DEF vars, workerVars, statusVars, Status
<1> QED
  BY <1>1, <1>2, <1>3, RegisterCarries, ReassignCarries, RecoverCarries, FailCarries
  DEF Next, ControlCall

\* The security states, the workflow's state and its flags are all in the events (_publish):
\* whatever call is made, folding its events over how the session stood before it gives how it
\* stands after it.  The rest of a snapshot, which no event carries, is not in this.
THEOREM StatusIsCarried == Spec => EventsCarryTheStatus
<1>1. TypeOK /\ [Next]_vars =>
        [Status' = IF logVars' = logVars THEN Status ELSE FoldLeft(Reduce, Status, batch')]_vars
  <2> SUFFICES ASSUME TypeOK, [Next]_vars
               PROVE  Status' = IF logVars' = logVars THEN Status ELSE FoldLeft(Reduce, Status, batch')
    OBVIOUS
  <2>1. Carries \/ (UNCHANGED logVars /\ Status' = Status)
    BY TypeOKSplit, StepCarries
  <2> QED
    BY <2>1 DEF Carries, logVars
<1> QED
  BY <1>1, TypeCorrect, PTL DEF Spec, EventsCarryTheStatus

----------------------------------------------------------------------------
(* The screen over the session *)

\* The session's own theorems hold behind the screen: each of its steps is one of theirs.
LEMMA ViewStep == [ViewNext]_viewVars => [Next]_vars
<1> SUFFICES ASSUME [ViewNext]_viewVars
             PROVE  [Next]_vars
  OBVIOUS
<1>1. ASSUME NEW w \in Worker, WorkerReports(w) \/ WorkerAsks(w)
      PROVE  Next
  BY <1>1 DEF WorkerReports, WorkerAsks, Next, WorkerCall
<1>2. ASSUME ControlCalls
      PROVE  Next
  BY <1>2 DEF ControlCalls, Next, ControlCall
<1>3. ASSUME NEW w \in Worker, NEW a \in Artifact, RecordArtifact(a, w)
      PROVE  Next
  BY <1>3 DEF Next, WorkerCall
<1>4. ASSUME Attach \/ UNCHANGED viewVars
      PROVE  UNCHANGED vars
  BY <1>4 DEF Attach, viewVars
<1> QED
  BY <1>1, <1>2, <1>3, <1>4 DEF ViewNext

\* ... so whatever is proved of the session is proved of the one behind the screen.
THEOREM ViewIsOfTheSession == ViewSpec => Spec
<1>1. ViewInit => Init
  BY DEF ViewInit
<1> QED
  BY <1>1, ViewStep, PTL DEF ViewSpec, Spec

\* The log is the batches end to end; an event's number is its place.
Event ==
    [type : EventType, agent : Worker \cup {None}, refs : SUBSET (Artifact \cup Worker),
     seq : Nat, resource : Inside \cup Protected \cup {None}, replaces : Worker \cup {None},
     step : {None, "pytest", "review"}, passed : BOOLEAN \cup {None}]

Task == [step : {None, "pytest", "review"}, passed : BOOLEAN \cup {None}]

LEMMA TaskType ==
    /\ NoTask \in Task /\ NoTask.step # "pytest"
    /\ \A name \in {"pytest", "review"} : TaskNamed(name) \in Task
    /\ \A passed \in BOOLEAN : TestRun(passed) \in Task
BY NoneAssumption DEF Task, NoTask, TaskNamed, TestRun

Logged ==
    /\ log \in Seq(Event) /\ Len(log) = last_seq
    /\ \A i \in 1..last_seq : log[i].seq = i

\* What a call adds to the log.
Adds(resource, of, task) ==
    /\ DOMAIN batch' = 1..Len(batch') /\ Len(batch') \in Nat
    /\ last_seq' = last_seq + Len(batch')
    /\ \A i \in 1..last_seq : log'[i] = log[i]
    /\ \A i \in 1..Len(batch') :
         log'[last_seq + i] = Entry(batch'[i], last_seq + i, resource, of, task)

LEMMA LogGrows ==
    ASSUME Logged, LogTypeOK, LogTypeOK', last_seq' = last_seq + Len(batch'),
           NEW resource \in Inside \cup Protected \cup {None}, NEW of \in Worker \cup {None},
           NEW task \in Task, Logs(resource, of, task)
    PROVE  Logged' /\ Adds(resource, of, task)
<1>1. PICK added : added = [i \in DOMAIN batch' |->
                              Entry(batch'[i], last_seq + i, resource, of, task)]
  OBVIOUS
<1>2. PICK n : n = Len(batch')
  OBVIOUS
<1>3. n \in Nat /\ DOMAIN batch' = 1..n /\ last_seq \in Nat
  BY <1>2 DEF LogTypeOK
<1>4. \A i \in 1..n : Entry(batch'[i], last_seq + i, resource, of, task) \in Event
  <2> TAKE i \in 1..n
  <2>1. batch'[i] \in EventDraft /\ last_seq + i \in Nat
    BY <1>2, <1>3 DEF LogTypeOK
  <2> QED
    BY <2>1 DEF Entry, Event, EventDraft, Task
<1>5. added \in Seq(Event) /\ Len(added) = n
  BY <1>1, <1>3, <1>4
<1>6. log' = log \o added
  BY <1>1 DEF Logs
<1>7. log' \in Seq(Event) /\ Len(log') = last_seq + n
  <2>1. log \in Seq(Event) /\ Len(log) = last_seq
    BY DEF Logged
  <2>2. log \o added \in Seq(Event)
    BY <1>5, <2>1, ConcatProperties
  <2>3. Len(log \o added) = last_seq + n
    BY <1>3, <1>5, <2>1, ConcatProperties
  <2> QED
    BY <1>6, <2>2, <2>3
<1>8. \A i \in 1..last_seq : log'[i] = log[i]
  BY <1>3, <1>5, <1>6 DEF Logged
<1>9. \A i \in 1..n : log'[last_seq + i] = Entry(batch'[i], last_seq + i, resource, of, task)
  <2> TAKE i \in 1..n
  <2>1. log'[last_seq + i] = added[i]
    BY <1>3, <1>5, <1>6 DEF Logged
  <2> QED
    BY <1>1, <1>3, <2>1
<1>10. \A i \in 1..(last_seq + n) : log'[i].seq = i
  <2> TAKE i \in 1..(last_seq + n)
  <2>1. CASE i \in 1..last_seq
    BY <1>8, <2>1 DEF Logged
  <2>2. CASE i - last_seq \in 1..n
    <3>1. log'[last_seq + (i - last_seq)] = Entry(batch'[i - last_seq], last_seq + (i - last_seq),
                                                  resource, of, task)
      BY <1>9, <2>2
    <3>2. last_seq + (i - last_seq) = i
      BY <1>3
    <3> QED
      BY <3>1, <3>2 DEF Entry
  <2> QED
    BY <1>3, <2>1, <2>2
<1> QED
  BY <1>2, <1>3, <1>7, <1>8, <1>9, <1>10 DEF Logged, Adds

----------------------------------------------------------------------------
(* The inductive invariant: what the log tells of the session *)

Has(type) == \E i \in 1..last_seq : log[i].type = type

\* The cascade of a denial stands whole in the log from i.
Whole(i) ==
    /\ i \in 1..last_seq /\ i + 3 \in 1..last_seq
    /\ log[i].type = "TOOL_DENIED" /\ log[i + 1].type = "POLICY_VIOLATION"
    /\ log[i + 2].type = "ANOMALY_DETECTED" /\ log[i + 3].type = "AGENT_QUARANTINED"
    /\ log[i + 3].agent = log[i].agent

Alarm == attack_detected <=> Has("AGENT_QUARANTINED")

Cascades ==
    \A i \in 1..last_seq :
       /\ log[i].type = "TOOL_DENIED" =>
            Whole(i) \/ \E j \in 1..(i - 1) : log[j].type = "AGENT_QUARANTINED"
       /\ log[i].type = "POLICY_VIOLATION" => Whole(i - 1)
       /\ log[i].type = "ANOMALY_DETECTED" => Whole(i - 2)

Recovered == workflow_state = "recovered" => Has("WORKFLOW_RECOVERED")

Test(i) == log[i].type = "TASK_COMPLETED" /\ log[i].step = "pytest"

LastTest ==
    IF \E i \in 1..last_seq : Test(i)
    THEN \E m \in 1..last_seq : /\ Test(m) /\ log[m].passed \in {tests_passed, None}
                                /\ \A i \in 1..last_seq : Test(i) => i <= m
    ELSE tests_passed = None

Requests == {i \in 1..last_seq : log[i].type = "MODEL_REQUESTED"}

Counted == Cardinality(Requests) = model_calls

Drawn == \A w \in Quarantined : w \in DOMAIN nodes => nodes[w] = "quarantined"

ScreenInv == Logged /\ Alarm /\ Cascades /\ Recovered /\ LastTest /\ Counted /\ Drawn

Denials == {"TOOL_DENIED", "POLICY_VIOLATION", "ANOMALY_DETECTED"}

\* A new event is one of the batch.
LEMMA NewEvent ==
    ASSUME LogTypeOK, NEW resource, NEW of, NEW task, Adds(resource, of, task),
           NEW i \in 1..(last_seq'), i \notin 1..last_seq
    PROVE  \E j \in 1..Len(batch') : 
              i = last_seq + j /\ log'[i] = Entry(batch'[j], i, resource, of, task)
<1>1. last_seq \in Nat /\ Len(batch') \in Nat /\ last_seq' = last_seq + Len(batch')
  BY DEF LogTypeOK, Adds
<1>2. i - last_seq \in 1..Len(batch') /\ last_seq + (i - last_seq) = i
  BY <1>1
<1> QED
  BY <1>2 DEF Adds

\* ... and an old one stays.
LEMMA OldEvent ==
    ASSUME LogTypeOK, NEW resource, NEW of, NEW task, Adds(resource, of, task),
           NEW i \in 1..last_seq
    PROVE  i \in 1..(last_seq') /\ log'[i] = log[i]
BY DEF LogTypeOK, Adds

LEMMA HasStays ==
    ASSUME LogTypeOK, NEW resource, NEW of, NEW task, Adds(resource, of, task), NEW type
    PROVE  Has(type)' <=> Has(type) \/ \E j \in 1..Len(batch') : batch'[j].type = type
<1>1. ASSUME Has(type)
      PROVE  Has(type)'
  BY <1>1, OldEvent DEF Has
<1>2. ASSUME NEW j \in 1..Len(batch'), batch'[j].type = type
      PROVE  Has(type)'
  <2>1. last_seq + j \in 1..(last_seq') /\ log'[last_seq + j].type = type
    <3>1. PICK n : n = Len(batch')
      OBVIOUS
    <3>2. n \in Nat /\ last_seq \in Nat /\ last_seq' = last_seq + n /\ j \in 1..n
      BY <3>1 DEF LogTypeOK, Adds
    <3>3. log'[last_seq + j] = Entry(batch'[j], last_seq + j, resource, of, task)
      BY DEF Adds
    <3> QED
      BY <1>2, <3>2, <3>3 DEF Entry
  <2> QED
    BY <2>1 DEF Has
<1>3. ASSUME Has(type)', ~Has(type)
      PROVE  \E j \in 1..Len(batch') : batch'[j].type = type
  <2>1. PICK i \in 1..(last_seq') : log'[i].type = type
    BY <1>3 DEF Has
  <2>2. i \notin 1..last_seq
    BY <1>3, <2>1, OldEvent DEF Has
  <2>3. PICK j \in 1..Len(batch') : log'[i] = Entry(batch'[j], i, resource, of, task)
    BY <2>2, NewEvent
  <2> QED
    BY <2>1, <2>3 DEF Entry
<1> QED
  BY <1>1, <1>2, <1>3

\* The parts a call keeps whose events say nothing of them.
LEMMA AlarmKept ==
    ASSUME LogTypeOK, Alarm, NEW resource, NEW of, NEW task, Adds(resource, of, task),
           attack_detected' = attack_detected,
           \A j \in 1..Len(batch') : batch'[j].type # "AGENT_QUARANTINED"
    PROVE  Alarm'
BY HasStays DEF Alarm

LEMMA RecoveredKept ==
    ASSUME LogTypeOK, Recovered, NEW resource, NEW of, NEW task, Adds(resource, of, task),
           \/ workflow_state' \in {workflow_state} \cup (WorkflowState \ {"recovered"})
           \/ \E j \in 1..Len(batch') : batch'[j].type = "WORKFLOW_RECOVERED"
    PROVE  Recovered'
BY HasStays DEF Recovered

LEMMA WholeStays ==
    ASSUME LogTypeOK, NEW resource, NEW of, NEW task, Adds(resource, of, task), NEW i \in Int, Whole(i)
    PROVE  Whole(i)'
<1>1. i \in 1..last_seq /\ i + 3 \in 1..last_seq /\ last_seq \in Nat
  BY DEF Whole, LogTypeOK
<1>2. i + 1 \in 1..last_seq /\ i + 2 \in 1..last_seq
  BY <1>1
<1>3. \A j \in {i, i + 1, i + 2, i + 3} : j \in 1..(last_seq') /\ log'[j] = log[j]
  BY <1>1, <1>2, OldEvent
<1> QED
  BY <1>3 DEF Whole

\* The cascades stand if those of the new events do.
LEMMA CascadesKept ==
    ASSUME LogTypeOK, Cascades, NEW resource, NEW of, NEW task, Adds(resource, of, task),
           \A i \in 1..(last_seq') : i \notin 1..last_seq =>
             /\ log'[i].type = "TOOL_DENIED" =>
                  Whole(i)' \/ \E j \in 1..(i - 1) : log'[j].type = "AGENT_QUARANTINED"
             /\ log'[i].type = "POLICY_VIOLATION" => Whole(i - 1)'
             /\ log'[i].type = "ANOMALY_DETECTED" => Whole(i - 2)'
    PROVE  Cascades'
<1> SUFFICES ASSUME NEW i \in 1..(last_seq')
             PROVE  /\ log'[i].type = "TOOL_DENIED" =>
                         Whole(i)' \/ \E j \in 1..(i - 1) : log'[j].type = "AGENT_QUARANTINED"
                    /\ log'[i].type = "POLICY_VIOLATION" => Whole(i - 1)'
                    /\ log'[i].type = "ANOMALY_DETECTED" => Whole(i - 2)'
  BY DEF Cascades
<1>1. CASE i \notin 1..last_seq
  BY <1>1
<1>2. CASE i \in 1..last_seq
  <2>1. log'[i] = log[i] /\ i \in Int /\ i - 1 \in Int /\ i - 2 \in Int /\ last_seq \in Nat
    BY <1>2, OldEvent DEF LogTypeOK
  <2>2. CASE log[i].type = "TOOL_DENIED"
    <3>1. CASE Whole(i)
      BY <2>1, <2>2, <3>1, WholeStays
    <3>2. CASE \E j \in 1..(i - 1) : log[j].type = "AGENT_QUARANTINED"
      <4>1. PICK j \in 1..(i - 1) : log[j].type = "AGENT_QUARANTINED"
        BY <3>2
      <4>2. j \in 1..last_seq
        BY <1>2, <2>1
      <4>3. log'[j].type = "AGENT_QUARANTINED"
        BY <4>1, <4>2, OldEvent
      <4> QED
        BY <2>1, <2>2, <4>3
    <3> QED
      BY <1>2, <2>2, <3>1, <3>2 DEF Cascades
  <2>3. CASE log[i].type = "POLICY_VIOLATION"
    BY <1>2, <2>1, <2>3, WholeStays DEF Cascades
  <2>4. CASE log[i].type = "ANOMALY_DETECTED"
    BY <1>2, <2>1, <2>4, WholeStays DEF Cascades
  <2> QED
    BY <2>1, <2>2, <2>3, <2>4
<1> QED
  BY <1>1, <1>2

LEMMA NoDenials ==
    ASSUME LogTypeOK, Cascades, NEW resource, NEW of, NEW task, Adds(resource, of, task),
           \A j \in 1..Len(batch') : batch'[j].type \notin Denials
    PROVE  Cascades'
<1>1. ASSUME NEW i \in 1..(last_seq'), i \notin 1..last_seq
      PROVE  log'[i].type \notin Denials
  <2>1. PICK j \in 1..Len(batch') : log'[i] = Entry(batch'[j], i, resource, of, task)
    BY <1>1, NewEvent
  <2> QED
    BY <2>1 DEF Entry
<1> QED
  BY <1>1, CascadesKept DEF Denials

LEMMA LastTestKept ==
    ASSUME LogTypeOK, LastTest, NEW resource, NEW of, NEW task,
           Adds(resource, of, task), task.step # "pytest",
           tests_passed' = tests_passed
    PROVE  LastTest'
<1>1. \A i \in 1..(last_seq') : Test(i)' <=> i \in 1..last_seq /\ Test(i)
  <2> TAKE i \in 1..(last_seq')
  <2>1. CASE i \in 1..last_seq
    BY <2>1, OldEvent DEF Test
  <2>2. CASE i \notin 1..last_seq
    <3>1. PICK j \in 1..Len(batch') : log'[i] = Entry(batch'[j], i, resource, of, task)
      BY <2>2, NewEvent
    <3> QED
      BY <2>2, <3>1 DEF Entry, Test
  <2> QED
    BY <2>1, <2>2
<1>2. \A i \in 1..last_seq : i \in 1..(last_seq') /\ log'[i] = log[i]
  BY OldEvent
<1>3. CASE \E i \in 1..last_seq : Test(i)
  BY <1>1, <1>2, <1>3 DEF LastTest
<1>4. CASE ~\E i \in 1..last_seq : Test(i)
  BY <1>1, <1>4 DEF LastTest
<1> QED
  BY <1>3, <1>4

LEMMA CountedKept ==
    ASSUME LogTypeOK, Counted, NEW resource, NEW of, NEW task, Adds(resource, of, task),
           model_calls' = model_calls,
           \A j \in 1..Len(batch') : batch'[j].type # "MODEL_REQUESTED"
    PROVE  Counted'
<1>1. ASSUME NEW i \in 1..(last_seq'), log'[i].type = "MODEL_REQUESTED"
      PROVE  i \in 1..last_seq
  <2> SUFFICES ASSUME i \notin 1..last_seq
               PROVE  FALSE
    OBVIOUS
  <2>1. PICK j \in 1..Len(batch') : log'[i] = Entry(batch'[j], i, resource, of, task)
    BY NewEvent
  <2> QED
    BY <1>1, <2>1 DEF Entry
<1>2. Requests' = Requests
  BY <1>1, OldEvent DEF Requests
<1> QED
  BY <1>2 DEF Counted

\* A quarantine's batch: the cascade, if there is one, and AGENT_QUARANTINED.
LEMMA QuarantineBatch ==
    ASSUME LogTypeOK, NEW w \in Worker, NEW cascade \in {<< >>, Cascade(w)},
           QuarantineAfter(w, cascade)
    PROVE  LET n == Len(cascade) IN
           /\ n \in {0, 4} /\ Len(batch') = n + 1 /\ DOMAIN batch' = 1..(n + 1)
           /\ n = 4 => cascade = Cascade(w)
           /\ batch'[n + 1].type = "AGENT_QUARANTINED" /\ batch'[n + 1].agent = w
           /\ \A i \in 1..n : batch'[i] = cascade[i]
<1> DEFINE e == DraftWith("AGENT_QUARANTINED", w, TaintedBy(w))
<1>1. e.type = "AGENT_QUARANTINED" /\ e.agent = w
  BY DEF DraftWith
<1>2. batch' = cascade \o <<e>>
  BY DEF QuarantineAfter, Publish
<1> HIDE DEF e
<1>3. CASE cascade = << >>
  BY <1>1, <1>2, <1>3
<1>4. CASE cascade = Cascade(w)
  BY <1>1, <1>2, <1>4 DEF Cascade
<1> QED
  BY <1>3, <1>4

LEMMA DrawnKept ==
    ASSUME StateTypeOK, LogTypeOK, Drawn, [Next]_vars, Streamed
    PROVE  Drawn'
<1> SUFFICES ASSUME NEW w \in Worker, security_state'[w] = "quarantined", w \in DOMAIN nodes
             PROVE  nodes'[w] = "quarantined"
  BY DEF Drawn, Quarantined, Streamed
<1>1. CASE security_state[w] = "quarantined"
  BY <1>1 DEF Drawn, Quarantined, Streamed
<1>2. CASE security_state[w] # "quarantined"
  <2>1. PICK cascade \in {<< >>, Cascade(w)} : QuarantineAfter(w, cascade)
    BY <1>2, WhoIsQuarantined
  <2>2. PICK n : n = Len(cascade)
    OBVIOUS
  <2>3. n + 1 \in DOMAIN batch' /\ batch'[n + 1].type = "AGENT_QUARANTINED" /\ batch'[n + 1].agent = w
    BY <2>1, <2>2, QuarantineBatch
  <2> QED
    BY <2>3 DEF Streamed
<1> QED
  BY <1>1, <1>2

\* What every call of the session needs for the screen.
Call(resource, of, task) ==
    /\ Next /\ Streamed /\ Logs(resource, of, task) /\ last_seq' = last_seq + Len(batch')
    /\ resource \in Inside \cup Protected \cup {None} /\ of \in Worker \cup {None}
    /\ task \in Task

Before == StateTypeOK /\ LogTypeOK /\ Safe /\ ScreenInv

LEMMA CallLogs ==
    ASSUME Before, NEW resource, NEW of, NEW task, Call(resource, of, task)
    PROVE  Logged' /\ Adds(resource, of, task) /\ Drawn' /\ LogTypeOK'
<1>1. LogTypeOK' /\ [Next]_vars
  BY LogType DEF Before, Call
<1>2. Logged' /\ Adds(resource, of, task)
  BY <1>1, LogGrows DEF Before, ScreenInv, Call
<1>3. Drawn'
  BY <1>1, DrawnKept DEF Before, ScreenInv, Call
<1> QED
  BY <1>1, <1>2, <1>3

\* Calls the banner, the lights and the counters say nothing of.
LEMMA QuietCall ==
    ASSUME Before, NEW resource, NEW of, NEW task, Call(resource, of, task),
           task.step # "pytest",
           UNCHANGED <<attack_detected, tests_passed, model_calls>>,
           \A j \in 1..Len(batch') :
              batch'[j].type \notin Denials \cup {"AGENT_QUARANTINED", "MODEL_REQUESTED"},
           \/ workflow_state' \in {workflow_state} \cup (WorkflowState \ {"recovered"})
           \/ \E j \in 1..Len(batch') : batch'[j].type = "WORKFLOW_RECOVERED"
    PROVE  ScreenInv'
<1>1. Logged' /\ Adds(resource, of, task) /\ Drawn' /\ LogTypeOK
  BY CallLogs DEF Before
<1>2. Alarm'
  BY <1>1, AlarmKept DEF Before, ScreenInv
<1>3. Cascades'
  BY <1>1, NoDenials DEF Before, ScreenInv
<1>4. Recovered'
  BY <1>1, RecoveredKept DEF Before, ScreenInv
<1>5. LastTest'
  BY <1>1, LastTestKept DEF Before, ScreenInv
<1>6. Counted'
  BY <1>1, CountedKept DEF Before, ScreenInv
<1> QED
  BY <1>1, <1>2, <1>3, <1>4, <1>5, <1>6 DEF ScreenInv

LEMMA StartIsQuiet ==
    ASSUME Before, NEW w \in Worker, StartTask(w), Call(None, None, NoTask)
    PROVE  ScreenInv'
<1>1. batch' = <<Draft("TASK_ASSIGNED", w), Draft("AGENT_STARTED", w)>>
  BY DEF StartTask, Publish
<1>2. \A j \in 1..Len(batch') : batch'[j].type \in {"TASK_ASSIGNED", "AGENT_STARTED"}
  BY <1>1 DEF Draft
<1>3. workflow_state' \in {workflow_state} \cup (WorkflowState \ {"recovered"})
  BY DEF StartTask, WorkflowState
<1>4. UNCHANGED <<attack_detected, tests_passed, model_calls>>
  BY DEF StartTask
<1> QED
  BY <1>2, <1>3, <1>4, QuietCall, TaskType DEF Denials

LEMMA AllowIsQuiet ==
    ASSUME Before, NEW w \in Worker, NEW path, AllowResource(w), Call(path, None, NoTask)
    PROVE  ScreenInv'
<1>1. batch' = <<Draft("TOOL_REQUESTED", w), Draft("TOOL_EXECUTED", w)>>
  BY DEF AllowResource, Publish
<1>2. \A j \in 1..Len(batch') : batch'[j].type \in {"TOOL_REQUESTED", "TOOL_EXECUTED"}
  BY <1>1 DEF Draft
<1>3. workflow_state' = workflow_state /\ UNCHANGED <<attack_detected, tests_passed, model_calls>>
  BY DEF AllowResource, statusVars
<1> QED
  BY <1>2, <1>3, QuietCall, TaskType DEF Denials

LEMMA RegisterIsQuiet ==
    ASSUME Before, NEW w \in Worker, NEW r, RegisterWorker(w, r, FALSE), Call(None, r, NoTask)
    PROVE  ScreenInv'
<1>1. batch' = <<Draft("AGENT_CREATED", w)>>
  BY DEF RegisterWorker, Publish
<1>2. \A j \in 1..Len(batch') : batch'[j].type = "AGENT_CREATED"
  BY <1>1 DEF Draft
<1>3. workflow_state' = workflow_state /\ UNCHANGED <<attack_detected, tests_passed, model_calls>>
  BY DEF RegisterWorker, statusVars
<1> QED
  BY <1>2, <1>3, QuietCall, TaskType DEF Denials

LEMMA ReassignIsQuiet ==
    ASSUME Before, NEW from \in Worker, NEW to \in Worker, NEW context,
           Reassign(from, to, context, FALSE), Call(None, from, NoTask)
    PROVE  ScreenInv'
<1>1. batch' = <<DraftWith("TASK_REASSIGNED", from, {to}),
                 DraftWith("AGENT_CREATED", to, TrustedContextFor(to)), Draft("AGENT_STARTED", to)>>
  BY DEF Reassign, Publish
<1>2. \A j \in 1..Len(batch') :
         batch'[j].type \in {"TASK_REASSIGNED", "AGENT_CREATED", "AGENT_STARTED"}
  BY <1>1 DEF Draft, DraftWith
<1>3. workflow_state' = "recovering" /\ UNCHANGED <<attack_detected, tests_passed, model_calls>>
  BY DEF Reassign
<1>4. workflow_state' \in WorkflowState \ {"recovered"}
  BY <1>3 DEF WorkflowState
<1> QED
  BY <1>2, <1>3, <1>4, QuietCall, TaskType DEF Denials

LEMMA FailIsQuiet ==
    ASSUME Before, Fail, Call(None, None, NoTask)
    PROVE  ScreenInv'
<1>1. batch' = <<Draft("EXPERIMENT_STOPPED", None)>>
  BY DEF Fail, Publish
<1>2. \A j \in 1..Len(batch') : batch'[j].type = "EXPERIMENT_STOPPED"
  BY <1>1 DEF Draft
<1>3. workflow_state' = "failed" /\ UNCHANGED <<attack_detected, tests_passed, model_calls>>
  BY DEF Fail
<1>4. workflow_state' \in WorkflowState \ {"recovered"}
  BY <1>3 DEF WorkflowState
<1> QED
  BY <1>2, <1>3, <1>4, QuietCall, TaskType DEF Denials

\* recover() publishes what it says the workflow is.
LEMMA RecoverIsQuiet ==
    ASSUME Before, Recover, Call(None, None, NoTask)
    PROVE  ScreenInv'
<1>1. PICK order \in Orders(Replacements) :
        batch' = [i \in DOMAIN order |-> Draft("AGENT_RECOVERED", order[i])]
                 \o <<DraftWith("WORKFLOW_RECOVERED", None, Quarantined)>>
  BY DEF Recover, Publish
<1> DEFINE drafts == [i \in DOMAIN order |-> Draft("AGENT_RECOVERED", order[i])]
           e == DraftWith("WORKFLOW_RECOVERED", None, Quarantined)
<1>2. drafts \in Seq(EventDraft) /\ \A i \in DOMAIN drafts : drafts[i].type = "AGENT_RECOVERED"
  <2>1. Replacements \in SUBSET Worker
    BY DEF Replacements, Active, Registered
  <2>2. drafts \in Seq(EventDraft)
    BY <2>1, RecoveredDrafts
  <2> QED
    BY <2>2 DEF Draft
<1>3. e.type = "WORKFLOW_RECOVERED"
  BY DEF DraftWith
<1> HIDE DEF drafts, e
<1>4. batch' = drafts \o <<e>>
  BY <1>1 DEF drafts, e
<1>5. /\ Len(batch') = Len(drafts) + 1 /\ Len(drafts) \in Nat
      /\ \A j \in 1..Len(drafts) : batch'[j].type = "AGENT_RECOVERED"
      /\ batch'[Len(drafts) + 1].type = "WORKFLOW_RECOVERED"
  BY <1>2, <1>3, <1>4
<1>6. \A j \in 1..Len(batch') : batch'[j].type \in {"AGENT_RECOVERED", "WORKFLOW_RECOVERED"}
  <2> TAKE j \in 1..Len(batch')
  <2>1. j \in 1..Len(drafts) \/ j = Len(drafts) + 1
    BY <1>5
  <2> QED
    BY <1>5, <2>1
<1>7. \E j \in 1..Len(batch') : batch'[j].type = "WORKFLOW_RECOVERED"
  BY <1>5
<1>8. UNCHANGED <<attack_detected, tests_passed, model_calls>>
  BY DEF Recover
<1> QED
  BY <1>6, <1>7, <1>8, QuietCall, TaskType DEF Denials

\* A completed task named "pytest" is the last test from then on, as one that ran no test
\* or with the session's own result.
LEMMA TestIsLast ==
    ASSUME Before, NEW w \in Worker, FinishTask(w), NEW task \in Task, Call(None, None, task),
           task.step = "pytest", task.passed \in {tests_passed', None}
    PROVE  ScreenInv'
<1>1. Logged' /\ Adds(None, None, task) /\ Drawn' /\ LogTypeOK
  BY CallLogs DEF Before
<1>2. batch' = <<Draft("TASK_COMPLETED", w)>>
  BY DEF FinishTask, Publish
<1>3. Len(batch') = 1 /\ batch'[1].type = "TASK_COMPLETED"
  BY <1>2 DEF Draft
<1>4. UNCHANGED <<workflow_state, attack_detected, model_calls>>
  BY DEF FinishTask, statusVars
<1>5. \A j \in 1..Len(batch') : batch'[j].type = "TASK_COMPLETED"
  BY <1>3
<1>6. Alarm' /\ Cascades'
  BY <1>1, <1>4, <1>5, AlarmKept, NoDenials DEF Before, ScreenInv, Denials
<1>7. Recovered' /\ Counted'
  BY <1>1, <1>4, <1>5, RecoveredKept, CountedKept DEF Before, ScreenInv
<1>8. last_seq' = last_seq + 1 /\ last_seq \in Nat
  BY <1>1, <1>3 DEF Adds, LogTypeOK
<1>9. PICK m : m = last_seq + 1
  OBVIOUS
<1>10. log'[m] = Entry(batch'[1], m, None, None, task)
  BY <1>1, <1>3, <1>9 DEF Adds
<1>11. Test(m)' /\ log'[m].passed = task.passed
  BY <1>3, <1>10 DEF Test, Entry
<1>12. m \in 1..(last_seq') /\ \A i \in 1..(last_seq') : i <= m
  BY <1>8, <1>9
<1>13. LastTest'
  BY <1>11, <1>12 DEF LastTest
<1> QED
  BY <1>1, <1>6, <1>7, <1>13 DEF ScreenInv

\* Reporting a task complete runs no test, whatever its name.
LEMMA CompleteIsNamed ==
    ASSUME Before, NEW w \in Worker, NEW name \in {"pytest", "review"}, CompleteTask(w),
           Call(None, None, TaskNamed(name))
    PROVE  ScreenInv'
<1>1. FinishTask(w) /\ tests_passed' = tests_passed
  BY DEF CompleteTask
<1>2. CASE name = "pytest"
  <2>1. TaskNamed(name).step = "pytest" /\ TaskNamed(name).passed = None
    BY <1>2 DEF TaskNamed
  <2> QED
    BY <1>1, <2>1, TaskType, TestIsLast
<1>3. CASE name = "review"
  <2>1. TaskNamed(name).step # "pytest"
    BY <1>3 DEF TaskNamed
  <2>2. \A j \in 1..Len(batch') : batch'[j].type = "TASK_COMPLETED"
    BY <1>1 DEF FinishTask, Publish, Draft
  <2>3. UNCHANGED <<workflow_state, attack_detected, tests_passed, model_calls>>
    BY <1>1 DEF FinishTask, statusVars
  <2> QED
    BY <2>1, <2>2, <2>3, QuietCall DEF Denials
<1> QED
  BY <1>2, <1>3

LEMMA CallIsCounted ==
    ASSUME Before, NEW w \in Worker, RecordModelCall(w), Call(None, None, NoTask)
    PROVE  ScreenInv'
<1>1. Logged' /\ Adds(None, None, NoTask) /\ Drawn' /\ LogTypeOK
  BY CallLogs DEF Before
<1>2. batch' = <<Draft("MODEL_REQUESTED", w), Draft("MODEL_RESPONDED", w)>>
  BY DEF RecordModelCall, Publish
<1>3. Len(batch') = 2 /\ batch'[1].type = "MODEL_REQUESTED" /\ batch'[2].type = "MODEL_RESPONDED"
  BY <1>2 DEF Draft
<1>4. UNCHANGED <<workflow_state, attack_detected, tests_passed>> /\ model_calls' = model_calls + 1
  BY DEF RecordModelCall, statusVars
<1>5. \A j \in 1..Len(batch') : batch'[j].type \in {"MODEL_REQUESTED", "MODEL_RESPONDED"}
  BY <1>3
<1>6. Alarm' /\ Cascades'
  BY <1>1, <1>4, <1>5, AlarmKept, NoDenials DEF Before, ScreenInv, Denials
<1>7. Recovered' /\ LastTest'
  BY <1>1, <1>4, RecoveredKept, LastTestKept, TaskType DEF Before, ScreenInv
<1>8. last_seq' = last_seq + 2 /\ last_seq \in Nat
  BY <1>1, <1>3 DEF Adds, LogTypeOK
<1>9. log'[last_seq + 1].type = "MODEL_REQUESTED" /\ log'[last_seq + 2].type = "MODEL_RESPONDED"
  BY <1>1, <1>3 DEF Adds, Entry
<1>10. Requests' = Requests \cup {last_seq + 1}
  <2>1. \A i \in 1..(last_seq') : i \in 1..last_seq \/ i = last_seq + 1 \/ i = last_seq + 2
    BY <1>8
  <2>2. last_seq + 1 \in 1..(last_seq') /\ 1..last_seq \subseteq 1..(last_seq')
    BY <1>8
  <2>3. \A i \in 1..last_seq : log'[i] = log[i]
    BY <1>1 DEF Adds
  <2> QED
    BY <1>9, <2>1, <2>2, <2>3 DEF Requests
<1>11. IsFiniteSet(Requests) /\ last_seq + 1 \notin Requests
  <2>1. IsFiniteSet(1..last_seq) /\ last_seq + 1 \notin 1..last_seq
    BY <1>8, FS_Interval
  <2>2. Requests \subseteq 1..last_seq
    BY DEF Requests
  <2> QED
    BY <2>1, <2>2, FS_Subset
<1>12. Counted'
  <2>1. Cardinality(Requests \cup {last_seq + 1}) = Cardinality(Requests) + 1
    BY <1>11, FS_AddElement
  <2> QED
    BY <1>4, <1>10, <2>1 DEF Counted, Before, ScreenInv
<1> QED
  BY <1>1, <1>6, <1>7, <1>12 DEF ScreenInv

\* A quarantined worker's request is refused after a quarantine.
LEMMA RefusalIsLate ==
    ASSUME Before, NEW w \in Worker, NEW path, RefuseQuarantined(w), Call(path, None, NoTask)
    PROVE  ScreenInv'
<1>1. Logged' /\ Adds(path, None, NoTask) /\ Drawn' /\ LogTypeOK
  BY CallLogs DEF Before
<1>2. batch' = <<Draft("TOOL_REQUESTED", w), Draft("TOOL_DENIED", w)>>
  BY DEF RefuseQuarantined, Publish
<1>3. Len(batch') = 2 /\ batch'[1].type = "TOOL_REQUESTED" /\ batch'[2].type = "TOOL_DENIED"
  BY <1>2 DEF Draft
<1>4. UNCHANGED <<workflow_state, attack_detected, tests_passed, model_calls>>
  BY DEF RefuseQuarantined, statusVars
<1>5. \A j \in 1..Len(batch') : batch'[j].type \in {"TOOL_REQUESTED", "TOOL_DENIED"}
  BY <1>3
<1>6. Alarm' /\ Recovered'
  BY <1>1, <1>4, <1>5, AlarmKept, RecoveredKept DEF Before, ScreenInv
<1>7. LastTest' /\ Counted'
  BY <1>1, <1>4, <1>5, LastTestKept, CountedKept, TaskType DEF Before, ScreenInv
<1>8. Has("AGENT_QUARANTINED")
  <2>1. attack_detected
    BY DEF RefuseQuarantined, Before, Safe, QuarantineIsAccounted
  <2> QED
    BY <2>1 DEF Before, ScreenInv, Alarm
<1>9. PICK q \in 1..last_seq : log[q].type = "AGENT_QUARANTINED"
  BY <1>8 DEF Has
<1>10. log'[q].type = "AGENT_QUARANTINED"
  BY <1>1, <1>9, OldEvent
<1>11. ASSUME NEW i \in 1..(last_seq'), i \notin 1..last_seq
       PROVE  /\ log'[i].type \in {"TOOL_REQUESTED", "TOOL_DENIED"}
              /\ \E j \in 1..(i - 1) : log'[j].type = "AGENT_QUARANTINED"
  <2>1. PICK j \in 1..Len(batch') : log'[i] = Entry(batch'[j], i, path, None, NoTask)
    BY <1>1, <1>11, NewEvent
  <2>2. log'[i].type = batch'[j].type
    BY <2>1 DEF Entry
  <2>3. q \in 1..(i - 1)
    BY <1>1, <1>11 DEF LogTypeOK
  <2> QED
    BY <1>5, <1>10, <2>2, <2>3
<1>12. Cascades'
  BY <1>1, <1>11, CascadesKept DEF Before, ScreenInv
<1> QED
  BY <1>1, <1>6, <1>7, <1>12 DEF ScreenInv

\* A quarantine raises the alarm; the cascade in front of it is whole.
LEMMA QuarantineIsWhole ==
    ASSUME Before, NEW w \in Worker, NEW cascade \in {<< >>, Cascade(w)}, NEW path,
           QuarantineAfter(w, cascade), Call(path, None, NoTask)
    PROVE  ScreenInv'
<1>1. Logged' /\ Adds(path, None, NoTask) /\ Drawn' /\ LogTypeOK
  BY CallLogs DEF Before
<1>2. PICK n : n = Len(cascade)
  OBVIOUS
<1>3. /\ n \in {0, 4} /\ Len(batch') = n + 1
      /\ n = 4 => cascade = Cascade(w)
      /\ batch'[n + 1].type = "AGENT_QUARANTINED" /\ batch'[n + 1].agent = w
      /\ \A i \in 1..n : batch'[i] = cascade[i]
  BY <1>1, <1>2, QuarantineBatch
<1>4. n = 4 => /\ batch'[1].type = "TOOL_REQUESTED" /\ batch'[2].type = "TOOL_DENIED"
               /\ batch'[2].agent = w /\ batch'[3].type = "POLICY_VIOLATION"
               /\ batch'[4].type = "ANOMALY_DETECTED"
  <2> SUFFICES ASSUME n = 4
               PROVE  /\ batch'[1].type = "TOOL_REQUESTED" /\ batch'[2].type = "TOOL_DENIED"
                      /\ batch'[2].agent = w /\ batch'[3].type = "POLICY_VIOLATION"
                      /\ batch'[4].type = "ANOMALY_DETECTED"
    OBVIOUS
  <2>1. \A i \in 1..4 : batch'[i] = Cascade(w)[i]
    BY <1>3
  <2> QED
    BY <2>1 DEF Cascade, Draft
<1>5. /\ attack_detected' = TRUE /\ workflow_state' = "under_attack"
      /\ UNCHANGED <<tests_passed, model_calls>>
  BY DEF QuarantineAfter, RaiseAlarm
<1>6. Alarm'
  BY <1>1, <1>3, <1>5, HasStays DEF Alarm
<1>7. Recovered'
  BY <1>1, <1>5, RecoveredKept DEF Before, ScreenInv, WorkflowState
<1>8. LastTest'
  BY <1>1, <1>5, LastTestKept, TaskType DEF Before, ScreenInv
<1>9. Counted'
  <2>1. \A j \in 1..Len(batch') : batch'[j].type # "MODEL_REQUESTED"
    <3> TAKE j \in 1..Len(batch')
    <3>1. j = n + 1 \/ (n = 4 /\ j \in {1, 2, 3, 4})
      BY <1>3
    <3> QED
      BY <1>3, <1>4, <3>1
  <2> QED
    BY <1>1, <1>5, <2>1, CountedKept DEF Before, ScreenInv
<1>10. last_seq \in Nat /\ last_seq' = last_seq + n + 1
  BY <1>1, <1>3 DEF Adds, LogTypeOK
<1>11. PICK s : s = last_seq
  OBVIOUS
<1>12. \A j \in 1..(n + 1) : log'[s + j].type = batch'[j].type /\ log'[s + j].agent = batch'[j].agent
  <2> TAKE j \in 1..(n + 1)
  <2>1. log'[s + j] = Entry(batch'[j], last_seq + j, path, None, NoTask)
    BY <1>1, <1>3, <1>11 DEF Adds
  <2> QED
    BY <2>1 DEF Entry
<1>13. n = 4 => Whole(s + 2)'
  BY <1>3, <1>4, <1>10, <1>11, <1>12 DEF Whole
<1>14. ASSUME NEW i \in 1..(last_seq'), i \notin 1..last_seq
       PROVE  /\ log'[i].type = "TOOL_DENIED" => Whole(i)'
              /\ log'[i].type = "POLICY_VIOLATION" => Whole(i - 1)'
              /\ log'[i].type = "ANOMALY_DETECTED" => Whole(i - 2)'
  <2>1. i = s + n + 1 \/ (n = 4 /\ i \in {s + 1, s + 2, s + 3, s + 4})
    BY <1>3, <1>10, <1>11, <1>14
  <2>2. CASE i = s + n + 1
    <3>1. log'[i].type = "AGENT_QUARANTINED"
      BY <1>3, <1>10, <1>11, <1>12, <2>2
    <3> QED
      BY <3>1
  <2>3. CASE n = 4 /\ i \in {s + 1, s + 2, s + 3, s + 4}
    <3>1. /\ log'[s + 1].type = "TOOL_REQUESTED" /\ log'[s + 2].type = "TOOL_DENIED"
          /\ log'[s + 3].type = "POLICY_VIOLATION" /\ log'[s + 4].type = "ANOMALY_DETECTED"
      BY <1>4, <1>12, <2>3
    <3>2. (s + 3) - 1 = s + 2 /\ (s + 4) - 2 = s + 2
      BY <1>10, <1>11
    <3> QED
      BY <1>13, <2>3, <3>1, <3>2
  <2> QED
    BY <2>1, <2>2, <2>3
<1>15. Cascades'
  BY <1>1, <1>14, CascadesKept DEF Before, ScreenInv
<1> QED
  BY <1>1, <1>6, <1>7, <1>8, <1>9, <1>15 DEF ScreenInv

LEMMA OtherKept ==
    ASSUME Before,
           \/ Attach \/ UNCHANGED viewVars
           \/ \E w \in Worker, a \in Artifact : RecordArtifact(a, w) /\ UNCHANGED <<log, nodes>>
    PROVE  ScreenInv'
<1>1. UNCHANGED <<log, last_seq, attack_detected, workflow_state, tests_passed, model_calls,
                  security_state>>
  BY DEF Attach, viewVars, vars, workerVars, statusVars, logVars, RecordArtifact
<1>2. Logged' /\ Alarm' /\ Cascades' /\ Recovered' /\ LastTest'
  <2>1. Logged /\ Alarm /\ Cascades /\ Recovered /\ LastTest
    BY DEF Before, ScreenInv
  <2>2. Logged' /\ Alarm' /\ Recovered'
    BY <1>1, <2>1 DEF Logged, Alarm, Has, Recovered
  <2>3. Cascades'
    BY <1>1, <2>1 DEF Cascades, Whole
  <2>4. LastTest'
    BY <1>1, <2>1 DEF LastTest, Test
  <2> QED
    BY <2>2, <2>3, <2>4
<1>3. Counted'
  <2>1. Requests' = Requests
    BY <1>1 DEF Requests
  <2> QED
    BY <1>1, <2>1 DEF Before, ScreenInv, Counted
<1>4. Drawn'
  <2>1. CASE Attach
    BY <1>1, <2>1 DEF Attach, Drawn, Quarantined, Registered
  <2>2. CASE UNCHANGED nodes
    BY <1>1, <2>2 DEF Before, ScreenInv, Drawn, Quarantined
  <2> QED
    BY <2>1, <2>2 DEF viewVars
<1> QED
  BY <1>2, <1>3, <1>4 DEF ScreenInv

LEMMA ScreenStep == TypeOK /\ Safe /\ ScreenInv /\ [ViewNext]_viewVars => ScreenInv'
<1> SUFFICES ASSUME TypeOK, Safe, ScreenInv, [ViewNext]_viewVars
             PROVE  ScreenInv'
  OBVIOUS
<1>1. Before
  BY TypeOKSplit DEF Before
<1>2. ASSUME NEW w \in Worker, WorkerReports(w), Streamed
      PROVE  ScreenInv'
  <2>1. CASE StartTask(w) /\ Logs(None, None, NoTask)
    <3>1. Call(None, None, NoTask)
      BY <1>2, <2>1, TaskType DEF Call, Next, WorkerCall, StartTask, Publish
    <3> QED
      BY <1>1, <2>1, <3>1, StartIsQuiet
  <2>2. CASE RecordModelCall(w) /\ Logs(None, None, NoTask)
    <3>1. Call(None, None, NoTask)
      BY <1>2, <2>2, TaskType DEF Call, Next, WorkerCall, RecordModelCall, Publish
    <3> QED
      BY <1>1, <2>2, <3>1, CallIsCounted
  <2>3. ASSUME NEW passed \in BOOLEAN, RecordTestRun(w, passed), Logs(None, None, TestRun(passed))
        PROVE  ScreenInv'
    <3>1. Call(None, None, TestRun(passed))
      BY <1>2, <2>3, TaskType DEF Call, Next, WorkerCall, RecordTestRun, FinishTask, Publish
    <3>2. TestRun(passed).step = "pytest" /\ TestRun(passed).passed = passed
      BY DEF TestRun
    <3>3. FinishTask(w) /\ tests_passed' = passed
      BY <2>3 DEF RecordTestRun
    <3> QED
      BY <1>1, <3>1, <3>2, <3>3, TaskType, TestIsLast
  <2>4. ASSUME NEW name \in {"pytest", "review"}, CompleteTask(w),
               Logs(None, None, TaskNamed(name))
        PROVE  ScreenInv'
    <3>1. Call(None, None, TaskNamed(name))
      BY <1>2, <2>4, TaskType DEF Call, Next, WorkerCall, CompleteTask, FinishTask, Publish
    <3> QED
      BY <1>1, <2>4, <3>1, CompleteIsNamed
  <2> QED
    BY <1>2, <2>1, <2>2, <2>3, <2>4 DEF WorkerReports
<1>3. ASSUME NEW w \in Worker, WorkerAsks(w), Streamed
      PROVE  ScreenInv'
  <2>1. ASSUME NEW path \in Inside, AllowResource(w), Logs(path, None, NoTask)
        PROVE  ScreenInv'
    <3>1. Call(path, None, NoTask)
      BY <1>3, <2>1, TaskType DEF Call, Next, WorkerCall, AllowResource, Publish
    <3> QED
      BY <1>1, <2>1, <3>1, AllowIsQuiet
  <2>2. ASSUME NEW path \in Protected, DenyResource(w), Logs(path, None, NoTask)
        PROVE  ScreenInv'
    <3>1. QuarantineAfter(w, Cascade(w))
      BY <2>2 DEF DenyResource, Cascade
    <3>2. Call(path, None, NoTask)
      BY <1>3, <2>2, <3>1, TaskType DEF Call, Next, WorkerCall, QuarantineAfter, Publish
    <3> QED
      BY <1>1, <3>1, <3>2, QuarantineIsWhole
  <2>3. ASSUME NEW path \in Inside \cup Protected, RefuseQuarantined(w), Logs(path, None, NoTask)
        PROVE  ScreenInv'
    <3>1. Call(path, None, NoTask)
      BY <1>3, <2>3, TaskType DEF Call, Next, WorkerCall, RefuseQuarantined, Publish
    <3> QED
      BY <1>1, <2>3, <3>1, RefusalIsLate
  <2> QED
    BY <1>3, <2>1, <2>2, <2>3 DEF WorkerAsks
<1>4. ASSUME ControlCalls, Streamed
      PROVE  ScreenInv'
  <2>1. ASSUME NEW w \in Worker, NEW r \in Worker \cup {None}, RegisterWorker(w, r, FALSE),
               Logs(None, r, NoTask)
        PROVE  ScreenInv'
    <3>1. Call(None, r, NoTask)
      BY <1>4, <2>1, TaskType DEF Call, Next, ControlCall, RegisterWorker, Publish
    <3> QED
      BY <1>1, <2>1, <3>1, RegisterIsQuiet
  <2>2. ASSUME NEW w \in Worker, Quarantine(w), Logs(None, None, NoTask)
        PROVE  ScreenInv'
    <3>1. QuarantineAfter(w, << >>)
      BY <2>2 DEF Quarantine
    <3>2. Call(None, None, NoTask)
      BY <1>4, <2>2, <3>1, TaskType DEF Call, Next, ControlCall, QuarantineAfter, Publish
    <3> QED
      BY <1>1, <3>1, <3>2, QuarantineIsWhole
  <2>3. ASSUME NEW from \in Worker, NEW to \in Worker, NEW context \in SUBSET Artifact,
               Reassign(from, to, context, FALSE), Logs(None, from, NoTask)
        PROVE  ScreenInv'
    <3>1. Call(None, from, NoTask)
      BY <1>4, <2>3, TaskType DEF Call, Next, ControlCall, Reassign, Publish
    <3> QED
      BY <1>1, <2>3, <3>1, ReassignIsQuiet
  <2>4. CASE Recover /\ Logs(None, None, NoTask)
    <3>1. last_seq' = last_seq + Len(batch')
      BY <2>4 DEF Recover, Publish
    <3>2. Call(None, None, NoTask)
      BY <1>4, <2>4, <3>1, TaskType DEF Call, Next, ControlCall
    <3> QED
      BY <1>1, <2>4, <3>2, RecoverIsQuiet
  <2>5. CASE Fail /\ Logs(None, None, NoTask)
    <3>1. Call(None, None, NoTask)
      BY <1>4, <2>5, TaskType DEF Call, Next, ControlCall, Fail, Publish
    <3> QED
      BY <1>1, <2>5, <3>1, FailIsQuiet
  <2> QED
    BY <1>4, <2>1, <2>2, <2>3, <2>4, <2>5 DEF ControlCalls
<1> QED
  BY <1>1, <1>2, <1>3, <1>4, OtherKept DEF ViewNext

\* What the log tells of the session, in every state of the screen.
THEOREM ScreenSafe == ViewSpec => []ScreenInv
<1>1. ViewInit => ScreenInv
  <2> SUFFICES ASSUME ViewInit
               PROVE  ScreenInv
    OBVIOUS
  <2>1. log = << >> /\ last_seq = 0 /\ nodes = << >>
    BY DEF ViewInit, Init
  <2>2. 1..last_seq = {} /\ Len(log) = last_seq /\ log \in Seq(Event)
    BY <2>1
  <2>3. Counted
    <3>1. Requests = {}
      BY <2>2 DEF Requests
    <3> QED
      BY <3>1, FS_EmptySet DEF Counted, ViewInit, Init
  <2>4. Logged /\ Alarm /\ Cascades /\ LastTest
    BY <2>2 DEF ViewInit, Init, Logged, Alarm, Has, Cascades, LastTest
  <2>5. Recovered /\ Drawn
    BY DEF ViewInit, Init, Recovered, Drawn, Quarantined
  <2> QED
    BY <2>3, <2>4, <2>5 DEF ScreenInv
<1>2. TypeOK /\ Safe /\ ScreenInv /\ [ViewNext]_viewVars => ScreenInv'
  BY ScreenStep
<1> QED
  BY <1>1, <1>2, ViewIsOfTheSession, TypeCorrect, SessionSafe, PTL DEF ViewSpec

----------------------------------------------------------------------------
(* What the screen says of the session, while the log fits the page's cap *)

LEMMA MinIs ==
    ASSUME NEW k \in Nat, NEW s \in SUBSET (1..k), s # {}
    PROVE  Min(s) \in s /\ \A y \in s : Min(s) <= y
<1> DEFINE S == {j \in 0..k : s \cap (1..j) # {} => \E x \in s : \A y \in s : x <= y}
<1>1. 0..k \subseteq S
  <2>1. 0 \in S
    OBVIOUS
  <2>2. ASSUME NEW j \in 0..(k - 1), j \in S
        PROVE  j + 1 \in S
    <3>1. CASE s \cap (1..j) # {}
      BY <2>2, <3>1
    <3>2. CASE s \cap (1..j) = {} /\ j + 1 \in s
      <4>1. \A y \in s : j + 1 <= y
        BY <3>2
      <4> QED
        BY <3>2, <4>1
    <3>3. CASE s \cap (1..j) = {} /\ j + 1 \notin s
      <4>1. s \cap (1..(j + 1)) = {}
        BY <3>3
      <4> QED
        BY <4>1
    <3> QED
      BY <3>1, <3>2, <3>3
  <2> HIDE DEF S
  <2> QED
    BY <2>1, <2>2, UpTo
<1>2. k \in S
  <2> HIDE DEF S
  <2> QED
    BY <1>1
<1>3. s \cap (1..k) # {}
  OBVIOUS
<1>4. \E x \in s : \A y \in s : x <= y
  BY <1>2, <1>3
<1> QED
  BY <1>4 DEF Min

\* The events of a type are places of the log; the first one's number is its place.
LEMMA Places ==
    ASSUME Logged, LogTypeOK, NEW type
    PROVE  /\ Of(log, type) = {i \in 1..last_seq : log[i].type = type}
           /\ Of(log, type) \in SUBSET (1..last_seq) /\ last_seq \in Nat
           /\ Of(log, type) # {} =>
                LET i == Min(Of(log, type)) IN
                /\ SeqAt(log, FirstIn(Of(log, type))) = i
                /\ i \in 1..last_seq /\ log[i].type = type
                /\ \A j \in 1..last_seq : log[j].type = type => i <= j
           /\ Of(log, type) = {} => SeqAt(log, FirstIn(Of(log, type))) = None
<1>1. DOMAIN log = 1..last_seq /\ last_seq \in Nat
  BY DEF Logged, LogTypeOK
<1>2. Of(log, type) = {i \in 1..last_seq : log[i].type = type}
  BY <1>1 DEF Of
<1>3. ASSUME Of(log, type) # {}
      PROVE  LET i == Min(Of(log, type)) IN
             /\ SeqAt(log, FirstIn(Of(log, type))) = i
             /\ i \in 1..last_seq /\ log[i].type = type
             /\ \A j \in 1..last_seq : log[j].type = type => i <= j
  <2>1. PICK s : s = Of(log, type)
    OBVIOUS
  <2>2. s \in SUBSET (1..last_seq) /\ s # {}
    BY <1>2, <1>3, <2>1
  <2>3. Min(s) \in s /\ \A y \in s : Min(s) <= y
    BY <1>1, <2>2, MinIs
  <2>4. PICK i : i = Min(s)
    OBVIOUS
  <2>5. i \in 1..last_seq /\ log[i].type = type /\ \A j \in 1..last_seq : log[j].type = type => i <= j
    BY <1>2, <2>1, <2>3, <2>4
  <2>6. FirstIn(s) = i /\ i # None
    BY <2>2, <2>4, <2>5, NoneAssumption DEF FirstIn
  <2>7. SeqAt(log, i) = i
    BY <2>5, <2>6 DEF SeqAt, Logged
  <2> QED
    BY <2>1, <2>4, <2>5, <2>6, <2>7
<1>4. Of(log, type) = {} => SeqAt(log, FirstIn(Of(log, type))) = None
  BY DEF FirstIn, SeqAt
<1> QED
  BY <1>1, <1>2, <1>3, <1>4

\* While the log fits, the page has all of it.
LEMMA AllLive == Len(log) <= EventLogCap => LiveEvents = log
BY DEF LiveEvents

LEMMA PinnedState ==
    ASSUME ScreenInv, LogTypeOK, LiveEvents = log
    PROVE  CascadeIsPinned
<1> DEFINE denials     == Of(log, "TOOL_DENIED")
           violations  == Of(log, "POLICY_VIOLATION")
           quarantines == Of(log, "AGENT_QUARANTINED")
<1>1. Logged /\ Cascades /\ last_seq \in Nat
  BY DEF ScreenInv, LogTypeOK
<1>2. /\ deriveIncident(log).cascade.denied = SeqAt(log, FirstIn(denials))
      /\ deriveIncident(log).cascade.violation = SeqAt(log, FirstIn(violations))
      /\ deriveIncident(log).cascade.quarantined = SeqAt(log, FirstIn(quarantines))
  BY DEF deriveIncident, TheDenial
<1>3. PICK q : q = SeqAt(log, FirstIn(quarantines))
  OBVIOUS
<1> SUFFICES ASSUME q # None, q > 1, log[q - 1].type = "ANOMALY_DETECTED"
             PROVE  /\ SeqAt(log, FirstIn(denials)) = q - 3
                    /\ SeqAt(log, FirstIn(violations)) = q - 2
                    /\ log[q - 3].agent = log[q].agent
  <2>1. LiveEvents = log
    OBVIOUS
  <2> HIDE DEF denials, violations, quarantines
  <2> QED
    BY <1>2, <1>3, <2>1 DEF CascadeIsPinned
<1>4. /\ q \in 1..last_seq /\ log[q].type = "AGENT_QUARANTINED"
      /\ \A j \in 1..last_seq : log[j].type = "AGENT_QUARANTINED" => q <= j
  BY <1>1, <1>3, Places
<1>5. q - 1 \in 1..last_seq /\ (q - 1) - 2 = q - 3 /\ q \in Int
  BY <1>1, <1>4
<1>6. Whole(q - 3)
  BY <1>1, <1>5 DEF Cascades
<1>7. /\ q - 3 \in 1..last_seq /\ log[q - 3].type = "TOOL_DENIED"
      /\ q - 2 \in 1..last_seq /\ log[q - 2].type = "POLICY_VIOLATION"
      /\ log[q - 3].agent = log[q].agent
  <2>1. (q - 3) + 1 = q - 2 /\ (q - 3) + 3 = q
    BY <1>5
  <2>2. q - 3 \in 1..last_seq
    BY <1>6 DEF Whole
  <2>3. q - 2 \in 1..last_seq
    BY <1>1, <1>4, <2>2
  <2> QED
    BY <1>6, <2>1, <2>2, <2>3 DEF Whole
<1>8. ASSUME NEW i \in 1..last_seq, Whole(i)
      PROVE  q - 3 <= i
  <2>1. i + 3 \in 1..last_seq /\ log[i + 3].type = "AGENT_QUARANTINED"
    BY <1>8 DEF Whole
  <2> QED
    BY <1>4, <1>5, <2>1
<1>9. \A i \in 1..last_seq : log[i].type = "TOOL_DENIED" => q - 3 <= i
  <2> TAKE i \in 1..last_seq
  <2> HAVE log[i].type = "TOOL_DENIED"
  <2>1. CASE Whole(i)
    BY <1>8, <2>1
  <2>2. CASE \E j \in 1..(i - 1) : log[j].type = "AGENT_QUARANTINED"
    <3>1. PICK j \in 1..(i - 1) : log[j].type = "AGENT_QUARANTINED"
      BY <2>2
    <3>2. q <= j
      BY <1>1, <1>4, <3>1
    <3> QED
      BY <1>5, <3>1, <3>2
  <2> QED
    BY <1>1, <2>1, <2>2 DEF Cascades
<1>10. \A i \in 1..last_seq : log[i].type = "POLICY_VIOLATION" => q - 2 <= i
  <2> TAKE i \in 1..last_seq
  <2> HAVE log[i].type = "POLICY_VIOLATION"
  <2>1. Whole(i - 1)
    BY <1>1 DEF Cascades
  <2>2. i - 1 \in 1..last_seq
    BY <2>1 DEF Whole
  <2>3. q - 3 <= i - 1
    BY <1>8, <2>1, <2>2
  <2> QED
    BY <1>5, <2>3
<1>11. SeqAt(log, FirstIn(denials)) = q - 3
  <2>1. PICK i : i = Min(denials)
    OBVIOUS
  <2>2. denials # {}
    BY <1>1, <1>7, Places
  <2>3. SeqAt(log, FirstIn(denials)) = i /\ i \in 1..last_seq /\ log[i].type = "TOOL_DENIED"
        /\ \A j \in 1..last_seq : log[j].type = "TOOL_DENIED" => i <= j
    BY <1>1, <2>1, <2>2, Places
  <2>4. i <= q - 3 /\ q - 3 <= i
    BY <1>7, <1>9, <2>3
  <2> QED
    BY <1>5, <2>3, <2>4
<1>12. SeqAt(log, FirstIn(violations)) = q - 2
  <2>1. PICK i : i = Min(violations)
    OBVIOUS
  <2>2. violations # {}
    BY <1>1, <1>7, Places
  <2>3. SeqAt(log, FirstIn(violations)) = i /\ i \in 1..last_seq /\ log[i].type = "POLICY_VIOLATION"
        /\ \A j \in 1..last_seq : log[j].type = "POLICY_VIOLATION" => i <= j
    BY <1>1, <2>1, <2>2, Places
  <2>4. i <= q - 2 /\ q - 2 <= i
    BY <1>7, <1>10, <2>3
  <2> QED
    BY <1>5, <2>3, <2>4
<1> QED
  BY <1>7, <1>11, <1>12

\* The cascade stays pinned to the request that caused the first quarantine, whatever
\* is refused or denied after it: the denied and the violation step are the two events
\* in front of its anomaly, of the quarantined worker.  It holds while the log is within
\* the cap of the page: past it reduce() forgets the first cascade.
THEOREM CascadePinned == ViewSpec => [](Len(log) <= EventLogCap => CascadeIsPinned)
<1>1. TypeOK /\ ScreenInv => (Len(log) <= EventLogCap => CascadeIsPinned)
  BY PinnedState, AllLive, TypeOKSplit
<1> QED
  BY <1>1, ViewIsOfTheSession, TypeCorrect, ScreenSafe, PTL

\* The lights are those of the session.
LEMMA LightsAgree ==
    ASSUME ScreenInv, StateTypeOK, LogTypeOK
    PROVE  LET lights == verdictLights(deriveVerdict(log)) IN
           /\ (lights.agentQuarantined = "lit") = attack_detected
           /\ lights.attackDetected = "lit" => lights.agentQuarantined = "lit"
           /\ workflow_state = "recovered" => lights.workflowRecovered = "lit"
<1>1. Logged /\ Alarm /\ Cascades /\ Recovered /\ attack_detected \in BOOLEAN
  BY DEF ScreenInv, StateTypeOK
<1>2. /\ Of(log, "AGENT_QUARANTINED") = {i \in 1..last_seq : log[i].type = "AGENT_QUARANTINED"}
      /\ Of(log, "POLICY_VIOLATION") = {i \in 1..last_seq : log[i].type = "POLICY_VIOLATION"}
      /\ Of(log, "WORKFLOW_RECOVERED") = {i \in 1..last_seq : log[i].type = "WORKFLOW_RECOVERED"}
  BY <1>1, Places
<1>3. Of(log, "AGENT_QUARANTINED") # {} <=> attack_detected
  BY <1>1, <1>2 DEF Alarm, Has
<1>4. workflow_state = "recovered" => Of(log, "WORKFLOW_RECOVERED") # {}
  BY <1>1, <1>2 DEF Recovered, Has
<1>5. ASSUME NEW i \in 1..last_seq, log[i].type = "POLICY_VIOLATION"
      PROVE  Of(log, "AGENT_QUARANTINED") # {}
  <2>1. Whole(i - 1)
    BY <1>1, <1>5 DEF Cascades
  <2>2. (i - 1) + 3 \in 1..last_seq /\ log[(i - 1) + 3].type = "AGENT_QUARANTINED"
    BY <2>1 DEF Whole
  <2> QED
    BY <1>2, <2>2
<1>6. Of(log, "POLICY_VIOLATION") # {} => Of(log, "AGENT_QUARANTINED") # {}
  BY <1>2, <1>5
<1>7. PICK v : v = deriveVerdict(log)
  OBVIOUS
<1>8. /\ v.agentQuarantined <=> Of(log, "AGENT_QUARANTINED") # {}
      /\ v.attackDetected <=> Of(log, "POLICY_VIOLATION") # {}
      /\ v.workflowRecovered <=> Of(log, "WORKFLOW_RECOVERED") # {}
  BY <1>7 DEF deriveVerdict
<1>9. /\ (verdictLights(v).agentQuarantined = "lit") <=> v.agentQuarantined
      /\ (verdictLights(v).attackDetected = "lit") <=> v.attackDetected
      /\ (verdictLights(v).workflowRecovered = "lit") <=> v.workflowRecovered
  BY DEF verdictLights
<1>10. (verdictLights(v).agentQuarantined = "lit") <=> attack_detected
  BY <1>3, <1>8, <1>9
<1>11. (verdictLights(v).agentQuarantined = "lit") = attack_detected
  BY <1>1, <1>10
<1> QED
  BY <1>4, <1>6, <1>7, <1>8, <1>9, <1>11

\* The last test is read as the session has it, or red when it ran none.
LEMMA TestsAgree ==
    ASSUME ScreenInv, LogTypeOK
    PROVE  /\ \/ deriveVerdict(log).testsPassed = tests_passed
              \/ /\ deriveVerdict(log).testsPassed = FALSE
                 /\ \E i \in Tests(log) : log[i].passed = None
           /\ deriveTestEvidence(log).provedGreen =>
                /\ tests_passed = TRUE
                /\ deriveTestEvidence(log).before < deriveTestEvidence(log).after
<1>1. Logged /\ LastTest /\ last_seq \in Nat /\ DOMAIN log = 1..last_seq
  BY DEF ScreenInv, Logged, LogTypeOK
<1>2. PICK runs : runs = Tests(log)
  OBVIOUS
<1>3. runs \in SUBSET (1..last_seq) /\ \A i \in 1..last_seq : i \in runs <=> Test(i)
  BY <1>1, <1>2 DEF Tests, Of, Test
<1>4. \A i \in runs : i \in Int
  BY <1>1, <1>3
<1>5. ASSUME runs # {}
      PROVE  /\ Max(runs) \in runs /\ Min(runs) \in runs
             /\ \A i \in runs : Min(runs) <= i /\ i <= Max(runs)
             /\ log[Max(runs)].passed \in {tests_passed, None}
  <2>1. Max(runs) \in runs /\ \A i \in runs : Max(runs) >= i
    BY <1>1, <1>3, <1>5, MaxIs
  <2>2. Min(runs) \in runs /\ \A i \in runs : Min(runs) <= i
    BY <1>1, <1>3, <1>5, MinIs
  <2>3. \E i \in 1..last_seq : Test(i)
    BY <1>3, <1>5
  <2>4. PICK m \in 1..last_seq : /\ Test(m) /\ log[m].passed \in {tests_passed, None}
                                 /\ \A i \in 1..last_seq : Test(i) => i <= m
    BY <1>1, <2>3 DEF LastTest
  <2>5. Max(runs) = m
    <3>1. m \in runs
      BY <1>3, <2>4
    <3>2. Max(runs) \in 1..last_seq /\ Test(Max(runs))
      BY <1>3, <2>1
    <3> QED
      BY <2>1, <2>4, <3>1, <3>2
  <2>6. PICK M : M = Max(runs)
    OBVIOUS
  <2>7. \A i \in runs : i <= M
    <3> TAKE i \in runs
    <3>1. M >= i /\ M \in runs
      BY <2>1, <2>6
    <3>2. M \in Int /\ i \in Int
      BY <1>4, <3>1
    <3> QED
      BY <3>1, <3>2
  <2> QED
    BY <2>1, <2>2, <2>4, <2>5, <2>6, <2>7
<1>6. runs = {} => tests_passed = None
  BY <1>1, <1>3 DEF LastTest
<1>7. \/ deriveVerdict(log).testsPassed = tests_passed
      \/ /\ deriveVerdict(log).testsPassed = FALSE
         /\ \E i \in runs : log[i].passed = None
  <2>1. CASE runs = {}
    BY <1>2, <1>6, <2>1 DEF deriveVerdict, TestsPassed
  <2>2. CASE runs # {}
    <3>1. PICK m : m = Max(runs)
      OBVIOUS
    <3>2. m \in runs /\ log[m].passed \in {tests_passed, None}
      BY <1>5, <2>2, <3>1
    <3>3. deriveVerdict(log).testsPassed = (log[m].passed = TRUE)
      BY <1>2, <2>2, <3>1 DEF deriveVerdict, TestsPassed, Passed
    <3>4. CASE log[m].passed = None
      <4>1. None # TRUE
        BY NoneAssumption
      <4>2. deriveVerdict(log).testsPassed = FALSE
        BY <3>3, <3>4, <4>1
      <4> QED
        BY <3>2, <3>4, <4>2
    <3>5. CASE log[m].passed # None
      <4>1. log[m] \in Event
        BY <1>1, <1>3, <3>2 DEF Logged
      <4>2. log[m].passed \in BOOLEAN
        BY <3>5, <4>1 DEF Event
      <4>3. log[m].passed = tests_passed
        BY <3>2, <3>5
      <4> QED
        BY <3>3, <4>2, <4>3
    <3> QED
      BY <3>4, <3>5
  <2> QED
    BY <2>1, <2>2
<1>8. ASSUME deriveTestEvidence(log).provedGreen
      PROVE  /\ tests_passed = TRUE
             /\ deriveTestEvidence(log).before < deriveTestEvidence(log).after
  <2>1. PICK after : after = IF Cardinality(runs) > 1 THEN Max(runs) ELSE None
    OBVIOUS
  <2>2. /\ deriveTestEvidence(log).before = FirstIn(runs)
        /\ deriveTestEvidence(log).after = after
        /\ after # None /\ log[after].passed = TRUE
    BY <1>2, <1>8, <2>1 DEF deriveTestEvidence, Passed
  <2>3. Cardinality(runs) > 1 /\ after = Max(runs)
    BY <2>1, <2>2
  <2>4. runs # {}
    <3>1. 0 > 1 <=> FALSE
      OBVIOUS
    <3> QED
      BY <2>3, <3>1, FS_EmptySet
  <2>5. Min(runs) < Max(runs)
    <3>1. PICK x : x = Max(runs)
      OBVIOUS
    <3>2. PICK n : n = Min(runs)
      OBVIOUS
    <3>3. n <= x /\ x \in runs /\ n \in runs
      BY <1>5, <2>4, <3>1, <3>2
    <3>4. n \in Int /\ x \in Int
      BY <1>4, <3>3
    <3>5. CASE n = x
      <4>1. ASSUME NEW i \in runs
            PROVE  i = x
        <5>1. n <= i /\ i <= x
          BY <1>5, <2>4, <3>1, <3>2
        <5>2. i \in Int
          BY <1>4
        <5> QED
          BY <3>5, <3>4, <5>1, <5>2
      <4>2. runs = {x}
        BY <3>3, <4>1
      <4>3. Cardinality(runs) = 1
        BY <4>2, FS_Singleton
      <4> QED
        BY <2>3, <4>3
    <3> QED
      BY <3>1, <3>2, <3>3, <3>5, <3>4
  <2>6. FirstIn(runs) = Min(runs)
    BY <2>4 DEF FirstIn
  <2>7. tests_passed = TRUE
    <3>1. log[after].passed \in {tests_passed, None}
      BY <1>5, <2>3, <2>4
    <3>2. None # TRUE
      BY NoneAssumption
    <3> QED
      BY <2>2, <3>1, <3>2
  <2> QED
    BY <2>2, <2>3, <2>5, <2>6, <2>7
<1> QED
  BY <1>2, <1>7, <1>8

\* Whoever is quarantined is drawn so.
LEMMA StageAgrees ==
    ASSUME ScreenInv
    PROVE  \A w \in Quarantined : buildStage.nodes[w] = "quarantined" /\ buildStage.breached
<1> SUFFICES ASSUME NEW w \in Quarantined
             PROVE  buildStage.nodes[w] = "quarantined" /\ buildStage.breached
  OBVIOUS
<1>1. w \in Registered /\ security_state[w] = "quarantined"
  BY DEF Quarantined, Registered
<1>2. StageState(w) = "quarantined"
  BY <1>1 DEF ScreenInv, Drawn, StageState
<1> QED
  BY <1>1, <1>2 DEF buildStage

LEMMA AgreesState ==
    ASSUME ScreenInv, StateTypeOK, LogTypeOK, LiveEvents = log
    PROVE  ScreenAgreesWithTheSession
<1>1. deriveProvenance(log).calls = model_calls
  <2>1. Of(log, "MODEL_REQUESTED") = Requests
    BY Places DEF ScreenInv, Requests
  <2>2. Cardinality(Requests) = model_calls
    BY DEF ScreenInv, Counted
  <2> QED
    BY <2>1, <2>2 DEF deriveProvenance
<1>2. LiveEvents = log
  OBVIOUS
<1> QED
  BY <1>1, <1>2, LightsAgree, TestsAgree, StageAgrees DEF ScreenAgreesWithTheSession

\* "Every light below is set by a recorded event, never by a claim" (demo/page.tsx:230):
\* the lights and the count of model calls, read off the events, are what the session
\* itself would report, but for a test light that a task completed as "pytest" without a
\* test run turned red, and no quarantined worker is drawn as one of the team, in whatever
\* order the snapshot and the events came.  It holds while the log is within the cap of
\* the page: past it the events of the first alarm are gone.
THEOREM ScreenAgrees == ViewSpec => [](Len(log) <= EventLogCap => ScreenAgreesWithTheSession)
<1>1. TypeOK /\ ScreenInv => (Len(log) <= EventLogCap => ScreenAgreesWithTheSession)
  BY AgreesState, AllLive, TypeOKSplit
<1> QED
  BY <1>1, ViewIsOfTheSession, TypeCorrect, ScreenSafe, PTL
----------------------------------------------------------------------------
(* The story: a fold over the whole log *)

\* There is a fold of the step succ from base over the places 1..n, with values in V.
HasFold(n, V, base, succ) ==
    \E f \in [SUBSET (1..n) -> V] :
       \A s \in SUBSET (1..n) :
          f[s] = IF s = {} THEN base ELSE succ[f[s \ {Max(s)}]][Max(s)]

\* A fold's function on the sets of places exists, whatever its step is: it is
\* defined on the sets up to 0, to 1, ... of places.
LEMMA FoldExists ==
    ASSUME NEW n \in Nat, NEW V, NEW base \in V, NEW succ \in [V -> [1..n -> V]]
    PROVE  HasFold(n, V, base, succ)
<1> DEFINE Iter(f, k) ==
             /\ f \in [SUBSET (1..k) -> V]
             /\ \A s \in SUBSET (1..k) :
                   f[s] = IF s = {} THEN base ELSE succ[f[s \ {Max(s)}]][Max(s)]
           S == {k \in Nat : \E f : Iter(f, k)}
<1>1. 0 \in S
  <2>1. SUBSET (1..0) = {{}}
    OBVIOUS
  <2>2. Iter([s \in {{}} |-> base], 0)
    BY <2>1
  <2> QED
    BY <2>2
<1>2. ASSUME NEW k \in 0..(n - 1), k \in S
      PROVE  k + 1 \in S
  <2>1. PICK f : Iter(f, k)
    BY <1>2
  <2> DEFINE g == [s \in SUBSET (1..(k + 1)) |->
                     IF k + 1 \in s THEN succ[f[s \ {k + 1}]][k + 1] ELSE f[s]]
  <2>2. ASSUME NEW s \in SUBSET (1..(k + 1))
        PROVE  g[s] \in V /\ g[s] = IF s = {} THEN base ELSE succ[g[s \ {Max(s)}]][Max(s)]
    <3>1. CASE s = {}
      <4>1. {} \in SUBSET (1..k)
        OBVIOUS
      <4>2. f[{}] = base
        BY <2>1, <4>1
      <4> QED
        BY <3>1, <4>2
    <3>2. CASE k + 1 \in s
      <4>1. Max(s) = k + 1
        <5>1. k + 1 \in Nat /\ s # {}
          BY <3>2
        <5>2. PICK m : m = Max(s)
          OBVIOUS
        <5>3. m \in s /\ \A y \in s : m >= y
          BY <5>1, <5>2, MaxIs
        <5>4. m \in 1..(k + 1)
          BY <5>3
        <5> QED
          BY <3>2, <5>2, <5>3, <5>4
      <4>2. s \ {k + 1} \in SUBSET (1..k) /\ s \ {k + 1} \in SUBSET (1..(k + 1))
        OBVIOUS
      <4>3. g[s \ {k + 1}] = f[s \ {k + 1}] /\ f[s \ {k + 1}] \in V
        BY <2>1, <4>2
      <4>4. k + 1 \in 1..n
        OBVIOUS
      <4>5. succ[f[s \ {k + 1}]][k + 1] \in V
        BY <4>3, <4>4
      <4> QED
        BY <3>2, <4>1, <4>3, <4>5
    <3>3. CASE s # {} /\ k + 1 \notin s
      <4>1. s \in SUBSET (1..k)
        BY <3>3
      <4>2. Max(s) \in s
        <5>1. k \in Nat /\ s # {}
          BY <3>3
        <5> QED
          BY <4>1, <5>1, MaxIs
      <4>3. PICK r : r = s \ {Max(s)}
        OBVIOUS
      <4>4. r \in SUBSET (1..k) /\ r \in SUBSET (1..(k + 1)) /\ k + 1 \notin r
        BY <3>3, <4>1, <4>3
      <4>5. g[s] = f[s] /\ g[s \ {Max(s)}] = f[s \ {Max(s)}]
        BY <3>3, <4>3, <4>4
      <4>6. f[s] = succ[f[s \ {Max(s)}]][Max(s)] /\ f[s] \in V
        BY <2>1, <3>3, <4>1
      <4> QED
        BY <3>3, <4>5, <4>6
    <3> QED
      BY <3>1, <3>2, <3>3
  <2>3. g \in [SUBSET (1..(k + 1)) -> V]
    BY <2>2
  <2> HIDE DEF g
  <2>4. Iter(g, k + 1)
    BY <2>2, <2>3
  <2> HIDE DEF Iter
  <2>5. k + 1 \in Nat
    OBVIOUS
  <2> QED
    BY <2>4, <2>5
<1> HIDE DEF S
<1>3. n \in S
  <2>1. 0..n \subseteq S
    BY <1>1, <1>2, UpTo
  <2> QED
    BY <2>1
<1>4. PICK f : Iter(f, n)
  BY <1>3 DEF S
<1> QED
  BY <1>4 DEF HasFold

Label == EventType \cup {"team", "session"} \cup {Role[w] : w \in Worker}
BeatType == [kind : {"milestone", "activity"}, seq : Nat, label : Label, count : Nat]

\* The three things telling an event may do.
Skips(beats, e, told) == Silent(e) /\ told = beats

Opens(beats, e, told) ==
    /\ ~Silent(e)
    /\ \E kind \in {"milestone", "activity"} :
         /\ told = Append(beats, Beat(kind, e))
         /\ kind = "activity" /\ beats # << >> => ~Activity(beats, Len(beats), e)

Extends(beats, e, told) ==
    /\ ~Silent(e) /\ beats # << >> /\ Activity(beats, Len(beats), e)
    /\ told = [beats EXCEPT ![Len(beats)].count = @ + 1]

LEMMA TellIs ==
    ASSUME NEW events, NEW beats \in Seq(BeatType), NEW e
    PROVE  LET told == Tell(events, beats, e) IN
           Skips(beats, e, told) \/ Opens(beats, e, told) \/ Extends(beats, e, told)
<1>1. PICK told : told = Tell(events, beats, e)
  OBVIOUS
<1>2. CASE Silent(e)
  BY <1>1, <1>2 DEF Tell, Skips
<1>3. CASE ~Silent(e) /\ Milestone(events, e)
  <2>1. told = Append(beats, Beat("milestone", e))
    BY <1>1, <1>3 DEF Tell
  <2> QED
    BY <1>1, <1>3, <2>1 DEF Opens
<1>4. CASE ~Silent(e) /\ ~Milestone(events, e)
  <2>1. told = Fold(beats, e)
    BY <1>1, <1>4 DEF Tell
  <2>2. CASE OpenActivity(beats, e) = {}
    <3>1. told = Append(beats, Beat("activity", e))
      BY <2>1, <2>2 DEF Fold
    <3>2. beats # << >> => ~Activity(beats, Len(beats), e)
      BY <2>2 DEF OpenActivity
    <3> QED
      BY <1>1, <1>4, <3>1, <3>2 DEF Opens
  <2>3. CASE OpenActivity(beats, e) # {}
    <3>1. PICK n : n = Len(beats)
      OBVIOUS
    <3>2. n \in Nat /\ DOMAIN beats = 1..n
      BY <3>1
    <3>3. OpenActivity(beats, e) = {n} /\ n \in 1..n /\ Activity(beats, n, e)
      BY <2>3, <3>1, <3>2 DEF OpenActivity
    <3>4. Max({n}) = n
      <4>1. {n} \in SUBSET (1..n) /\ {n} # {}
        BY <3>3
      <4>2. Max({n}) \in {n}
        BY <3>2, <4>1, MaxIs
      <4> QED
        BY <4>2
    <3>5. told = [beats EXCEPT ![n].count = @ + 1]
      BY <2>1, <2>3, <3>3, <3>4 DEF Fold
    <3>6. beats # << >>
      BY <3>1, <3>2, <3>3
    <3> QED
      BY <1>1, <1>4, <3>1, <3>3, <3>5, <3>6 DEF Extends
  <2> QED
    BY <2>2, <2>3
<1> QED
  BY <1>2, <1>3, <1>4

LEMMA ToldType ==
    ASSUME NEW beats \in Seq(BeatType), NEW e \in Event, NEW told,
           Skips(beats, e, told) \/ Opens(beats, e, told) \/ Extends(beats, e, told)
    PROVE  told \in Seq(BeatType)
<1>1. CASE Skips(beats, e, told)
  BY <1>1 DEF Skips
<1>2. CASE Opens(beats, e, told)
  <2>1. PICK kind \in {"milestone", "activity"} : told = Append(beats, Beat(kind, e))
    BY <1>2 DEF Opens
  <2>2. LabelOf(e) \in Label /\ e.type \in Label /\ e.seq \in Nat
    BY DEF Event, LabelOf, Label
  <2>3. Beat(kind, e) \in BeatType
    BY <2>2 DEF Beat, BeatType
  <2> QED
    BY <2>1, <2>3
<1>3. CASE Extends(beats, e, told)
  <2>1. PICK n : n = Len(beats)
    OBVIOUS
  <2>2. n \in 1..n /\ DOMAIN beats = 1..n /\ n \in Nat
    BY <1>3, <2>1 DEF Extends
  <2>3. beats[n] \in BeatType
    BY <2>2
  <2>4. [beats[n] EXCEPT !.count = @ + 1] \in BeatType
    <3>1. PICK b : b = beats[n]
      OBVIOUS
    <3>2. PICK c : c = b.count + 1
      OBVIOUS
    <3>3. c \in Nat
      BY <2>3, <3>1, <3>2 DEF BeatType
    <3>4. [b EXCEPT !.count = c] \in BeatType
      BY <2>3, <3>1, <3>3 DEF BeatType
    <3> QED
      BY <3>1, <3>2, <3>4
  <2>5. told = [beats EXCEPT ![n] = [beats[n] EXCEPT !.count = @ + 1]]
    BY <1>3, <2>1 DEF Extends
  <2> QED
    BY <2>2, <2>4, <2>5
<1> QED
  BY <1>1, <1>2, <1>3

\* What the first k events make of the story.
LoudIn(a, b) == {j \in a..b : ~Silent(log[j])}
Until(beats, k, i) == IF i = Len(beats) THEN k ELSE beats[i + 1].seq - 1
Tells(beats, k, i) == LoudIn(beats[i].seq, Until(beats, k, i))

Begins(beats, k) ==
    IF beats = << >> THEN LoudIn(1, k) = {}
    ELSE ~Silent(log[beats[1].seq]) /\ \A j \in LoudIn(1, k) : beats[1].seq <= j

Beats(beats, k) ==
    \A i \in 1..Len(beats) :
       /\ beats[i].seq \in 1..k
       /\ beats[i].count = Cardinality(Tells(beats, k, i))
       /\ beats[i].kind = "activity" => \A j \in Tells(beats, k, i) : LabelOf(log[j]) = beats[i].label
       /\ (i > 1 /\ beats[i].kind = "activity" /\ beats[i - 1].kind = "activity")
            => beats[i].label # beats[i - 1].label

Story(beats, k) == beats \in Seq(BeatType) /\ Begins(beats, k) /\ Beats(beats, k)

\* Another event, loud or not.
LEMMA LoudGrows ==
    ASSUME NEW k \in Nat, NEW a \in 1..(k + 1)
    PROVE  /\ Silent(log[k + 1]) => LoudIn(a, k + 1) = LoudIn(a, k)
           /\ ~Silent(log[k + 1]) => LoudIn(a, k + 1) = LoudIn(a, k) \cup {k + 1}
           /\ k + 1 \notin LoudIn(a, k) /\ IsFiniteSet(LoudIn(a, k))
           /\ ~Silent(log[k + 1]) => Cardinality(LoudIn(a, k + 1)) = Cardinality(LoudIn(a, k)) + 1
           /\ LoudIn(k + 1, k) = {}
<1>1. \A j \in a..(k + 1) : j \in a..k \/ j = k + 1
  OBVIOUS
<1>2. a..k \subseteq a..(k + 1) /\ k + 1 \in a..(k + 1) /\ k + 1 \notin a..k
  OBVIOUS
<1>3. Silent(log[k + 1]) => LoudIn(a, k + 1) = LoudIn(a, k)
  BY <1>1, <1>2 DEF LoudIn
<1>4. ~Silent(log[k + 1]) => LoudIn(a, k + 1) = LoudIn(a, k) \cup {k + 1}
  BY <1>1, <1>2 DEF LoudIn
<1>5. k + 1 \notin LoudIn(a, k)
  BY <1>2 DEF LoudIn
<1>6. IsFiniteSet(LoudIn(a, k))
  <2>1. LoudIn(a, k) \subseteq a..k /\ IsFiniteSet(a..k)
    BY FS_Interval DEF LoudIn
  <2> QED
    BY <2>1, FS_Subset
<1>7. ~Silent(log[k + 1]) => Cardinality(LoudIn(a, k + 1)) = Cardinality(LoudIn(a, k)) + 1
  BY <1>4, <1>5, <1>6, FS_AddElement
<1>8. LoudIn(k + 1, k) = {}
  <2>1. (k + 1)..k = {}
    OBVIOUS
  <2> QED
    BY <2>1 DEF LoudIn
<1> QED
  BY <1>3, <1>4, <1>5, <1>6, <1>7, <1>8

LEMMA SkipKeeps ==
    ASSUME NEW k \in Nat, NEW beats, Story(beats, k), NEW told,
           log[k + 1].seq = k + 1, Skips(beats, log[k + 1], told)
    PROVE  Begins(told, k + 1) /\ Beats(told, k + 1)
<1>1. told = beats /\ Silent(log[k + 1]) /\ beats \in Seq(BeatType)
  BY DEF Skips, Story
<1>2. LoudIn(1, k + 1) = LoudIn(1, k)
  <2>1. 1 \in 1..(k + 1)
    OBVIOUS
  <2> QED
    BY <1>1, <2>1, LoudGrows
<1>3. Begins(told, k + 1)
  BY <1>1, <1>2 DEF Story, Begins
<1>4. ASSUME NEW i \in 1..Len(beats)
      PROVE  beats[i].seq \in 1..(k + 1) /\ Tells(beats, k + 1, i) = Tells(beats, k, i)
  <2>1. beats[i].seq \in 1..k /\ beats[i].seq \in 1..(k + 1)
    BY DEF Story, Beats
  <2>2. LoudIn(beats[i].seq, k + 1) = LoudIn(beats[i].seq, k)
    BY <1>1, <2>1, LoudGrows
  <2> QED
    BY <2>1, <2>2 DEF Tells, Until
<1>5. Beats(beats, k + 1)
  BY <1>4 DEF Story, Beats
<1> QED
  BY <1>1, <1>3, <1>5

LEMMA OpenKeeps ==
    ASSUME NEW k \in Nat, NEW beats, Story(beats, k), NEW told,
           log[k + 1].seq = k + 1, Opens(beats, log[k + 1], told)
    PROVE  Begins(told, k + 1) /\ Beats(told, k + 1)
<1>1. PICK e : e = log[k + 1]
  OBVIOUS
<1>2. PICK n : n = Len(beats)
  OBVIOUS
<1>3. PICK kind \in {"milestone", "activity"} :
        /\ told = Append(beats, Beat(kind, e))
        /\ kind = "activity" /\ beats # << >> => ~Activity(beats, n, e)
  BY <1>1, <1>2 DEF Opens
<1>4. /\ ~Silent(e) /\ beats \in Seq(BeatType) /\ n \in Nat /\ (beats = << >> <=> n = 0)
      /\ e.seq = k + 1
  BY <1>1, <1>2 DEF Opens, Story
<1>5. PICK b : b = Beat(kind, e)
  OBVIOUS
<1>6. b.kind = kind /\ b.seq = k + 1 /\ b.count = 1 /\ (kind = "activity" => b.label = LabelOf(e))
  BY <1>4, <1>5 DEF Beat
<1>7. Len(told) = n + 1 /\ told[n + 1] = b /\ \A i \in 1..n : told[i] = beats[i]
  BY <1>2, <1>3, <1>4, <1>5
<1>8. told # << >>
  BY <1>4, <1>7
<1>9. LoudIn(1, k + 1) = LoudIn(1, k) \cup {k + 1}
  <2>1. 1 \in 1..(k + 1)
    OBVIOUS
  <2> QED
    BY <1>1, <1>4, <2>1, LoudGrows
<1>10. Begins(told, k + 1)
  <2>1. CASE n = 0
    <3>1. LoudIn(1, k) = {}
      BY <1>4, <2>1 DEF Story, Begins
    <3>2. told[1] = b
      BY <1>7, <2>1
    <3> QED
      BY <1>1, <1>4, <1>6, <1>8, <1>9, <3>1, <3>2 DEF Begins
  <2>2. CASE n # 0
    <3>1. told[1] = beats[1] /\ 1 \in 1..n
      BY <1>4, <1>7, <2>2
    <3>2. ~Silent(log[beats[1].seq]) /\ \A j \in LoudIn(1, k) : beats[1].seq <= j
      BY <1>4, <2>2 DEF Story, Begins
    <3>3. beats[1].seq \in 1..k
      BY <1>2, <3>1 DEF Story, Beats
    <3>4. beats[1].seq <= k + 1
      BY <3>3
    <3> QED
      BY <1>8, <1>9, <3>1, <3>2, <3>4 DEF Begins
  <2> QED
    BY <2>1, <2>2
<1>11. ASSUME NEW i \in 1..n
       PROVE  /\ told[i] = beats[i] /\ Tells(told, k + 1, i) = Tells(beats, k, i)
              /\ i - 1 \in 1..n => told[i - 1] = beats[i - 1]
  <2>1. told[i] = beats[i] /\ (i - 1 \in 1..n => told[i - 1] = beats[i - 1])
    BY <1>7
  <2>2. Until(told, k + 1, i) = Until(beats, k, i)
    <3>1. CASE i = n
      <4>1. Until(told, k + 1, i) = (k + 1) - 1 /\ Until(beats, k, i) = k
        BY <1>2, <1>4, <1>6, <1>7, <3>1 DEF Until
      <4> QED
        BY <4>1
    <3>2. CASE i # n
      <4>1. i + 1 \in 1..n /\ i # n + 1
        BY <1>4, <3>2
      <4>2. told[i + 1] = beats[i + 1]
        BY <1>7, <4>1
      <4> QED
        BY <1>2, <1>7, <3>2, <4>1, <4>2 DEF Until
    <3> QED
      BY <3>1, <3>2
  <2> QED
    BY <2>1, <2>2 DEF Tells
<1>12. Tells(told, k + 1, n + 1) = {k + 1}
  <2>1. k + 1 \in 1..(k + 1)
    OBVIOUS
  <2>2. /\ LoudIn(k + 1, k) = {}
        /\ LoudIn(k + 1, k + 1) = LoudIn(k + 1, k) \cup {k + 1}
    <3>1. ~Silent(log[k + 1])
      BY <1>1, <1>4
    <3> QED
      BY <2>1, <3>1, LoudGrows
  <2> QED
    BY <1>6, <1>7, <2>2 DEF Tells, Until
<1>13. ASSUME NEW i \in 1..Len(told)
       PROVE  /\ told[i].seq \in 1..(k + 1)
              /\ told[i].count = Cardinality(Tells(told, k + 1, i))
              /\ told[i].kind = "activity" =>
                   \A j \in Tells(told, k + 1, i) : LabelOf(log[j]) = told[i].label
              /\ (i > 1 /\ told[i].kind = "activity" /\ told[i - 1].kind = "activity")
                   => told[i].label # told[i - 1].label
  <2>1. CASE i \in 1..n
    <3>1. i > 1 => i - 1 \in 1..n
      BY <1>4, <2>1
    <3>2. told[i].seq \in 1..(k + 1)
      <4>1. beats[i].seq \in 1..k
        BY <1>2, <2>1 DEF Story, Beats
      <4>2. told[i] = beats[i]
        BY <1>11, <2>1
      <4>3. \A a \in 1..k : a \in 1..(k + 1)
        OBVIOUS
      <4> QED
        BY <4>1, <4>2, <4>3
    <3>3. /\ beats[i].count = Cardinality(Tells(beats, k, i))
          /\ beats[i].kind = "activity" => \A j \in Tells(beats, k, i) : LabelOf(log[j]) = beats[i].label
          /\ (i > 1 /\ beats[i].kind = "activity" /\ beats[i - 1].kind = "activity")
               => beats[i].label # beats[i - 1].label
      BY <1>2, <2>1 DEF Story, Beats
    <3> QED
      BY <1>11, <2>1, <3>1, <3>2, <3>3
  <2>2. CASE i = n + 1
    <3>1. told[i] = b /\ Tells(told, k + 1, i) = {k + 1}
      BY <1>7, <1>12, <2>2
    <3>2. Cardinality({k + 1}) = 1
      BY FS_Singleton
    <3>3. (i > 1 /\ b.kind = "activity" /\ told[i - 1].kind = "activity") => b.label # told[i - 1].label
      <4> SUFFICES ASSUME i > 1, kind = "activity", told[i - 1].kind = "activity"
                   PROVE  b.label # told[i - 1].label
        BY <1>6
      <4>1. i - 1 = n /\ n \in 1..n /\ beats # << >>
        BY <1>4, <2>2
      <4>2. told[i - 1] = beats[n]
        BY <1>7, <4>1
      <4>3. ~Activity(beats, n, e)
        BY <1>3, <4>1
      <4> QED
        BY <1>6, <4>2, <4>3 DEF Activity
    <3>4. k + 1 \in 1..(k + 1)
      OBVIOUS
    <3> QED
      BY <1>1, <1>6, <3>1, <3>2, <3>3, <3>4
  <2> QED
    BY <1>4, <1>7, <2>1, <2>2
<1>14. Beats(told, k + 1)
  BY <1>13 DEF Beats
<1> QED
  BY <1>10, <1>14

LEMMA ExtendKeeps ==
    ASSUME NEW k \in Nat, NEW beats, Story(beats, k), NEW told,
           log[k + 1].seq = k + 1, Extends(beats, log[k + 1], told)
    PROVE  Begins(told, k + 1) /\ Beats(told, k + 1)
<1>1. PICK e : e = log[k + 1]
  OBVIOUS
<1>2. PICK n : n = Len(beats)
  OBVIOUS
<1>3. ~Silent(e) /\ Activity(beats, n, e) /\ told = [beats EXCEPT ![n].count = @ + 1]
  BY <1>1, <1>2 DEF Extends
<1>4. /\ beats \in Seq(BeatType) /\ n \in Nat /\ n \in 1..n /\ DOMAIN beats = 1..n
      /\ e.seq = k + 1 /\ beats # << >>
  BY <1>1, <1>2 DEF Extends, Story
<1>5. Len(told) = n /\ told # << >>
  BY <1>2, <1>3, <1>4
<1>6. ASSUME NEW i \in 1..n
      PROVE  /\ told[i].seq = beats[i].seq /\ told[i].kind = beats[i].kind
             /\ told[i].label = beats[i].label
             /\ told[i].count = IF i = n THEN beats[i].count + 1 ELSE beats[i].count
  <2>1. beats[i] \in BeatType
    BY <1>4
  <2> QED
    BY <1>3, <1>4, <2>1 DEF BeatType
<1>7. ASSUME NEW i \in 1..n
      PROVE  /\ beats[i].seq \in 1..k /\ beats[i].count = Cardinality(Tells(beats, k, i))
             /\ beats[i].kind = "activity" =>
                  \A j \in Tells(beats, k, i) : LabelOf(log[j]) = beats[i].label
             /\ (i > 1 /\ beats[i].kind = "activity" /\ beats[i - 1].kind = "activity")
                  => beats[i].label # beats[i - 1].label
  BY <1>2 DEF Story, Beats
<1>8. LoudIn(1, k + 1) = LoudIn(1, k) \cup {k + 1}
  <2>1. 1 \in 1..(k + 1)
    OBVIOUS
  <2> QED
    BY <1>1, <1>3, <2>1, LoudGrows
<1>9. Begins(told, k + 1)
  <2>1. ~Silent(log[beats[1].seq]) /\ \A j \in LoudIn(1, k) : beats[1].seq <= j
    BY <1>4 DEF Story, Begins
  <2>2. 1 \in 1..n
    BY <1>4
  <2>3. beats[1].seq <= k + 1
    BY <1>7, <2>2
  <2>4. told[1].seq = beats[1].seq
    BY <1>6, <2>2
  <2> QED
    BY <1>5, <1>8, <2>1, <2>3, <2>4 DEF Begins
<1>10. ASSUME NEW i \in 1..n, i # n
       PROVE  Tells(told, k + 1, i) = Tells(beats, k, i)
  <2>1. i + 1 \in 1..n
    BY <1>4, <1>10
  <2>2. Until(told, k + 1, i) = Until(beats, k, i)
    BY <1>2, <1>5, <1>6, <1>10, <2>1 DEF Until
  <2> QED
    BY <1>6, <2>2 DEF Tells
<1>11. /\ Tells(told, k + 1, n) = Tells(beats, k, n) \cup {k + 1}
       /\ Cardinality(Tells(told, k + 1, n)) = Cardinality(Tells(beats, k, n)) + 1
  <2>1. PICK a : a = beats[n].seq
    OBVIOUS
  <2>2. a \in 1..(k + 1)
    BY <1>4, <1>7, <2>1
  <2>3. /\ LoudIn(a, k + 1) = LoudIn(a, k) \cup {k + 1}
        /\ Cardinality(LoudIn(a, k + 1)) = Cardinality(LoudIn(a, k)) + 1
    BY <1>1, <1>3, <2>2, LoudGrows
  <2>4. Tells(told, k + 1, n) = LoudIn(a, k + 1) /\ Tells(beats, k, n) = LoudIn(a, k)
    BY <1>2, <1>4, <1>5, <1>6, <2>1 DEF Tells, Until
  <2> QED
    BY <2>3, <2>4
<1>12. ASSUME NEW i \in 1..n
       PROVE  /\ told[i].seq \in 1..(k + 1)
              /\ told[i].count = Cardinality(Tells(told, k + 1, i))
              /\ told[i].kind = "activity" =>
                   \A j \in Tells(told, k + 1, i) : LabelOf(log[j]) = told[i].label
              /\ (i > 1 /\ told[i].kind = "activity" /\ told[i - 1].kind = "activity")
                   => told[i].label # told[i - 1].label
  <2>1. told[i].seq \in 1..(k + 1)
    <3>1. beats[i].seq \in 1..k
      BY <1>7
    <3> QED
      BY <1>6, <3>1
  <2>2. told[i].count = Cardinality(Tells(told, k + 1, i))
    BY <1>6, <1>7, <1>10, <1>11
  <2>3. told[i].kind = "activity" =>
          \A j \in Tells(told, k + 1, i) : LabelOf(log[j]) = told[i].label
    <3>1. CASE i # n
      BY <1>6, <1>7, <1>10, <3>1
    <3>2. CASE i = n
      <4>1. beats[n].label = LabelOf(e)
        BY <1>3 DEF Activity
      <4> QED
        BY <1>1, <1>6, <1>7, <1>11, <3>2, <4>1
    <3> QED
      BY <3>1, <3>2
  <2>4. i > 1 => i - 1 \in 1..n
    BY <1>4
  <2> QED
    BY <1>6, <1>7, <2>1, <2>2, <2>3, <2>4
<1>13. Beats(told, k + 1)
  BY <1>5, <1>12 DEF Beats
<1> QED
  BY <1>9, <1>13

\* Telling the next event keeps the story true.
LEMMA StoryStep ==
    ASSUME NEW k \in Nat, NEW beats, Story(beats, k), NEW events,
           log[k + 1] \in Event, log[k + 1].seq = k + 1
    PROVE  Story(Tell(events, beats, log[k + 1]), k + 1)
<1>1. PICK e : e = log[k + 1]
  OBVIOUS
<1>2. PICK told : told = Tell(events, beats, e)
  OBVIOUS
<1>3. beats \in Seq(BeatType)
  BY DEF Story
<1>4. Skips(beats, e, told) \/ Opens(beats, e, told) \/ Extends(beats, e, told)
  BY <1>2, <1>3, TellIs
<1>5. told \in Seq(BeatType)
  BY <1>1, <1>3, <1>4, ToldType
<1>6. Begins(told, k + 1) /\ Beats(told, k + 1)
  BY <1>1, <1>4, SkipKeeps, OpenKeeps, ExtendKeeps
<1> QED
  BY <1>1, <1>2, <1>5, <1>6 DEF Story

\* The beats after the whole log: the fold's value on the first k places tells them.
LEMMA WholeStory ==
    ASSUME Logged, last_seq \in Nat
    PROVE  Story(deriveNarrative(log), last_seq)
<1>1. PICK n : n = last_seq
  OBVIOUS
<1>2. n \in Nat /\ DOMAIN log = 1..n /\ \A i \in 1..n : log[i] \in Event /\ log[i].seq = i
  BY <1>1 DEF Logged
<1>3. PICK V : V = Seq(BeatType)
  OBVIOUS
<1>4. ASSUME NEW beats \in V, NEW i \in 1..n
      PROVE  Tell(log, beats, log[i]) \in V
  <2>1. log[i] \in Event
    BY <1>2
  <2>2. PICK e : e = log[i]
    OBVIOUS
  <2>3. PICK told : told = Tell(log, beats, e)
    OBVIOUS
  <2>4. Skips(beats, e, told) \/ Opens(beats, e, told) \/ Extends(beats, e, told)
    BY <1>3, <2>3, TellIs
  <2> QED
    BY <1>3, <2>1, <2>2, <2>3, <2>4, ToldType
<1> DEFINE Iter(f) ==
             f = [s \in SUBSET (1..n) |->
                    IF s = {} THEN << >> ELSE Tell(log, f[s \ {Max(s)}], log[Max(s)])]
<1>5. \E f : Iter(f)
  <2> DEFINE succ == [beats \in V |-> [i \in 1..n |-> Tell(log, beats, log[i])]]
  <2>1. succ \in [V -> [1..n -> V]]
    BY <1>4
  <2>2. << >> \in V
    BY <1>3
  <2>3. PICK g : g = succ
    OBVIOUS
  <2>4. \A beats \in V : \A i \in 1..n : g[beats][i] = Tell(log, beats, log[i])
    BY <2>3
  <2> HIDE DEF succ
  <2>5. PICK f \in [SUBSET (1..n) -> V] :
          \A s \in SUBSET (1..n) :
             f[s] = IF s = {} THEN << >> ELSE g[f[s \ {Max(s)}]][Max(s)]
    <3>1. g \in [V -> [1..n -> V]]
      BY <2>1, <2>3
    <3>2. PICK base \in V : base = << >>
      BY <2>2
    <3>3. HasFold(n, V, base, g)
      BY <1>2, <3>1, <3>2, FoldExists
    <3> QED
      BY <3>2, <3>3 DEF HasFold
  <2>6. ASSUME NEW s \in SUBSET (1..n)
        PROVE  f[s] = IF s = {} THEN << >> ELSE Tell(log, f[s \ {Max(s)}], log[Max(s)])
    <3>1. CASE s = {}
      BY <2>5, <3>1
    <3>2. CASE s # {}
      <4>1. PICK m : m = Max(s)
        OBVIOUS
      <4>2. m \in 1..n
        BY <1>2, <3>2, <4>1, MaxIs
      <4>3. s \ {m} \in SUBSET (1..n)
        OBVIOUS
      <4>4. f[s \ {m}] \in V
        BY <2>5, <4>3
      <4>5. f[s] = g[f[s \ {m}]][m]
        BY <2>5, <3>2, <4>1
      <4> QED
        BY <2>4, <3>2, <4>1, <4>2, <4>4, <4>5
    <3> QED
      BY <3>1, <3>2
  <2>7. Iter(f)
    <3> DEFINE h == [s \in SUBSET (1..n) |->
                       IF s = {} THEN << >> ELSE Tell(log, f[s \ {Max(s)}], log[Max(s)])]
    <3>1. f = [s \in SUBSET (1..n) |-> f[s]]
      BY <2>5
    <3>2. h = [s \in SUBSET (1..n) |-> f[s]]
      BY <2>6, Zenon
    <3> QED
      BY <3>1, <3>2, Zenon
  <2> HIDE DEF Iter
  <2> QED
    BY <2>7
<1> DEFINE iter == CHOOSE f : Iter(f)
<1>6. Iter(iter)
  BY <1>5, Zenon
<1>7. deriveNarrative(log) = iter[1..n]
  BY <1>2 DEF deriveNarrative, FoldLeft, MapThenFoldSet
<1> HIDE DEF iter
<1>8. 0..n \subseteq {i \in 0..n : Story(iter[1..i], i)}
  <2> DEFINE S == {i \in 0..n : Story(iter[1..i], i)}
  <2>1. 0 \in S
    <3>1. 1..0 = {} /\ {} \in SUBSET (1..n)
      OBVIOUS
    <3>2. iter[{}] = << >>
      BY <1>6, <3>1
    <3>3. LoudIn(1, 0) = {}
      BY <3>1 DEF LoudIn
    <3>4. Story(<< >>, 0)
      BY <3>3 DEF Story, Begins, Beats
    <3> QED
      BY <1>2, <3>1, <3>2, <3>4
  <2>2. ASSUME NEW i \in 0..(n - 1), i \in S
        PROVE  i + 1 \in S
    <3>1. PICK s : s = 1..(i + 1)
      OBVIOUS
    <3>2. s \in SUBSET (1..n) /\ s # {} /\ i + 1 \in s /\ i + 1 \in 1..n /\ i + 1 \in Nat
      <4>1. n \in Nat /\ i \in Nat /\ i + 1 <= n
        BY <1>2
      <4>2. 1..(i + 1) \subseteq 1..n /\ i + 1 \in 1..(i + 1) /\ i + 1 \in 1..n
        BY <4>1
      <4> QED
        BY <3>1, <4>1, <4>2
    <3>3. Max(s) = i + 1
      <4>1. PICK m : m = Max(s)
        OBVIOUS
      <4>2. m \in s /\ \A y \in s : m >= y
        BY <3>1, <3>2, <4>1, MaxIs
      <4> QED
        BY <3>1, <3>2, <4>1, <4>2
    <3>4. s \ {Max(s)} = 1..i
      BY <3>1, <3>3
    <3>5. iter[s] = Tell(log, iter[1..i], log[i + 1])
      BY <1>6, <3>2, <3>3, <3>4
    <3>6. Story(iter[1..i], i) /\ i \in Nat
      BY <2>2
    <3>7. log[i + 1] \in Event /\ log[i + 1].seq = i + 1
      BY <1>2, <3>2
    <3>8. Story(iter[s], i + 1)
      BY <3>5, <3>6, <3>7, StoryStep
    <3>9. i + 1 \in 0..n
      BY <3>2
    <3> QED
      BY <3>1, <3>8, <3>9
  <2> HIDE DEF S
  <2> QED
    BY <1>2, <2>1, <2>2, UpTo DEF S
<1>9. Story(iter[1..n], n)
  <2>1. n \in 0..n
    BY <1>2
  <2> QED
    BY <1>8, <2>1
<1> QED
  BY <1>1, <1>7, <1>9

LEMMA CompleteState ==
    ASSUME Logged, LogTypeOK, LiveEvents = log
    PROVE  StoryIsComplete
<1>1. PICK n : n = last_seq
  OBVIOUS
<1>2. n \in Nat /\ Len(log) = n /\ DOMAIN log = 1..n
  BY <1>1 DEF Logged, LogTypeOK
<1>3. PICK beats : beats = deriveNarrative(log)
  OBVIOUS
<1>4. Story(beats, n)
  BY <1>1, <1>2, <1>3, WholeStory
<1>5. beats \in Seq(BeatType) /\ DOMAIN beats = 1..Len(beats) /\ Len(beats) \in Nat
  BY <1>4 DEF Story
<1>6. beats # << >> => beats[1].seq = Min({j \in DOMAIN log : ~Silent(log[j])})
  <2> SUFFICES ASSUME beats # << >>
               PROVE  beats[1].seq = Min({j \in DOMAIN log : ~Silent(log[j])})
    OBVIOUS
  <2>1. PICK s : s = {j \in DOMAIN log : ~Silent(log[j])}
    OBVIOUS
  <2>2. s = LoudIn(1, n)
    BY <1>2, <2>1 DEF LoudIn
  <2>3. PICK a : a = beats[1].seq
    OBVIOUS
  <2>4. a \in 1..n
    <3>1. 1 \in 1..Len(beats)
      BY <1>5
    <3> QED
      BY <1>4, <2>3, <3>1 DEF Story, Beats
  <2>5. ~Silent(log[a]) /\ \A j \in LoudIn(1, n) : a <= j
    BY <1>4, <2>3 DEF Story, Begins
  <2>6. a \in s /\ s \in SUBSET (1..n)
    BY <1>2, <2>1, <2>4, <2>5
  <2>7. PICK m : m = Min(s)
    OBVIOUS
  <2>8. m \in s /\ \A y \in s : m <= y
    BY <1>2, <2>6, <2>7, MinIs
  <2>9. m <= a /\ a <= m
    BY <2>2, <2>5, <2>6, <2>8
  <2>10. m = a
    BY <2>6, <2>8, <2>9
  <2> QED
    BY <2>1, <2>3, <2>7, <2>10
<1>7. ASSUME NEW i \in DOMAIN beats
      PROVE  LET upto == IF i = Len(beats) THEN Len(log) ELSE beats[i + 1].seq - 1
                 told == {j \in beats[i].seq..upto : ~Silent(log[j])}
             IN  /\ beats[i].count = Cardinality(told)
                 /\ beats[i].kind = "activity" =>
                      \A j \in told : LabelOf(log[j]) = beats[i].label
                 /\ (i > 1 /\ beats[i].kind = "activity" /\ beats[i - 1].kind = "activity")
                      => beats[i].label # beats[i - 1].label
  <2>1. PICK told : told = Tells(beats, n, i)
    OBVIOUS
  <2>2. /\ beats[i].count = Cardinality(told)
        /\ beats[i].kind = "activity" => \A j \in told : LabelOf(log[j]) = beats[i].label
        /\ (i > 1 /\ beats[i].kind = "activity" /\ beats[i - 1].kind = "activity")
             => beats[i].label # beats[i - 1].label
    BY <1>4, <1>5, <2>1 DEF Story, Beats
  <2> QED
    BY <1>2, <2>1, <2>2 DEF Tells, Until, LoudIn
<1> QED
  BY <1>3, <1>6, <1>7 DEF StoryIsComplete

\* "Nothing is dropped ... and a group states exactly what it folded" (narrative.ts:11):
\* whatever the roles, the events from one beat of the story to the next are as many as
\* the beat counts and all of the role it names, and no two neighbours read the same.  It
\* holds while the log is within the cap of the page; past it the first events are gone.
THEOREM StoryTold == ViewSpec => [](Len(log) <= EventLogCap => StoryIsComplete)
<1>1. TypeOK /\ ScreenInv => (Len(log) <= EventLogCap => StoryIsComplete)
  <2>1. ScreenInv => Logged
    BY DEF ScreenInv
  <2> QED
    BY <2>1, CompleteState, AllLive, TypeOKSplit
<1> QED
  BY <1>1, ViewIsOfTheSession, TypeCorrect, ScreenSafe, PTL
=============================================================================
