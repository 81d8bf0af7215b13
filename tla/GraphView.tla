------------------------------- MODULE GraphView -------------------------------
(***************************************************************************)
(* GraphState and reduce(): what the browser knows of one experiment, and   *)
(* how a frame changes it.  The live stream, the replay page and the        *)
(* comparison all fold frames with this one function, so it is a module of  *)
(* operators that they share.  An event is a record, named by its seq once  *)
(* it is in a log; a node is what its NodeView says of its security.        *)
(***************************************************************************)
EXTENDS Integers, Sequences, SequencesExt, FiniteSets, FiniteSetsExt

CONSTANTS
    Agent,
    PatientZero,
    History,         \* the events of the run, in the order of their seq
    EventLogCap,     \* EVENT_LOG_CAP
    IncidentLogCap,  \* INCIDENT_LOG_CAP
    None

ASSUME CapAssumption == EventLogCap \in Nat \ {0} /\ IncidentLogCap \in Nat \ {0}

NodeView == [security_state : {"healthy", "compromised", "quarantined"},
             compromised_by : Agent \cup {None}, tick_compromised : Nat \cup {None}]

Healthy == [security_state |-> "healthy", compromised_by |-> None, tick_compromised |-> None]

initialGraphState ==
    [experimentId |-> None, lastSeq |-> -1, tick |-> 0, nodes |-> << >>,
     recentEvents |-> << >>, newCompromises |-> 0, modelCalls |-> 0,
     incidentsByAgent |-> [a \in Agent |-> << >>]]

\* An event, as far as anything here reads it.
EventRecord == [seq : Nat, tick : Nat, type : STRING, already_compromised : BOOLEAN,
                agent : Agent \cup {None}, source : Agent \cup {None}, target : Agent \cup {None}]

\* filter(): the elements of s that are in S.  A function, as a proof cannot look into
\* SelectSeq.
Only(s, S) ==
    LET kept[i \in 0..Len(s)] ==
          IF i = 0 THEN << >> ELSE IF s[i] \in S THEN Append(kept[i - 1], s[i]) ELSE kept[i - 1]
    IN  kept[Len(s)]

\* slice(-cap)
LastOnes(s, cap) == IF Len(s) <= cap THEN s ELSE SubSeq(s, Len(s) - cap + 1, Len(s))

INCIDENT_EVENT_TYPES ==
    {"COMPROMISE_ATTEMPTED", "COMPROMISE_SUCCEEDED", "COMPROMISE_FAILED", "ANOMALY_DETECTED",
     "AGENT_QUARANTINED"}

\* An incident is recorded once for each agent it names, in whatever role.
recordIncident(incidents, e) ==
    IF e.type \notin INCIDENT_EVENT_TYPES THEN incidents
    ELSE [a \in Agent |-> IF a \in {e.agent, e.source, e.target}
                          THEN LastOnes(Append(incidents[a], e.seq), IncidentLogCap)
                          ELSE incidents[a]]

Having(nodes, states) == {a \in DOMAIN nodes : nodes[a].security_state \in states}
Exposed(nodes)        == Having(nodes, {"compromised", "quarantined"})

(* The snapshot branch: the history of the same experiment is kept, and a   *)
(* first snapshot counts what was compromised before it.                    *)
reduceSnapshot(view, f) ==
    LET taken == [view EXCEPT !.experimentId = f.experiment_id, !.lastSeq = f.last_seq,
                              !.tick = f.sim_tick, !.nodes = f.nodes]
    IN  IF f.experiment_id = view.experimentId THEN taken
        ELSE [taken EXCEPT !.recentEvents = << >>, !.modelCalls = 0,
                           !.newCompromises = Cardinality(Exposed(f.nodes)),
                           !.incidentsByAgent = [a \in Agent |-> << >>]]

Claims(e) == e.type = "COMPROMISE_SUCCEEDED" /\ ~e.already_compromised

\* Variant: a repeated claim is taken for the first.
NodesAfterEveryClaim(nodes, e) ==
    CASE e.type = "COMPROMISE_SUCCEEDED" /\ e.target \in DOMAIN nodes ->
           [nodes EXCEPT ![e.target] = [security_state |-> "compromised",
                                        compromised_by |-> e.source, tick_compromised |-> e.tick]]
      [] e.type = "AGENT_QUARANTINED" /\ e.agent \in DOMAIN nodes ->
           [nodes EXCEPT ![e.agent].security_state = "quarantined"]
      [] OTHER -> nodes

NodesAfter(nodes, e) ==
    CASE Claims(e) /\ e.target \in DOMAIN nodes ->
           [nodes EXCEPT ![e.target] = [security_state |-> "compromised",
                                        compromised_by |-> e.source, tick_compromised |-> e.tick]]
      [] e.type = "COMPROMISE_SUCCEEDED" /\ ~Claims(e) /\ e.target \in DOMAIN nodes ->
           [nodes EXCEPT ![e.target].security_state = "compromised"]
      [] e.type = "AGENT_QUARANTINED" /\ e.agent \in DOMAIN nodes ->
           [nodes EXCEPT ![e.agent].security_state = "quarantined"]
      [] OTHER -> nodes

(* The event branch, for an event of the schema version this client knows.  *)
reduceEvent(view, e) ==
    [view EXCEPT
       !.lastSeq = e.seq, !.tick = e.tick,
       !.nodes = NodesAfter(@, e),
       !.recentEvents = LastOnes(Append(@, e.seq), EventLogCap),
       !.newCompromises = IF Claims(e) THEN @ + 1 ELSE @,
       !.modelCalls = IF e.type = "MODEL_REQUESTED" THEN @ + 1 ELSE @,
       !.incidentsByAgent = recordIncident(@, e)]

\* foldEvents(from, events, count)
foldEvents(from, events, count) ==
    LET view[i \in 0..count] == IF i = 0 THEN from ELSE reduceEvent(view[i - 1], events[i])
    IN  view[count]

selectMetrics(view) ==
    LET compromised == Cardinality(Having(view.nodes, {"compromised"}))
        quarantined == Cardinality(Having(view.nodes, {"quarantined"}))
    IN  [total |-> Cardinality(DOMAIN view.nodes),
         healthy |-> Cardinality(Having(view.nodes, {"healthy"})),
         compromised |-> compromised, quarantined |-> quarantined,
         newCompromises |-> view.newCompromises, totalExposure |-> compromised + quarantined,
         outbreakDuration |-> view.tick, modelCalls |-> view.modelCalls]

----------------------------------------------------------------------------
(* What the view says of a log, without folding it: the reference for       *)
(* properties.                                                              *)

Changes(e, a) == \/ e.type = "COMPROMISE_SUCCEEDED" /\ e.target = a
                 \/ e.type = "AGENT_QUARANTINED" /\ e.agent = a

Names(e, a) == e.type \in INCIDENT_EVENT_TYPES /\ a \in {e.agent, e.source, e.target}

\* Node a, that was base, once these events have happened: the last event that
\* touched it gives its state, the last real claim who compromised it and when.
NodeOf(base, events, a) ==
    LET touched == {i \in DOMAIN events : Changes(events[i], a)}
        claimed == {i \in touched : Claims(events[i])}
    IN  [security_state |->
           IF touched = {} THEN base.security_state
           ELSE IF events[Max(touched)].type = "AGENT_QUARANTINED" THEN "quarantined"
           ELSE "compromised",
         compromised_by |-> IF claimed = {} THEN base.compromised_by
                            ELSE events[Max(claimed)].source,
         tick_compromised |-> IF claimed = {} THEN base.tick_compromised
                              ELSE events[Max(claimed)].tick]

\* View v is what it was at base, brought forward by exactly these events.
Shows(v, base, events) ==
    /\ v.nodes = [a \in DOMAIN base.nodes |-> NodeOf(base.nodes[a], events, a)]
    /\ v.newCompromises = base.newCompromises
         + Cardinality({i \in DOMAIN events : Claims(events[i])})
    /\ v.modelCalls = base.modelCalls
         + Cardinality({i \in DOMAIN events : events[i].type = "MODEL_REQUESTED"})
    /\ \A a \in Agent :
         v.incidentsByAgent[a] =
           LET mine == Only(events, {e \in Range(events) : Names(e, a)})
           IN  LastOnes(base.incidentsByAgent[a] \o [i \in DOMAIN mine |-> mine[i].seq],
                        IncidentLogCap)
=============================================================================
