------------------------------- MODULE Outbreak -------------------------------
(***************************************************************************)
(* The simulation engine: one tick of an experiment runs the configured    *)
(* scenarios in list order, then detection, then the attempts between real *)
(* agents, and publishes every event of the tick in one batch.  A random   *)
(* draw is a free choice of its outcome (0 < rate < 1); a rate of zero is  *)
(* a scenario left out of ActiveScenarios or a flag that is FALSE.         *)
(*                                                                         *)
(* advance() is sequential code: its possible results are composed as sets *)
(* of outcomes [world, drafts].  The world is replaced before the models   *)
(* are called and the events published after they answered; without a call *)
(* to make nothing comes between the two.  The published events are folded *)
(* as they come by the reducer of the browser, once for a client of the    *)
(* live run and once for a replay from the stored log.                     *)
(***************************************************************************)
EXTENDS Integers, Sequences, FiniteSets, SequencesExt, FiniteSetsExt

CONSTANTS
    Agent,           \* agents, numbered in the order of their ids
    Edges,           \* the communication topology: a set of two-element sets
    SentinelCount,   \* sentinel_count
    CredentialCount, \* credential_count
    Holder,          \* Holder[c]: the agent that uses credential c
    Threshold,       \* adaptive_detection_threshold, as <<numerator, denominator>>
    DefenseEnabled,  \* defense_enabled and detector_sensitivity > 0
    Configs,         \* the configurations to choose from, see config
    MaxTicks,        \* max_ticks
    None

Sentinel   == {<<"sentinel", i>> : i \in 0..(SentinelCount - 1)}
Credential == {<<"credential", i>> : i \in 0..(CredentialCount - 1)}

ASSUME AgentAssumption ==
    /\ Agent \subseteq Nat /\ IsFiniteSet(Agent) /\ None \notin Nat
    /\ \A e \in Edges : e \subseteq Agent /\ Cardinality(e) = 2
    /\ \A c \in Configs : c.active_scenarios \in Seq(STRING) /\ c.real_agents \subseteq Agent
    /\ Holder \in [Credential -> Agent]

VARIABLES
    config,  \* active_scenarios in list order, real_agents, false_quarantine
    world,   \* WorldState: tick, the agents, compromised_graph_nodes
    live,    \* the reducer's state in a browser, opened at whatever moment
    replay,  \* the reducer's state at the end of a replay of what is stored so far
    phase,   \* "ready"; "calling": the models are; "ended": the run did so in a call
    pending  \* the drafts of the world that are not published yet

outbreakVars == <<config, world, live, replay, phase, pending>>

\* Agents whose agent_kind is "real"; false_quarantine: false_quarantine_rate > 0.
ActiveScenarios == config.active_scenarios
RealAgent       == config.real_agents

Neighbours(a) == {b \in Agent : {a, b} \in Edges}
In(w, s)      == {a \in Agent : w.node[a].state = s}

----------------------------------------------------------------------------
(* Events and the browser's reducer.  Only the events that change a node of *)
(* the view are kept: AGENT_QUARANTINED and COMPROMISE_SUCCEEDED.           *)

Succeeded(t, target, source, dup) ==
    [type |-> "COMPROMISE_SUCCEEDED", tick |-> t, agent |-> target, source |-> source,
     already_compromised |-> dup]

Compromised(source, t) == [state |-> "compromised", by |-> source, when |-> t]

\* Variant: a repeated claim names who compromised the node again.
ReduceEveryClaim(view, e) ==
    CASE e.type = "COMPROMISE_SUCCEEDED" ->
           [view EXCEPT !.node[e.agent] = Compromised(e.source, e.tick)]
      [] e.type = "AGENT_QUARANTINED" -> [view EXCEPT !.node[e.agent].state = "quarantined"]

Reduce(view, e) ==
    CASE e.type = "COMPROMISE_SUCCEEDED" /\ e.already_compromised ->
           [view EXCEPT !.node[e.agent].state = "compromised"]
      [] e.type = "COMPROMISE_SUCCEEDED" /\ ~e.already_compromised ->
           [view EXCEPT !.node[e.agent] = Compromised(e.source, e.tick)]
      [] e.type = "AGENT_QUARANTINED" -> [view EXCEPT !.node[e.agent].state = "quarantined"]

\* The view after all these drafts.
ReduceAll(view, drafts) ==
    LET after[i \in 0..Len(drafts)] ==
          IF i = 0 THEN view ELSE Reduce(after[i - 1], drafts[i])
    IN  after[Len(drafts)]

\* A snapshot of world w, applied by a browser that has none yet.
FirstSnapshot(w) == [node |-> w.node]

----------------------------------------------------------------------------
(* Claims: the attempts that succeed, in order; the first one wins a target. *)

\* sorted(): the n-th element has n - 1 before it.
Rank(a, agents) == Cardinality({b \in agents : b < a})
Sorted(agents)  == [n \in 1..Cardinality(agents) |-> CHOOSE a \in agents : Rank(a, agents) = n - 1]

\* The order of two nested loops over sorted sources and sorted targets.
Earlier(p, q) == p[1] < q[1] \/ (p[1] = q[1] /\ p[2] < q[2])
SortedPairs(pairs) ==
    [n \in 1..Cardinality(pairs) |->
       CHOOSE p \in pairs : Cardinality({q \in pairs : Earlier(q, p)}) = n - 1]

Sources(hits, t) == {p[1] : p \in {q \in hits : q[2] = t}}
Claimed(hits)    == {p[2] : p \in hits}

FirstSource(hits, t) == Min(Sources(hits, t))

ClaimDrafts(hits, tick) ==
    LET inOrder == SortedPairs(hits) IN
    [i \in DOMAIN inOrder |->
       LET s == inOrder[i][1] t == inOrder[i][2]
       IN  Succeeded(tick, t, s, s # FirstSource(hits, t))]

Infect(w, hits, tick) ==
    [w EXCEPT !.node = [a \in Agent |->
        IF a \in Claimed(hits) THEN Compromised(FirstSource(hits, a), tick) ELSE w.node[a]]]

\* A tick of the clock with these successful attempts, after outcome o.
Ticked(o, hits) ==
    [world  |-> [Infect(o.world, hits, o.world.tick) EXCEPT !.tick = @ + 1],
     drafts |-> o.drafts \o ClaimDrafts(hits, o.world.tick)]

----------------------------------------------------------------------------
(* The scenarios: the possible outcomes of each, after outcome o *)

\* Variant: a target that is already quarantined is attacked as well.
AttemptsOnAnyone(w) ==
    {p \in In(w, "compromised") \X Agent :
       /\ p[2] \in Neighbours(p[1]) /\ w.node[p[2]].state # "compromised"
       /\ ~(p[1] \in RealAgent /\ p[2] \in RealAgent)}

\* propagation.step: every healthy neighbour, except from real to real.
Attempts(w) ==
    {p \in In(w, "compromised") \X In(w, "healthy") :
       p[2] \in Neighbours(p[1]) /\ ~(p[1] \in RealAgent /\ p[2] \in RealAgent)}

Propagation(o) == {Ticked(o, hits) : hits \in SUBSET Attempts(o.world)}

\* adaptive_attacker: one attempt per source, on the neighbour of the highest
\* degree, or of the lowest once enough of those attacked are quarantined.
Stealthy(w) ==
    LET attacked == {a \in Agent : w.node[a].by # None
                                   /\ w.node[a].state \in {"compromised", "quarantined"}}
        caught   == {a \in attacked : w.node[a].state = "quarantined"}
    IN  IF attacked = {} THEN Threshold[1] = 0
        ELSE Cardinality(caught) * Threshold[2] >= Threshold[1] * Cardinality(attacked)

Degree(a) == Cardinality(Neighbours(a))

Target(w, s) ==
    LET options == Neighbours(s) \cap In(w, "healthy")
        Better(a, b) == IF Stealthy(w) THEN Degree(a) < Degree(b) ELSE Degree(a) > Degree(b)
        best == {a \in options : \A b \in options : ~Better(b, a)}
    IN  Min(best)

AdaptiveAttempts(w) ==
    {<<s, Target(w, s)>> : s \in {a \in In(w, "compromised") :
                                    Neighbours(a) \cap In(w, "healthy") # {}}}

AdaptiveAttacker(o) == {Ticked(o, hits) : hits \in SUBSET AdaptiveAttempts(o.world)}

\* Monitoring is dealt out to the sentinels round robin.
MonitoredBy(s) == {a \in Agent : Rank(a, Agent) % SentinelCount = s[2]}

SentinelCompromise(o) ==
    LET w == o.world
        exposed == {s \in Sentinel \ w.plane : MonitoredBy(s) \cap In(w, "compromised") # {}}
    IN  {[o EXCEPT !.world.plane = @ \cup turned] : turned \in SUBSET exposed}

\* byzantine_collusion: pairs of compromised agents in order; each takes at most
\* one credential that neither of the two holds.
Pairs(w) ==
    LET ids == Sorted(In(w, "compromised"))
    IN  {{ids[i], ids[i + 1]} : i \in {n \in 1..(Len(ids) - 1) : n % 2 = 1}}

Takes(w) ==
    {f \in [Pairs(w) -> Credential \cup {None}] :
       \A p \in Pairs(w) : f[p] # None => Holder[f[p]] \notin p}

ByzantineCollusion(o) ==
    {[o EXCEPT !.world.plane = @ \cup ({f[p] : p \in DOMAIN f} \ {None})] :
       f \in Takes(o.world)}

RunScenario(outcomes, name) ==
    UNION {CASE name = "propagation"         -> Propagation(o)
             [] name = "adaptive_attacker"   -> AdaptiveAttacker(o)
             [] name = "sentinel_compromise" -> SentinelCompromise(o)
             [] name = "byzantine_collusion" -> ByzantineCollusion(o)
             [] OTHER -> {o} : o \in outcomes}

----------------------------------------------------------------------------
\* Detection: a compromised agent is caught unless its sentinel has turned; a
\* subverted authority quarantines healthy agents.
Suppressed(w) == UNION {MonitoredBy(s) : s \in w.plane \cap Sentinel}

Quarantine(w, agents) ==
    [w EXCEPT !.node = [a \in Agent |->
        IF a \in agents THEN [w.node[a] EXCEPT !.state = "quarantined"] ELSE w.node[a]]]

Quarantines(agents, tick) ==
    LET ids == Sorted(agents) IN
    [i \in DOMAIN ids |-> [type |-> "AGENT_QUARANTINED", tick |-> tick, agent |-> ids[i]]]

\* caught: the compromised agents detected; framed: the healthy ones quarantined.
Quarantined(o, caught, framed) ==
    [world  |-> Quarantine(o.world, caught \cup framed),
     drafts |-> o.drafts \o Quarantines(caught, o.world.tick) \o Quarantines(framed, o.world.tick)]

Detection(o) ==
    LET caught == In(o.world, "compromised") \ Suppressed(o.world)
        framed == IF config.false_quarantine THEN In(o.world, "healthy") ELSE {}
    IN  IF ~DefenseEnabled THEN {o}
        ELSE UNION {{Quarantined(o, some, others) : others \in SUBSET framed} : some \in SUBSET caught}

RealAttempts(w) ==
    {p \in (In(w, "compromised") \cap RealAgent) \X (In(w, "healthy") \cap RealAgent) :
       p[2] \in Neighbours(p[1])}

\* real_agent_step: the new WorldState is built without compromised_graph_nodes.
RealAgents(o) ==
    {IF hits = {} THEN o
     ELSE [world  |-> [Infect(o.world, hits, o.world.tick) EXCEPT !.plane = {}],
           drafts |-> o.drafts \o ClaimDrafts(hits, o.world.tick)]
     : hits \in SUBSET RealAttempts(o.world)}

\* run_async_scenarios has something to await.
CallsModels(w) == "prompt_injection" \in ToSet(ActiveScenarios) /\ RealAttempts(w) # {}

\* The scenarios one after the other, from world w.
Swept(w) ==
    LET after[i \in 0..Len(ActiveScenarios)] ==
          IF i = 0 THEN {[world |-> w, drafts |-> << >>]}
          ELSE RunScenario(after[i - 1], ActiveScenarios[i])
    IN  after[Len(ActiveScenarios)]

Advance(w) == UNION {Detection(o) : o \in Swept(w)}

\* The run ends at max_ticks, or when no healthy agent borders a compromised one.
Finished ==
    \/ world.tick >= MaxTicks
    \/ \A a \in In(world, "compromised") : Neighbours(a) \cap In(world, "healthy") = {}

----------------------------------------------------------------------------
\* build_world: one compromised agent; publish_initial has been awaited.
OutbreakInit ==
    /\ config \in Configs
    /\ \E zero \in Agent :
         world = [tick |-> 0, plane |-> {},
                  node |-> [a \in Agent |->
                     IF a = zero THEN Compromised(None, 0)
                     ELSE [state |-> "healthy", by |-> None, when |-> None]]]
    /\ live = FirstSnapshot(world) /\ replay = FirstSnapshot(world)
    /\ phase = "ready" /\ pending = << >>

\* What a replay fetches: the replay snapshot ends at MAX(seq) WHERE sim_tick = 0,
\* and only later events follow it.
StoredAfterSnapshot(drafts) == SelectSeq(drafts, LAMBDA e : e.tick > 0)

Publish(drafts) ==
    /\ live' = ReduceAll(live, drafts)
    /\ replay' = ReduceAll(replay, StoredAfterSnapshot(drafts))

Tick ==
    /\ phase = "ready" /\ ~Finished
    /\ \E o \in Advance(world) :
         /\ world' = o.world
         /\ \/ /\ CallsModels(o.world)
               /\ phase' = "calling" /\ pending' = o.drafts
               /\ UNCHANGED <<live, replay>>
            \/ /\ ~CallsModels(o.world)
               /\ Publish(o.drafts)
               /\ UNCHANGED <<phase, pending>>
    /\ UNCHANGED config

ModelsAnswer ==
    /\ phase = "calling"
    /\ \E o \in RealAgents([world |-> world, drafts |-> pending]) :
         world' = o.world /\ Publish(o.drafts)
    /\ phase' = "ready" /\ pending' = << >>
    /\ UNCHANGED config

\* stop() cancels the calls, or one of them raises: the drafts go with the task.
EndsInACall ==
    /\ phase = "calling"
    /\ phase' = "ended"
    /\ UNCHANGED <<config, world, live, replay, pending>>

\* A browser is opened; its snapshot is the world of that moment.
Opens ==
    /\ live' = FirstSnapshot(world)
    /\ UNCHANGED <<config, world, replay, phase, pending>>

OutbreakNext == Tick \/ ModelsAnswer \/ EndsInACall \/ Opens
OutbreakSpec == OutbreakInit /\ [][OutbreakNext]_outbreakVars

----------------------------------------------------------------------------
(* Properties *)

NodeType ==
    [state : {"healthy", "compromised", "quarantined"},
     by : Agent \cup {None}, when : 0..MaxTicks \cup {None}]

OutbreakTypeOK ==
    /\ world.tick \in 0..MaxTicks
    /\ phase \in {"ready", "calling", "ended"} /\ (phase = "ready" => pending = << >>)
    /\ world.node \in [Agent -> NodeType]
    /\ world.plane \subseteq Sentinel \cup Credential
    /\ live.node \in [Agent -> NodeType]
    /\ replay.node \in [Agent -> NodeType]

\* The deltas are enough.  Between two ticks a browser that folds the events holds the
\* world of the engine, who compromised whom included, however many sources claimed the
\* same target in one tick.  While the models are called the world is ahead of its events:
\* the drafts held back carry the rest, whether the browser's snapshot is of before the
\* tick or already of the new world.  A run that ends there never publishes them, and a
\* browser that was watching stays behind it for good.
EventsCarryTheWorld ==
    /\ phase = "ready" => live.node = world.node
    /\ ReduceAll(live, pending).node = world.node

\* Who compromised a after n steps back along compromised_by.
Back(a, n) ==
    LET chain[i \in 0..n] ==
          IF i = 0 THEN a
          ELSE IF world.node[chain[i - 1]].by = None THEN chain[i - 1]
          ELSE world.node[chain[i - 1]].by
    IN  chain[n]

\* "A well-formed compromise chain is always acyclic by construction"
\* (graph/analysis.py:72): from every agent that was compromised, compromised_by
\* leads to the one agent nobody compromised.
ChainsReachPatientZero ==
    \E zero \in Agent :
      /\ world.node[zero].by = None /\ world.node[zero].when = 0
      /\ \A a \in Agent : world.node[a].when # None => Back(a, Cardinality(Agent)) = zero

\* Live and replay agree on every node (replayEquivalence.test.ts).
ReplayShowsTheRun == phase = "ready" => replay.node = live.node

\* A sentinel or credential stays compromised
\* (test_compromised_graph_nodes_persistence.py).
PlaneStaysCompromised == [][world.plane \subseteq world'.plane]_outbreakVars

============================================================================
