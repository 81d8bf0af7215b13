------------------------------- MODULE Workspace -------------------------------
(***************************************************************************)
(* The investigation surface: TopologyWorkspace with its graph, its         *)
(* inspector and its path finder, fed by the stream of a live run or by a   *)
(* replay, and by the security resources that useSecurityInsights polls.    *)
(* Three sources of different age meet here: frames, polled answers and     *)
(* answers to what the user asked.                                          *)
(*                                                                          *)
(* An action is a callback and what React does before the next one: render, *)
(* and the effects that draw.  Places in the run are numbers of events that *)
(* have happened since the first snapshot, -1 for not known yet.  MaxClicks *)
(* bounds what the user does.                                               *)
(***************************************************************************)
EXTENDS GraphView

CONSTANTS
    Other,      \* nodes of the security graph that are not agents
    Falls,      \* Falls[o]: the event with which o is compromised, 0 for never
    LayerOf,    \* edges of the security graph, two-element sets, with their layer
    Carries,    \* <<a, b>>: the directions in which an edge can propagate
    MaxClicks,
    MaxLost     \* bound on the polls that fail

Node == Agent \cup Other

ASSUME WorkspaceAssumption ==
    /\ IsFiniteSet(Node) /\ Agent \cap Other = {} /\ None \notin Node /\ PatientZero \in Agent
    /\ \A e \in DOMAIN LayerOf : e \subseteq Node /\ Cardinality(e) = 2
    /\ Carries \subseteq {p \in Node \X Node : {p[1], p[2]} \in DOMAIN LayerOf}
    /\ MaxClicks \in Nat /\ MaxLost \in Nat /\ Len(History) \in Nat

\* A graph that is not drawn has no structure.
ASSUME NoneAssumption == None \notin BOOLEAN \X BOOLEAN \X Nat

VARIABLES
    mode,      \* "live" or "replay"
    happened,  \* the events of the run so far
    seen,      \* the place the stream's GraphState is at
    insights,  \* places of the graph and the blast radius shown; error
    poll,      \* phase of the poll, and the places its requests were served at
    clicks,
    selectedId, path, layers, focus,
    question,  \* pathSource and pathTarget
    finder,    \* the AttackPathFinder that is mounted, by its number; its results
    searches,  \* searches that have not been answered: finder and question
    trace,     \* useProvenance: whose chain is shown
    traces,    \* unanswered requests for a chain: node and whether cancelled
    drawn      \* the graph that Sigma holds

dataVars == <<mode, happened, seen, insights, poll>>
userVars == <<selectedId, path, layers, focus, question, finder>>
askVars  == <<searches, trace, traces>>
vars == <<dataVars, clicks, userVars, askVars, drawn>>

----------------------------------------------------------------------------
(* What the places stand for *)

Base == reduceSnapshot(initialGraphState,
          [experiment_id |-> "run", last_seq |-> 0, sim_tick |-> 0,
           nodes |-> [a \in Agent |-> IF a = PatientZero
                        THEN [Healthy EXCEPT !.security_state = "compromised",
                                             !.tick_compromised = 0]
                        ELSE Healthy]])

\* The agents at each place of the stream.
Stream == [place \in 0..Len(History) |-> foldEvents(Base, History, place).nodes]

StateOf(n, place) ==
    IF n \in Agent THEN Stream[place][n].security_state
    ELSE IF Falls[n] \in 1..place THEN "compromised" ELSE "healthy"

IsPath(p) ==
    /\ \A i \in 1..(Len(p) - 1) : <<p[i], p[i + 1]>> \in Carries
    /\ \A i, j \in 1..Len(p) : i # j => p[i] # p[j]

\* GET analysis/attack-paths: the simple paths from one node to the other, and from a node
\* to itself the path of that node alone.
SimplePaths == {p \in UNION {[1..n -> Node] : n \in 1..Cardinality(Node)} : IsPath(p)}
PathsFrom(q) == {p \in SimplePaths : p[1] = q.source /\ Last(p) = q.target}

\* GET analysis/blast-radius: what the compromised nodes can reach, with themselves.
Reachable ==
    [place \in 0..Len(History) |->
       LET held == {n \in Node : StateOf(n, place) = "compromised"}
       IN  held \cup {Last(p) : p \in {q \in SimplePaths : q[1] \in held}}]

----------------------------------------------------------------------------
(* buildTopologyModel, and what the effects of TopologyGraph draw *)

\* Structure from the security graph, once it is there; the state of an agent from
\* the stream, once there is a snapshot.
buildTopologyModel(place, graph) ==
    IF graph = -1
    THEN IF place = -1 THEN << >> ELSE [a \in Agent |-> StateOf(a, place)]
    ELSE [n \in Node |-> StateOf(n, IF n \in Agent /\ place # -1 THEN place ELSE graph)]

model == buildTopologyModel(seen, insights.graph)

\* structureKey: where the structure comes from, the run, and how large it is.
structureKey(place, graph) ==
    <<graph # -1, place # -1, Cardinality(DOMAIN buildTopologyModel(place, graph))>>

Edges(nodes) == {e \in DOMAIN LayerOf : e \subseteq nodes}
NotDrawn     == [key |-> None, colour |-> << >>, edges |-> {}]

\* Variant: colours are given when the graph is built, and never again.
ColourAtBuild(d, place, graph) ==
    LET m == buildTopologyModel(place, graph)
    IN  CASE m = << >> -> NotDrawn
          [] m # << >> /\ d.key # structureKey(place, graph) ->
               [key |-> structureKey(place, graph), colour |-> m, edges |-> Edges(DOMAIN m)]
          [] OTHER -> d

\* The build effect runs when the key has changed, the colour effect whenever the
\* model has; without nodes the graph is not mounted.
Redraw(d, place, graph) ==
    LET m == buildTopologyModel(place, graph)
    IN  CASE m = << >> -> NotDrawn
          [] m # << >> /\ d.key # structureKey(place, graph) ->
               [key |-> structureKey(place, graph), colour |-> m, edges |-> Edges(DOMAIN m)]
          [] OTHER ->
               [d EXCEPT !.colour = [n \in DOMAIN @ |-> IF n \in DOMAIN m THEN m[n] ELSE @[n]]]

Effects == drawn' = Redraw(drawn, seen', insights'.graph)

focusIds == IF focus /\ insights.blast # -1 THEN Reachable[insights.blast] ELSE None

isDimmed(n) ==
    CASE path # None -> n \notin Range(path)
      [] path = None /\ focusIds # None -> n \notin focusIds
      [] OTHER -> FALSE

Hops == IF path = None THEN {} ELSE {{path[i], path[i + 1]} : i \in 1..(Len(path) - 1)}

\* edgeReducer
EdgeStyle(e) ==
    CASE LayerOf[e] \notin layers -> "hidden"
      [] LayerOf[e] \in layers /\ e \in Hops -> "path"
      [] LayerOf[e] \in layers /\ e \notin Hops /\ selectedId \in e -> "selection"
      [] OTHER -> IF \A n \in e : isDimmed(n) THEN "dimmed" ELSE "plain"

\* drawOverlay: a circle around what is on the path and its step numbers, a halo on the
\* selection, and a label for what is not dimmed and matters, the room for it aside.
inPath(n) == path # None /\ n \in Range(path)

\* A path of one node has no order to show.
Steps(n) == IF path = None \/ Len(path) = 1 THEN {} ELSE {i \in DOMAIN path : path[i] = n}

Mark(n) ==
    [circle |-> inPath(n), steps |-> Steps(n), halo |-> selectedId = n, ring |-> n \in Other,
     label |-> (selectedId = n \/ inPath(n) \/ n \in Other) /\ ~isDimmed(n)]

----------------------------------------------------------------------------
(* The run, its stream and the polled resources *)

Happen ==
    /\ mode = "live" /\ happened < Len(History) /\ happened' = happened + 1
    /\ UNCHANGED <<mode, seen, insights, poll, clicks, userVars, askVars, drawn>>

\* An event, or the snapshot of a new connection; in a replay, playback and scrubbing.
Frame ==
    /\ seen' \in IF mode = "live" THEN {seen + 1, happened} \cap 0..happened
                 ELSE 0..Len(History)
    /\ UNCHANGED <<mode, happened, insights, poll, clicks, userVars, askVars>>
    /\ Effects

\* Each request of the poll is served at a moment of its own.
PollServed ==
    /\ poll.phase = "asked"
    /\ \E r \in {"graph", "blast"} : poll[r] = -1 /\ poll' = [poll EXCEPT ![r] = happened]
    /\ UNCHANGED <<mode, happened, seen, insights, clicks, userVars, askVars, drawn>>

\* finally(): only a live run is asked about again.
Rest ==
    [poll EXCEPT !.phase = IF mode = "live" THEN "waiting" ELSE "done", !.graph = -1, !.blast = -1]

Fail == poll.phase = "asked" /\ poll.lost < MaxLost
Lost(rest) == [rest EXCEPT !.lost = @ + 1]

PollAnswered ==
    /\ poll.phase = "asked" /\ poll.graph # -1 /\ poll.blast # -1
    /\ insights' = [graph |-> poll.graph, blast |-> poll.blast, error |-> FALSE, loading |-> FALSE]
    /\ poll' = Rest
    /\ UNCHANGED <<mode, happened, seen, clicks, userVars, askVars>>
    /\ Effects

\* Variant: nothing is asked again after an error.
PollGivesUp ==
    /\ Fail
    /\ insights' = [insights EXCEPT !.error = TRUE, !.loading = FALSE]
    /\ poll' = [Lost(Rest) EXCEPT !.phase = "done"]
    /\ UNCHANGED <<mode, happened, seen, clicks, userVars, askVars>>
    /\ Effects

\* What was there is kept, with an error next to it.
PollFailed ==
    /\ Fail
    /\ insights' = [insights EXCEPT !.error = TRUE, !.loading = FALSE]
    /\ poll' = Lost(Rest)
    /\ UNCHANGED <<mode, happened, seen, clicks, userVars, askVars>>
    /\ Effects

PollAgain ==
    /\ poll.phase = "waiting" /\ poll' = [poll EXCEPT !.phase = "asked"]
    /\ UNCHANGED <<mode, happened, seen, insights, clicks, userVars, askVars, drawn>>

Poll == PollServed \/ PollAnswered \/ PollFailed \/ PollAgain

----------------------------------------------------------------------------
(* Selecting a node: the inspector and its provenance *)

Click == clicks < MaxClicks /\ clicks' = clicks + 1
DataUntouched == UNCHANGED <<dataVars, drawn>>

NoChain == [of |-> None, error |-> FALSE]

\* Only an agent has a chain to ask for.
Asked(n) == [node |-> IF n \in Agent THEN n ELSE None, cancelled |-> FALSE]

\* Variant: an effect without a cleanup.
NobodyCancels == traces

\* The cleanup of the effect.
Cancelled == {[t EXCEPT !.cancelled = TRUE] : t \in traces}

\* The finder gives way to an inspector whose hook has no chain yet; the next node
\* gets the same inspector, and a request of its own.
Select(n) ==
    /\ Click /\ n \in DOMAIN drawn.colour /\ n # selectedId
    /\ selectedId' = n
    /\ trace' = IF selectedId = None THEN NoChain ELSE trace
    /\ traces' = Cancelled \cup {Asked(n)}
    /\ finder' = IF selectedId = None THEN [finder EXCEPT !.up = FALSE] ELSE finder
    /\ UNCHANGED <<path, layers, focus, question, searches>> /\ DataUntouched

Deselect ==
    /\ Click /\ selectedId # None
    /\ selectedId' = None /\ trace' = NoChain /\ traces' = Cancelled
    /\ finder' = [up |-> TRUE, number |-> finder.number + 1, paths |-> None, loading |-> FALSE]
    /\ UNCHANGED <<path, layers, focus, question, searches>> /\ DataUntouched

\* The answer for no node is a resolved promise.
TraceAnswered(t) ==
    /\ traces' = traces \ {t}
    /\ trace' \in IF t.cancelled THEN {trace}
                  ELSE {[of |-> t.node, error |-> FALSE]}
                       \cup IF t.node = None THEN {} ELSE {[of |-> None, error |-> TRUE]}
    /\ UNCHANGED <<clicks, userVars, searches>> /\ DataUntouched

----------------------------------------------------------------------------
(* The path finder *)

\* Text in both fields; clicking through the list of suggestions is not told apart.
Ask ==
    /\ Click /\ finder.up
    /\ \E a, b \in Node : question' = [source |-> a, target |-> b]
    /\ UNCHANGED <<selectedId, path, layers, focus, finder, askVars>> /\ DataUntouched

\* The inspector's button.
TraceFrom ==
    /\ Click /\ selectedId \in Agent
    /\ question' = [question EXCEPT !.source = selectedId]
    /\ UNCHANGED <<selectedId, path, layers, focus, finder, askVars>> /\ DataUntouched

\* The button is disabled while a search is under way; the Enter key is not.
Search ==
    /\ Click /\ finder.up /\ question.source # None /\ question.target # None
    /\ finder' = [finder EXCEPT !.loading = TRUE]
    /\ searches' = searches \cup {[finder |-> finder.number, asked |-> question]}
    /\ UNCHANGED <<selectedId, path, layers, focus, question, trace, traces>> /\ DataUntouched

Found(s, paths) ==
    /\ searches' = searches \ {s}
    /\ finder' = IF finder.up /\ finder.number = s.finder
                 THEN [finder EXCEPT !.paths = paths, !.loading = FALSE] ELSE finder
    /\ UNCHANGED <<clicks, selectedId, layers, focus, question, trace, traces>> /\ DataUntouched

\* The first path is traced, also for a finder that is gone by now.
SearchAnswered(s) ==
    /\ path' \in IF PathsFrom(s.asked) = {} THEN {None} ELSE PathsFrom(s.asked)
    /\ Found(s, PathsFrom(s.asked))

SearchFailed(s) == path' = None /\ Found(s, None)

PickPath ==
    /\ Click /\ finder.up /\ finder.paths # None
    /\ \E p \in finder.paths : path' = IF p = path THEN None ELSE p
    /\ UNCHANGED <<selectedId, layers, focus, question, finder, askVars>> /\ DataUntouched

ClearPath ==
    /\ Click /\ path # None /\ path' = None
    /\ UNCHANGED <<selectedId, layers, focus, question, finder, askVars>> /\ DataUntouched

----------------------------------------------------------------------------
ToggleLayer ==
    /\ Click
    /\ \E l \in {LayerOf[e] : e \in Edges(DOMAIN drawn.colour)} :
         layers' = IF l \in layers THEN layers \ {l} ELSE layers \cup {l}
    /\ UNCHANGED <<selectedId, path, focus, question, finder, askVars>> /\ DataUntouched

ToggleFocus ==
    /\ Click /\ insights.blast # -1 /\ focus' = ~focus
    /\ UNCHANGED <<selectedId, path, layers, question, finder, askVars>> /\ DataUntouched

UserStep ==
    \/ \E n \in Node : Select(n)
    \/ Deselect \/ Ask \/ TraceFrom \/ Search \/ PickPath \/ ClearPath
    \/ ToggleLayer \/ ToggleFocus

Answer ==
    \/ \E t \in traces : TraceAnswered(t)
    \/ \E s \in searches : SearchAnswered(s) \/ SearchFailed(s)

Init ==
    /\ mode \in {"live", "replay"}
    /\ happened = IF mode = "live" THEN 0 ELSE Len(History)
    /\ seen = IF mode = "live" THEN -1 ELSE 0
    /\ insights = [graph |-> -1, blast |-> -1, error |-> FALSE, loading |-> TRUE]
    /\ poll = [phase |-> "asked", graph |-> -1, blast |-> -1, lost |-> 0]
    /\ clicks = 0 /\ selectedId = None /\ path = None /\ focus = FALSE
    /\ layers = {"mesh", "access"}
    /\ question = [source |-> None, target |-> None]
    /\ finder = [up |-> TRUE, number |-> 0, paths |-> None, loading |-> FALSE]
    /\ searches = {} /\ trace = NoChain /\ traces = {}
    /\ drawn = Redraw(NotDrawn, seen, -1)

Next == Happen \/ Frame \/ Poll \/ UserStep \/ Answer

Spec == Init /\ [][Next]_vars

\* A request is answered or fails, and the timer fires.
Fairness == WF_vars(Poll) /\ WF_vars(Answer)

FairSpec == Spec /\ Fairness

----------------------------------------------------------------------------
(* Properties *)

TypeOK ==
    /\ mode \in {"live", "replay"} /\ happened \in 0..Len(History) /\ seen \in -1..happened
    /\ insights \in [graph : -1..happened, blast : -1..happened,
                     error : BOOLEAN, loading : BOOLEAN]
    /\ poll \in [phase : {"asked", "waiting", "done"}, graph : -1..happened,
                 blast : -1..happened, lost : 0..MaxLost]
    /\ clicks \in 0..MaxClicks /\ selectedId \in Node \cup {None} /\ focus \in BOOLEAN
    /\ question.source \in Node \cup {None} /\ question.target \in Node \cup {None}
    /\ finder.up = (selectedId = None) /\ finder.loading \in BOOLEAN
    /\ trace.of \in Agent \cup {None}

\* What Sigma shows is the model, whatever came in which order: the typed graph is
\* built when the first poll brings it, and an agent has the colour of the newest
\* frame and not that of the older poll (TopologyGraph.tsx:88-212).
DrawnIsTheModel ==
    /\ DOMAIN drawn.colour = DOMAIN model
    /\ \A n \in DOMAIN model :
         drawn.colour[n] = StateOf(n, IF n \in Agent /\ seen # -1 THEN seen ELSE insights.graph)

\* A traced path stands out of the graph it was computed on, whatever else is shown: its
\* nodes are circled and not dimmed, every other node is dimmed, every hop is a line of its
\* own unless its layer is switched off, and the nodes of two or more carry their numbers.
\* The path from a node to itself has neither hop nor number.
PathStandsOut ==
    path # None /\ insights.graph # -1 =>
      /\ Range(path) \subseteq DOMAIN drawn.colour
      /\ \A n \in Node : inPath(n) <=> ~isDimmed(n)
      /\ Len(path) > 1 => \A i \in DOMAIN path : i \in Mark(path[i]).steps
      /\ \A e \in Hops : e \in drawn.edges /\ EdgeStyle(e) \in {"path", "hidden"}

WhatIsDrawn == DrawnIsTheModel /\ PathStandsOut

\* When no request is under way the inspector shows the chain of the selected node,
\* or none: the answer for an earlier selection is not taken for it.
TraceSettles ==
    (\A t \in traces : t.cancelled) => trace.of \in {None, selectedId}

\* In a live run every event gets into the polled resources, errors in between or not.
InsightsGoOn ==
    \A k \in 1..Len(History) :
        mode = "live" /\ happened = k ~> insights.graph >= k /\ insights.blast >= k

\* "The causal trace for one node" (useProvenance.ts:15): the chain on the screen is
\* that of the node above it.
TraceIsOfTheSelected == selectedId \in Agent => trace.of \in {None, selectedId}

\* "Whatever the operator is actively looking at always keeps its label"
\* (TopologyGraph.tsx:340).
SelectionKeepsItsLabel == selectedId # None => Mark(selectedId).label
=============================================================================
