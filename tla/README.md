# AgentShield: TLA+ models and proofs

This directory specifies the parts of AgentShield whose correctness depends on order:
requests against a shared session, an event log that several readers follow, a run that
is ticked, paused and stopped while a writer stores its events, the simulation that
produces them, and the browser, where clicks, polls, frames and late answers meet. Every
definition is translated from the code, and `PROJECT.json` names the lines each one stands
for. TLC checks the models on small instances; TLAPS proves the most important results for
every value of the constants.

Check one model with `tlc -config MCExperimentRun.cfg MCExperimentRun`, and the proofs
with `tlapm ExperimentRunProofs.tla`.

## 1. The system

AgentShield watches a team of agents. It is a Python backend (FastAPI, one asyncio event
loop, PostgreSQL), a Next.js console, and a client, the WorkSwarm flow, that runs the
agents. It has two independent halves that share the event log:

- the **live runtime**: workers ask it for resources, it decides, quarantines and hands
  their work to replacements;
- the **simulator**: an experiment spreads a compromise through a topology, tick by tick,
  until it is contained or out of ticks; its events are stored and can be replayed.

```
 WorkSwarm flow --HTTP--> LiveRuntimeSession --+                   +--> handler --ws--> useRuntimeStream
                                               +-> Emitter -> Bus -+--> handler --ws--> useExperimentStream
 console --HTTP--> ExperimentRunner -----------+                   +--> PostgresWriter --> database
                     |  advance / run_async_scenarios (engine, detection, scenarios)          |
                     +--> ModelGateway --> model provider            replay player <--HTTP----+
```

All of the backend is one process and one event loop: code between two `await`s is
atomic, and any other task may run at an `await`. A browser is the same: a callback
runs to completion. This is where the models draw the line between two actions.

### Inventory

| Component (code) | State | Operations | What is hard, and what makes it correct |
|---|---|---|---|
| Live runtime session (`runtime/session.py`, `api/routes_runtime.py`) | workers, artifacts, workflow state, flags, step, seq | register, start, complete, test run, model call, artifact, resource request, quarantine, reassign, recover, fail | any client may call in any order. Work of a quarantined worker is never trusted; a denial is one batch; the events carry every change of status |
| Emitter, bus, WebSocket handlers (`events/`, `api/ws.py`, `routes_runtime.py` `runtime_stream`) | next seq, replay buffer of 2000, one queue per subscriber, `last_sent_seq` | emit and publish, subscribe, since, send, unsubscribe | publishing between subscribing, the snapshot and any two frames; eviction; clients that vanish. No gap, no duplicate, over reconnects |
| Browser hooks (`useExperimentStream.ts`, `useRuntimeStream.ts`) | socket, timers, `expectedNextSeq`, view | connect, frame, gap, close, backfill, unmount | timers and sockets of older connections outlive them, also the component. One socket, no false gap, no event twice, the view catches up |
| Graph state (`stream/reducer.ts`, `replay/loadReplayData.ts` `foldEvents`) | nodes, recent events, counters, incidents | fold a snapshot or an event | three pages rely on the one fold. The view is a function of the events before a position |
| Engine and scenarios (`engine/`, `scenarios/`, `security/detection.py`, `agents/runtime.py`) | world: tick, nodes, compromised graph nodes | one tick: scenarios in list order, detection, attempts between real agents | six places rebuild the world; several sources claim a target in one tick; the world is replaced before the model calls and published after them. Nothing forgotten, history written once, events carry the world |
| Experiment runner (`orchestrator/runner.py`, `routes_experiments.py`) | status, pause event, task, state, terminal event | tick, pause, resume, stop, set_speed | concurrent stops, cancellation inside a tick, a task that fails. One EXPERIMENT_STOPPED, last; every stop is answered |
| PostgresWriter (`persistence/writer.py`) | queue, batch, tables `experiments` and `experiment_events` | drain, write, finalize | terminal signal and last event travel separately, batches fail, the process dies. `is_complete` is true only of complete logs |
| History and replay (`routes_history.py`, `engine/replay.py`, `loadReplayData.ts`) | none (queries) | replay snapshot, events, list, analysis | the snapshot and the first event after it must be the same moment |
| Model gateway (`gateway/`) | semaphore, requests used | complete, with timeout and retries | callers that queue on the semaphore, retries, errors and cancellation at any await. The budget is never overrun, no permit is lost |
| Resource policy (`runtime/policy.py`, `resources.py`) | none | evaluate a request | path normalisation: no spelling of a secret's path is allowed |
| Enforcement and explanation (`runtime/explain.py`, `explanation/`) | none | describe a decision | wording; changes no state |
| Security graph (`graph/`) | none | build, paths, blast radius, provenance | cycles; pure |
| Metrics, remediation, telemetry, benchmark, importer | none that others read | reports, exports, command line tools | pure or output only |
| Console controls (`controls/reducer.ts`, `ExperimentProvider.tsx`, `RunContextBar.tsx`, `api/client.ts`) | status, pending operation, its id, revision, the stored run | start, pause, resume, speed, reset, poll, adopt after reload | answers that arrive late, polls that overtake an action, exchanges of which half is lost. No run is left alive unwatched |
| Launch form (`RunConfigurator.tsx`, `presets.ts`, `app/page.tsx`) | draft, chosen preset, open or not | edit, choose a preset, submit, run again | two scenarios that exclude each other, hidden fields that keep their value. What is submitted is accepted or its refusal announced |
| Comparison and fix trial (`comparison/`, `useFixTrial.ts`) | two arms, a flow per arm | create, follow, poll, measure, stop; load a record | overlapping clicks, pages left and opened again, numbers read too early. One pair, true numbers, every arm settles |
| Replay player and runs list (`replay/`, `app/history/`) | log and position; pages, filters, selection | load, play, seek, restart; list, more, filter, select | a log still being written, an interval between a seek and its render, rows added between two pages |
| Topology workspace (`components/graph/`, `useSecurityInsights.ts`, `useProvenance.ts`, `graph/model.ts`) | polled graph and blast radius, selection, path, layers, what is drawn | poll, frame, select, search, trace, draw | three sources of different age in one picture |
| Live view models and demo screen (`lib/runtime/`, `components/demo/`, `app/demo/`) | none: derived from events and summary on each render | derive incident, verdict, evidence, story, stage | a second attack, later refusals, a page opened late. The screen claims what the session would report |
| WorkSwarm flow (`workswarm/`) | outcome of one run | the demo's whole sequence | must fail closed, must reset what it changed |
| Insight pages, UI kit | none | draw | rendering |

The hazards these lead to are listed one by one, at their lines, in `PROJECT.json`, each
with the properties that cover it or the reason why none does.

## 2. The modules

| Module | Models | Depends on |
|---|---|---|
| `RuntimeSession` | the live session behind its routes | |
| `RuntimeSessionProofs` | its theorems and those of the screen | `IncidentView` |
| `GaplessFeed` | abstract: what the stream promises a client | |
| `EventStream` | emitter, bus, handlers, a client that reconnects | implements `GaplessFeed` |
| `EventStreamProofs` | its theorems, the refinement among them | `EventStream`, `GaplessFeed` |
| `StreamClient` | the two browser hooks | takes for granted what `GaplessFeed` promises |
| `StreamClientProofs` | its theorems | `StreamClient` |
| `Outbreak` | one experiment's world, its events, and a live and a replayed view | |
| `ModelGateway` | the gateway of one experiment under the calls one tick gathers | |
| `EngineProofs` | the theorems of both | `ModelGateway`, `Outbreak` |
| `ExperimentRun` | the runner's task, its requests and the writer | takes from `Outbreak` only that a tick publishes events, from `ModelGateway` how a model call may end |
| `ExperimentRunProofs` | its theorems | `ExperimentRun` |
| `IncidentView` | the demo screen's panels over the live session | extends `RuntimeSession` |
| `ControlConsole` | the console of one tab and the routes it calls | |
| `LaunchForm` | the configuration form and the answer to what it submits | |
| `ControlConsoleProofs` | the theorems of both | `ControlConsole`, `LaunchForm` |
| `GraphView` | operators: graph state and its reducer, and a reference that needs no fold | |
| `Comparison` | two arms side by side, of new or recorded runs | |
| `ComparisonProofs` | its theorems | `Comparison` |
| `Archive` | the runs list, and the replay of a run that may still be written | extends `GraphView` |
| `Workspace` | the topology page | extends `GraphView` |
| `GraphViewProofs` | the theorems of the three | `Archive`, `Workspace` |

`MC*.tla` and the `.cfg` files give the constants for TLC. `\* Variant:` comments mark the mutated
definitions: what a plausible mistake in that code would be; each property is refuted when its
variant replaces the definition it precedes. A module proved about together with another one names
what they would both define after itself (`FormInit`, `ArchiveSpec`, `OutbreakSpec`).

### RuntimeSession

One action per mutating method, with the guard of its route: a request answered by 404 or
409 changes nothing and is a stuttering step. A method never awaits, so a request is atomic.
The dict of workers is one variable per field, "absent" being a worker that is not in it;
artifacts likewise (`owner`, `trusted`). `Publish(drafts)` is `_publish`: the drafts of one
call are one batch (`batch`) with consecutive numbers. Of a draft only type, agent and the
ids in its metadata are kept. The policy's verdict is the choice between `AllowResource`
and `DenyResource`, which runs the cascade and `_quarantine_drafts` in one step.
`MaxStep` bounds `step`, which the code lets grow.

### EventStream and GaplessFeed

`Publish(n)` numbers n events and appends them to the buffer, evicting the oldest, and to
every subscriber's queue. `Accept` is everything the handler does from `accept()` to
its first `send_text`: subscribe and snapshot, or subscribe and `since()`. Then each
`send_text` is an action (`SendStart`, `SendLive`), because it awaits. The skip of events
with `seq <= last_sent_seq` is in `SendLive` as in the code; since subscribing and reading
the snapshot are one step, it is never needed. A handler whose client is gone stays
subscribed until a send fails (`SendFails`). The client is one browser over its reconnects;
each connection has its own handler, and old ones linger. `GaplessFeed` has no server in
it: a log that grows, and a position that a snapshot sets to some moment not yet passed and
that an event moves by exactly one.

### StreamClient

One action per callback: timer, the two steps of `attach()`, `onmessage` for a snapshot,
an event or a gap, `onclose`. `socket` is the hook's variable, the newest WebSocket;
older ones live on in `state`. `timers` counts pending timeouts, since `scheduleReconnect`
does not clear the one before. `Backfill` selects the hook. The server is reduced
to what `EventStream` shows of it. The hook is chosen in `Init`; `Unmount` is the effect's
cleanup, which aborts the backfill, disarms the timers and closes the newest socket.
A connection ends by a close or by an error ("failing"); the live session's `onerror` closes the
hook's variable (`CloseNewest`), so the error of an older socket takes the newest with it, as
does the closing of a socket that is not yet connected.

### Outbreak

A tick is sequential code without an await until the model calls. When there is one to make
(`CallsModels`), `Tick` replaces the world and holds the drafts back (`pending`); `ModelsAnswer`
adds what the real agents did and publishes all of them, and `EndsInACall`, a stop or an exception
at that await, never publishes any. Without a call nothing comes between and the events are
published in the same action. `Opens` is a browser that is opened at any moment, with the world of
that moment for its snapshot. The parts of a tick are functions from an outcome `[world, drafts]`
to the set of possible outcomes, one for each result of the random draws, composed in the code's
order: `RunScenario` over `ActiveScenarios`, `Detection`, `RealAgents`. The state of a node is its
security state, who compromised it and when. `live` and `replay` are the browser's reducer folded
over the events from the first snapshot, and over what a replay of the stored log fetches
(`StoredAfterSnapshot`). Configurations are initial states, so that one run covers several.

### ExperimentRun

`loop` is where the runner's task is: before the `while`, waiting for a resume, woken but
not yet run, inside a model call, cancelled, done, or failed. `Resume` only wakes the task;
a pause may come before it runs, and `asyncio.Event.wait` does not look again, so `RunTick`
is possible from "woken" while paused. `FirstStop` cancels and awaits; `StopAgain` awaits
the same task; `StopPublishes` emits EXPERIMENT_STOPPED and sets the terminal event. The
writer is `Drain` (one pass over the queue after `asyncio.wait` returned), `WriteBatch`
or `WriteFails`, `Finalize`, `CheckComplete`, `UpdateRow` or `FinalizeFails`. `Die` is a crash
or shutdown at any moment: what the database was doing may or may not have been committed.
Events are numbers; which events there are is `Outbreak`'s business.

### ModelGateway

A caller is one asyncio task inside `complete()`; what it does between two awaits is one
action, so the budget is looked at and counted in the same step in which the semaphore is
obtained (`Enters`, `Admitted`). The semaphore is Python 3.12's: first come first served, a
woken waiter owns its permit before it runs, and it counts as locked until then. `Fails` is
a provider error or the timeout, `Raises` any other exception, which ends the gather and the
run's task while the other callers go on. `Stop` cancels every caller of the gather; each
finds out when it next runs (`Cancelled`), whether it was new, waiting, woken, calling or
backing off.

### IncidentView

Adds to `RuntimeSession` the log its batches form, with the metadata the page reads (path,
replaced worker, step and test result), and the nodes of the last snapshot frame. Each panel is an
operator of them, named as the function in `lib/runtime/`: `deriveIncident`, `deriveVerdict`,
`deriveTestEvidence`, `deriveProvenance`, `deriveNarrative`, `buildStage`. Every action is one
of the session's with its log entries; `Attach` is a snapshot frame at any moment. The story
names a worker by its role (`Role`); the run gives all workers one role, so that several
share a beat, which is the harder case. The screen
is seen at its best: events are there once published, the summary is the newest.

### ControlConsole

A click, the server's handling of its request and the arrival of the answer are three
actions. `control` is the reducer's state; `requests` holds what is on its way, with the
operation id and the revision it was sent with. `Break` loses an exchange before or after the
server acted, `Restart` empties the backend's registry, `Reload` starts the page anew from the
stored run. A console can lose sight of a run only when an answer about it was lost
(`unheard`), and the properties say so.

### LaunchForm

A configuration is reduced to the fields that bounds and warnings tell apart. The form is
opened by two pages; `Submit` hands the draft to the route, which refuses a value out of
range or a vLLM run without a server; `RunEnds` and `Rerun` bring an old configuration back.

### Comparison

A flow is one asynchronous call, `runExperimentToCompletion` or `loadHistoricalArm`, and goes
on when its page is left. `Releases` and `Settles` are what its result does to the hook: to
show it, and to free the page for the next click, which happens when both arms are done.
Numbers are reduced to the moment at which they were read. `Dies` is the end of a run's task by an
uncaught exception (`model_kills_run`): the run reports "running" from then on.

### GraphView, Archive and Workspace

`GraphView` is `reduce()` over records, and `Shows`, which says the same of a list of events by
quantification. Its folds are recursive functions, which can be proved about. `Archive` has the
two pages over stored runs, one of them per behaviour. In `Workspace` an action is a callback
and what React does before the next one, render and effects included: `Redraw` is the effect
keyed by `structureKey`, `Effects` the recolouring.
Places in the run are numbers of events, so "newer" is a comparison.

## 3. The runs

| Run | Question | Bounds | Distinct states |
|---|---|---|---|
| `session` | containment, the cascade, events against status, and the screen | 3 workers, 1 artifact, 3 paths, 4 calls | 887,052 (symmetric) |
| `stream` | is the stream a gapless feed; is a vanished client's handler dropped | 2 connections, buffer 2, 4 events | 17,150 |
| `stream_hooks` | both hooks over broken connections, gaps and unmounting | 5 sockets, buffer 1 | 42,310 |
| `outbreak` | engine, events and views | 4 agents, 2 sentinels, 1 credential, 3 ticks, 4 configurations | 17,903 |
| `gateway` | budget, permits, and the end of every call | 4 callers, 2 permits, 3 requests, 1 retry, 2 ticks | 115,881 |
| `experiment_run` | runner and writer to the end of the run | 2 stops, 2 ticks, 2 events per tick, batches of 2 | 50,872 |
| `console` | late answers, lost exchanges, reloads | 2 runs, 4 clicks, 1 loss, 1 reload | 654,444 |
| `launch_form` | what the form can submit | 3 edits in all | 113,100 |
| `comparison` | overlapping comparisons and failures | 2 runs or records, 2 clicks, 2 pages, 1 loss | 201,126 |
| `archive` | replay against a writer; pages of a list | 7 events, 3 clicks, 6 runs, pages of 2 | 257,916 |
| `workspace` | one picture from three sources | 3 nodes, 3 clicks, 1 failed poll | 477,230 |

What they show, in words:

- `session`: a trusted artifact always belongs to an active worker; lost trust returns only by a
  fresh recording; a quarantine is the last event of one batch and lists exactly what lost trust;
  folding a call's events over the status before it (security states, workflow state, both flags)
  gives the status after it. `compromised_by` and the edges of a snapshot are in no event, so a
  page opened early never learns of them and nothing is claimed of them. On the screen: lights and
  counts are what the session would report, but that a task reported complete as "pytest" turns
  the test light red; no quarantined worker is drawn as one of the team, the cascade stays with
  the request that caused the first quarantine, the story counts every event once. Four calls are
  enough for record, quarantine, reassign and one more; three workers for an offender, its
  replacement and a bystander; two protected paths for a second attack on another one.
  `MCRuntimeSession.cfg` checks the session alone with two artifacts (390,327 states).
- `stream`: at every moment wire, pending frames and queue join what the client has to the
  end of the log; every step of the system is a step of `GaplessFeed` or a stutter. A buffer
  of 2 against 4 events puts reconnects inside, at the edge of and outside the buffer.
- `stream_hooks`: the simulator's hook has one live socket and none after unmounting, takes
  no frame for a gap and applies no event twice; either hook's view catches up, whichever
  connection the error of another takes with it.
- `outbreak`: from every patient zero, between two ticks a view folded from the events is the
  world, also of a browser opened while models were called; during the calls the drafts held
  back are the difference. A run that is stopped or fails in a call never publishes them, and a
  browser that was watching stays behind the world. A chain of `compromised_by` ends at patient
  zero. A triangle with a tail has several sources for a
  target, agents of different degree, and a border at which an outbreak can die.
- `gateway`: more callers than permits and more than requests; a stop, an error or an
  exception at any await. Two ticks carry the count over.
- `experiment_run`: one EXPERIMENT_STOPPED, last; `is_complete` means complete; every stop
  is answered, every end finalized. Two stops give all the orders of a first and a later
  one; two ticks of two events exceed a batch.
- `console`: no run goes on unwatched, a run shown as paused does not tick, an end is seen. A run
  shown as paused may have ended (below). Two runs are enough for an old answer to meet a new run,
  four clicks for start, pause, resume and reset.
- `launch_form`: no path through presets, toggles and old configurations selects both
  scenarios that advance the tick, and a refusal was announced while its fields were shown.
- `comparison`: the two arms on screen are of one comparison; a number in the table was read
  of a run that was over, and a record with a gap carries its caveat; every arm settles,
  except one that polls for a run the backend no longer has or whose task has died.
- `archive`: the view is the fold of exactly the events before the slider; an unmarked replay
  is whole although its writer was at work; under each status filter no row that still matches
  is skipped, and none is shown twice. An incomplete run that ends between two pages is in
  neither, rightly.
- `workspace`: the graph shows the newest of poll and frames; a traced path stands out, by
  circles and, from two nodes on, by numbers (a search from a node to itself finds the path of
  that node, which has none); a late
  chain is not taken for another node's, and a live run's polls go on.

Deadlock is not checked where runs end, logs are bounded, or a user has no clicks left
(`CHECK_DEADLOCK FALSE`). Each module has a type invariant, `TypeOK`; the runs check those of
the session and the runner, and the other configurations pass with `TypeOK` added.

### Fairness

Safety properties use no fairness. Liveness uses weak fairness, with one exception, on what the
program itself will do: the event loop runs every ready task (`EventStream.Handler`, `LoopStep`,
`WriterStep`, `StopEnds`, `ModelGateway.Runs`), a model call ends by its timeout and a query by an
answer or an error (so a step that ends it is always enabled), timers fire, a request is handled
and answered or fails, a sent frame arrives unless the connection breaks. A run of a comparison
whose task has not died ends, as it is bounded by `max_ticks` and nobody pauses it. The exception
is the acceptance of a connection in `StreamClient`, which is strongly fair: after a gap the live
session's hook has two connections (`OneSocket` below), and the error of each may close the other
before it is made. The delay of a retry, at least a quarter of a second, keeps this from recurring
for ever; the model has no length for it. Nobody has to click, send a request, publish an event,
resume a run, or break or keep a connection; the process may die (`~up` is an accepted end).
Failures are bounded by a counter (`MaxLost`, `Drops`) instead of being assumed away.

### Where code and documents disagree

One run checks what a comment says and shows a behaviour of the code that contradicts it:
`model_kills_run`. "A model outage degrades this attempt to a controlled failure, never the
live run", but a model answer without text is an exception nobody catches: the run neither
goes on nor ends.

Configurations kept beside the runs show further ones; each checks one property, which TLC
refutes:

| Configuration | Property | Behaviour |
|---|---|---|
| `MCIncidentViewStage.cfg` | `StageIsUpToDate` | the stage prefers the stream's node map (`stage.ts:110`), which no AGENT_RECOVERED changes: a page opened after the reassignment draws the replacement as healthy for ever after the session recovered |
| `MCIncidentViewChain.cfg` | `CascadeIsOneChain` | a second violation on another path: its request is shown as the origin of the first denial (`AttackBanner.tsx:9`) |
| `MCIncidentViewLinks.cfg` | `LinksAreProved` | between two frames of one cascade the containment panel draws a link whose event is not there yet (`ContainmentPanel.tsx:16`) |
| `MCStreamClientSockets.cfg` | `OneSocket` | a gap of the live hook schedules a reconnect, and so does the `onclose` that it causes: two sockets feed one view (`useRuntimeStream.ts:95`) |
| `MCOutbreakPlane.cfg` | `PlaneStaysCompromised` | `real_agent_step` rebuilds the world without `compromised_graph_nodes`: sentinels and credentials heal |
| `MCOutbreakReplay.cfg` | `ReplayShowsTheRun` | events of the first tick carry `sim_tick` 0 and fall into the replay snapshot, which shows the world before it |
| `MCExperimentRunReplay.cfg` | `RowCanBeReplayed` | a stop inside a model call records a tick of which only one half was run |

Observed while modelling, without a configuration:

- a pause right after a resume lets one tick run (`orchestrator/runner.py:94`); a run paused
  during the sleep after its last tick becomes finished, and the console, which does not poll a
  paused run, shows it as paused until it is reset, as resume() of a finished run is refused
  (`orchestrator/runner.py:92`);
- a client may complete a task as "pytest" (`routes_runtime.py:395`), which the screen shows as a
  red test run while the session's own result stays (`verdict.ts:90`);
- `compromised_by` of a quarantined worker is in the snapshot (`runtime/session.py:443`) and in no
  event;
- a reassignment clears `recovery_required` although another quarantined worker has no
  replacement (`runtime/session.py:513`); nothing calls `session.quarantine()`;
- an event between the two backfill requests of the live hook is taken for a gap
  (`useRuntimeStream.ts:131`); the hook recovers;
- a new session without a reset keeps the explanation of the one before it
  (`demo/page.tsx:104`), and lights derived from the last 200 events go out in a longer session;
- a form opened on an active configuration shows the preset "baseline"; rates of zero and
  propagation alone hide warnings of the form; a vLLM run is refused without a banner when
  prompt_injection is deselected and real agents remain;
- a poll for a run that is gone, or whose task died, is repeated for ever
  (`runToCompletion.ts:93`); failing to read the metrics leaves the run unstopped; the compare
  page ignores a changed URL while it loads, and results stay beside the chips of a changed
  configuration;
- the answers to two overlapping path searches are applied in the order they arrive
  (`AttackPathFinder.tsx:43`); a node keeps its label only while the layout leaves room
  (`TopologyGraph.tsx:340`); until the next request is answered the
  inspector has the chain of the node before (`useProvenance.ts:15`).

## 4. What is proved

TLAPS proves, for all values of the constants and without bound on the number of steps:

For `ModelGateway`, in `EngineProofs`: `BudgetHolds`, `PermitsHold` and `CallsHold`, for every
number of callers, permits, requests and retries. The budget needs nothing but its guard in the
step that counts. The permits need the inductive invariant `IInv == TypeOK /\ WithinBudget /\
PermitsAreKept /\ Waiters /\ Active`: the queue holds waiting callers, each once, so that waking k
of them is k permits taken (`FirstWaiters`, `GrantKeeps`); a cancelled caller is on its way, so
that its cancellation gives back what it holds. Every caller's step is an instance of one lemma,
`CallerMoves`. `CallsHold` bounds the calls of all requests together, by an account instead of a
sum: `Ledger` says that the calls made and the retries still to come (`ToCome`, the pairs of a
caller on its way and a retry it may yet make) are no more than the admitted requests times
`MaxRetries + 1`. Admission adds a request and its row of retries, a retry takes one pair for one
call, every way a call ends drops the rest of its row. `Tries` bounds the index of a caller's
retry by where it is. Assumptions: finitely many callers, at least one permit.

For `Outbreak`, in `EngineProofs`: `EventsAreEnough` and `ChainsEnd`, for every topology, list of
scenarios, threshold, number of ticks and set of real agents. The invariant `OutbreakInv` has two
parts that a step must keep through every scenario the tick may run, so both are stated of an
outcome, not of a state: `Good(o, view)` says that a browser which showed `view` shows the world
of `o` once it has folded the drafts of `o`, and that the compromises of that world form chains;
the invariant holds it of the world, the drafts held back and the browser's view. Each scenario,
detection and the attempts of real agents are shown to turn good outcomes into good ones
(`TickedIsGood`, `PlaneMovesIsGood`, `DetectionIsGood`, `RealAgentsIsGood`), so any list of
scenarios does (`SweptIsGood`).

- Events: the lemma `ClaimsTold` is why a target claimed by several sources in one tick ends alike in
  the engine and in the browser. Only the claim of the first source is not marked as repeated, and
  a marked one, coming before or after it, leaves who and when as they are. `ReduceJoins` splits
  the fold of a tick's drafts into its parts, `RankTells` says that sorting loses nobody.
- Chains: `Rooted` gives each touched agent a depth that goes down along `compromised_by` and is
  less than the number of those touched. The tick of a compromise would not do as this number: the
  attempts of real agents and the propagation of the next tick carry the same tick. A new victim
  takes the number of those touched before as its depth (`InfectKeepsChains`); that only healthy
  agents are attacked, who have no chain yet, is what this needs, and a quarantine changes no
  chain. As no depth exceeds the number of agents, that many steps back end at patient zero.

Assumptions: agents are finitely many numbers, an edge joins two of them, `None` is no number.

For `LaunchForm`, in `ControlConsoleProofs`: `TickHasOneOwner` and `RefusalsAreForeseen`, for
every text a field may hold and any number of edits. The inductive invariant `IInv` says that
every configuration in the form, in a launch and in a run is `Sound` (typed, in bounds, one owner
of the tick), that a run has a model, and that a refusal was announced. `ChangeIsSound` covers the
presets and the edits alike. Assumption: what a field reads as is an integer.

`ControlConsoleProofs`: `NothingForgotten`, `PausedRunsDoNotTick` and `TypeSafe`, for any number of
runs, clicks, page loads and lost exchanges. Neither property is inductive, as each depends on
what the answers on their way will do once they are read. The invariant is `IInv == Types /\
Screen /\ Alone /\ Pauses /\ Ours /\ Each`:

- `Screen` ties what is shown to what the next page would adopt, and "finished" or "stopped" to
  a run that has ended; a page still hydrating has shown nothing yet;
- `Alone`: a page has one control request on its way, and one adoption;
- `Each` says of a request that an answer of this page is still true when it is read, whatever
  was handled since (`AnswerIsTrue`), and that the request is about the run the console
  shows (`Mine`): a create leaves no living run behind, a poll as new as the screen
  meets no pending operation;
- `Pauses`: an answer that can make the screen say "paused" is about a run that is paused,
  ended or unheard of, unless the page's own resume was handled and is about to be read;
- `Ours`: a living run is shown, being adopted, being created, or unheard of.

A click, the six routes, the ways of losing an exchange and the readers of each kind of answer
have a lemma each. Assumption: `None` is neither a number, a name nor an answer.

`ComparisonProofs`: `OnePair`, `TrueNumbers` and `TypeSafe`, for any archive and any number of
runs, events, visits and comparisons. In `IInv == Types /\ Rows /\ (each flow is OnTrack) /\ Pair
/\ Results`, `OnTrack` says what a flow knows in each phase: from "catching up" on its run is
over, what it measured is the last there will be, and what it loaded as complete is complete;
`Pair` that the flows of the page in view are of one comparison, the one its arms are of, and hold
`runningRef`, so that the next click waits for both; `Results` that an arm that is done has the
numbers of a run that was over, or carries the caveat. Steps of the backend leave all of it true
because a run that is over stays so and keeps its numbers (`Onward`). The flows of a page left
behind go on and are on track too, but may change nothing on screen. `MinIsFresh` gives a created
run a number no run has used. Assumptions: bounds are natural numbers, a record's id is no run's
number, `None` is neither.

`EventStreamProofs`: `NothingIsLost` and `StreamImplementsFeed`, the refinement of
`GaplessFeed`, for every buffer size, number of connections, batch and log. The invariant
`IInv` (`StreamJoins`) says that the buffer is the newest run of the log (`Run`: n numbers
after a start, in order), empty only before the first event; that each subscribed handler's
queue starts where its frames end and reaches the end of the log (`HandlerJoins`), its client
there or not; and that the current connection's wire ends at `last_sent` and begins with a
snapshot not older than what the client has, or with the event after it (`WireJoins`). That a
reconnect joins needs `RingSize > 0`: an empty buffer then means an empty log. `After`
is a filter in the code; as the log is in order it is a suffix, and is written as one.
`GoneHandlersLeave` is liveness and stays with TLC.

`StreamClientProofs`: `OwnsTheSocket` and `NothingTwice`, for the simulator's hook, every log,
every replay buffer and any number of broken connections. The invariant `IInv` (`HookSafe`)
says that a mounted hook has one socket and no timer, or one timer, at `ResumeAt`, and no
socket; that after the cleanup it has neither; that the next frame of an open socket is the
one expected, or a snapshot not older than that (`InStep`); and that whatever was applied
lies behind it (`Behind`). Each path that ends a connection therefore has one successor, and
a reconnect at `ResumeAt` meets no gap. Nothing of the kind is claimed for the live session's
hook, which does meet gaps (`OneSocket`, section 3). Assumption: there is a socket.

`RuntimeSessionProofs`: `TypeCorrect`; `Containment` (a trusted artifact
has an active owner), `QuarantineAccounted`, `RecoveryFlag`; and three action properties,
`TaintStays`, `CleanContext` and `OneBatch`. The three invariants are proved together (`SessionSafe`),
each action separately, given the type invariant; the event batch is the only part of
the types that needs lemmas of its own (`PublishType`, `RecoveredDrafts`). `TaintStays`
rests on `TrustStep` (nothing but `record_artifact` adds to the trusted artifacts),
`CleanContext` on `WhoIsCreated` (of all the batches, only that of a reassignment names
artifacts to a new worker) and on `Containment`: the filter `worker_id != own id` of
`trusted_context_for` says nothing about quarantine, it is the taint that keeps such work
out. `OneBatch` follows from `WhoIsQuarantined`: only the two quarantine calls quarantine
anybody. `StatusIsCarried`: a client that folds the events of any call into the status it had
has the status after the call; what a snapshot has beyond it, `compromised_by` and the edges, no
event carries. A batch may be as long as the team (a recovery tells every
worker), so `FoldOfBatch` is proved by induction on the sets of its places: the recursive
function the fold is defined by exists, and its value is the last of any list of views in
which each follows from the one before. The proof of a call then gives that list; that of
`Recover` has as its view after i events the workers told so far, who are all in the end
because the batch names each of them.

The screen: `ViewIsOfTheSession` (every step of `IncidentView` is a step of the session or leaves
it alone) carries all of that over. `ScreenAgrees` and `CascadePinned` rest on `ScreenInv`, what
the log tells of the session: its batches end to end, numbered by place (`Logged`); a quarantine
in it if and only if the alarm was raised (`Alarm`); each denial is followed by its violation,
anomaly and quarantine, of the same worker, or comes after an earlier quarantine (`Cascades`), so
the first quarantine's denial is the first there is; a recovered workflow was told (`Recovered`);
the last task reported complete as "pytest" has the session's test result or none (`LastTest`); as
many requests as model calls (`Counted`); and a quarantined worker with a node has a quarantined
node (`Drawn`). Both theorems say `Len(log) <= EventLogCap`, the page's own limit: past it the
page has only the newest events, the counts fall behind and the first cascade is forgotten, so
neither property is true there. The runs stay below the cap, which is 100 in them. `ScreenSafe`,
the invariant itself, needs no such bound.

`StoryTold`, under the same cap and for any roles: the events from one beat to the next are as
many as the beat counts and all of the role it names, and no two neighbours read the same. The
step of this fold reads the whole log, since whether an event is a milestone depends on which
events came before it. `FoldExists` gives the list of all the stories told so far; `Story`
says of each of them, for the prefix of the log it is about, what the property says of the last,
together with where its last beat began. An event is silent, a milestone, one more of the
open beat or the first of a new one, and each of these keeps `Story` for one event more.

Assumptions: `Worker` is finite and does not contain `None`; `MaxStep` is a natural number; `None`
is neither a number nor a Boolean, and not a path.

`ExperimentRunProofs`: `RunTypeCorrect`, `OneStoppedEvent`, `QueueIsDrained`,
`CompleteIsComplete`, `RowIsTheEnd`, `EndIsFinal`. None of these is inductive. The invariant is
`IInv == TypeOK /\ Life /\ OneStops /\ Ledger /\ Final`:

- `Life` and `OneStops` say who may still publish: a running loop; once stopped, only the one
  request that is "stopping", and only once; after the terminal signal, nobody;
- `Ledger` accounts for every event taken from the queue: stored, lost, or in the batch; and
  a batch that saw the signal was cut after it;
- `Final` says that finalizing begins with the signal set and the queue empty, and that what
  it then reads (status, tick, last seq, completeness) stays true while it awaits the
  database, which is where `Life` is needed: there is nobody left to change it.

Two lemmas carry the arithmetic: `PrefixTaken` (a pass takes a prefix of the queue) and
`NoRoomForAGap` (as many stored events as numbers leave no gap, the argument behind
`cnt = last_seq + 1`). Assumptions: the bounds are natural numbers, the batch cap positive.
`Stopper` is arbitrary, also infinite.

`GraphViewProofs` has `PagesJoinUp`, `ReplayShowsThePrefix` and `UnmarkedIsWhole` of `Archive`, and
`GraphIsTrue`, `TraceOfTheSelected` and `WorkspaceTypes` of `Workspace`. It begins with the two
recursive functions of `GraphView`: `OnlyIs` says which elements a filter keeps and where they
come from, and that a list with these properties is the filter's; `FoldIsComputed` that the
value of the fold is the end of any chain of views in which each is the reducer's answer to
the one before. Both are proved by the least place at which they could fail. `ShowsStep` is
the heart of the replay: one step of `reduceEvent` is one event more in `Shows`, for the
nodes, both counters and each agent's incidents under their cap.

- `ReplayInv == StoreInv /\ LoadInv /\ PlayInv`. `StoreInv`: what is stored is a part of what
  the writer has handled, and a row says "complete" only when everything is stored. `LoadInv`:
  what a load has so far is ascending, and is the log from the first event after tick 0 up to
  the place where the next page begins, unless the row was incomplete when it was read; it is
  read first, so a log that was complete then no longer changes, and the pages that follow
  join up. `PlayInv`: the view `Shows` the first `played` events, and after a seek, which folds
  anew, again.
- `ListInv`: the rows descend, the cursor is the last row, and every run that matched when the
  table was mounted, still matches and is not older than the last row is a row. A page of the
  answer has all that match between its ends (`ListPageIs`), a run that matches now but did not
  when the table was mounted is not claimed, and one that is added is newer than all that were
  there.
- `WorkspaceInv`: what Sigma has drawn is a function of what the page has, the newest frame and
  the newest poll. That holds because building for a new structure key and recolouring for
  the same key give the same drawing: the key tells the node set. A path of the finder is one of
  the graph, so tracing it marks nodes and edges that are drawn; and of the
  requests for a chain only the selected node's may still be taken; once it is answered, the
  chain in the inspector is that node's.

Assumptions: the log's events are numbered by place and their ticks do not go back
(`LogAssumption`, what `emit` guarantees); caps and page limit are positive; `None` is no
number and no structure key; finitely many nodes.

Checked by TLC only: the live session's hook of `StreamClient` and `CatchesUp`; the type
invariant of `Archive`; and all liveness (`GoneHandlersLeave`, `EndIsSeen`, `OperationsEnd`,
`EveryArmSettles`, `InsightsGoOn` and the like).
Liveness under fairness and ENABLED are out of the prover's reach, and so are the library's
recursive definitions (`SelectSeq` among them) and its induction theorems, which take an operator
as a parameter. `Toggled` of `Archive` removes with one of these. Recursive
functions are dealt with by the least number at which a claim could fail (`UpTo`), as in
`StatusIsCarried`, `StoryTold`, `FoldIsComputed` and `ReduceAllIs`.

## 5. What is not modelled, and why

- Randomness: a draw is a free choice of its outcome, so that equal seeds give equal runs is
  not stated. `rng` is a hash of its arguments.
- Path spelling and the policy's tables: text in, verdict out, no state. The verdict is a
  choice in `RuntimeSession`.
- The WorkSwarm flow's own order: `RuntimeSession` allows every order of its calls, so what
  holds there holds for the flow; that the flow resets what it changed is not stated.
- The tick's interval and the playback's speed: they scale a sleep, which has no length here.
- The demo page's poll, its reset and the fetching of an explanation; the stage's columns and
  edges; pytest's counts.
- Metrics, remediation, explanations: pure functions of a finished log. Of graph analysis
  `Workspace` has path search and reachability, not the ranking.
- Telemetry, benchmark, importer, insight pages, rendering, migrations: output, input,
  declarations.

## 6. Plan

What is left, in this order:

1. `AuthFixFlow`: the WorkSwarm flow against `RuntimeSession`: fail closed, reset.
2. The demo page's poll and explanation over `IncidentView`: what a new session inherits.
3. To prove: the gap checks of the live session's hook, as `StreamClientProofs` has them for the
simulator's.
