--------------------------- MODULE ComparisonProofs ---------------------------
(* Theorems about Comparison for any archive and any number of runs, events,     *)
(* page loads, comparisons, broken exchanges and restarts.                       *)
EXTENDS Comparison, FiniteSetTheorems, WellFoundedInduction, TLAPS

Phases == {"creating", "polling", "catching up", "measuring", "stopping", "loading"}
RunRecord == [status : {"none", "running", "dead", "finished", "gone"}, last_seq : 0..MaxSeq]
RowRecord == [final : BOOLEAN, is_complete : BOOLEAN \cup {None}]
ArmRecord ==
    [status : {"idle", "running", "done", "error"}, incomplete : BOOLEAN,
     metrics : 0..MaxSeq \cup {None}, nth : 1..MaxClicks \cup {None},
     of : Run \cup Record \cup {None}]
FlowRecord ==
    [mount : Nat, arm : Arm, nth : 1..MaxClicks, phase : Phases, run : Run \cup Record \cup {None},
     final : 0..MaxSeq, seen : 0..MaxSeq, socketOpen : BOOLEAN,
     metrics : 0..MaxSeq \cup {None}, complete : BOOLEAN \cup {None}]

Types ==
    /\ run \in [Run -> RunRecord] /\ record \in [Record -> RowRecord]
    /\ mount \in [id : 1..MaxMounts, kind : Page] /\ runningRef \in BOOLEAN
    /\ arms \in [Arm -> ArmRecord] /\ flows \subseteq FlowRecord
    /\ clicks \in 0..MaxClicks /\ lost \in 0..MaxLost

Over(r) == run[r].status \in {"finished", "gone"}

Rows == \A e \in Record : record[e].is_complete = TRUE => record[e].final

OnTrack(f) ==
    /\ f.mount <= mount.id
    /\ f.phase = "creating" => f.run = None
    /\ f.phase \in {"polling", "catching up", "measuring", "stopping"} =>
         f.run \in Run /\ run[f.run].status # "none"
    /\ f.phase \in {"catching up", "measuring", "stopping"} => Over(f.run)
    /\ f.phase = "stopping" => f.metrics = run[f.run].last_seq
    /\ f.phase = "loading" =>
         f.run \in Record /\ (f.complete = TRUE => record[f.run].is_complete = TRUE)
    /\ f.socketOpen => f.run \in Run

Mine(f) == f.mount = mount.id

Pair ==
    /\ \A f \in flows : Mine(f) => runningRef
    /\ \A f, g \in flows : Mine(f) /\ Mine(g) => f.nth = g.nth
    /\ \A f \in flows : Mine(f) => \A a \in Arm : arms[a].nth \in {None, f.nth}
    /\ \A a, b \in Arm : arms[a].nth # None /\ arms[b].nth # None => arms[a].nth = arms[b].nth

TrueResult(s) ==
    s.status = "done" =>
      \/ s.of \in Run /\ Over(s.of) /\ s.metrics = run[s.of].last_seq
      \/ s.of \in Record /\ (s.incomplete \/ record[s.of].is_complete = TRUE)

Results == \A a \in Arm : TrueResult(arms[a])

IInv == Types /\ Rows /\ (\A f \in flows : OnTrack(f)) /\ Pair /\ Results

----------------------------------------------------------------------------
(* What the steps of the backend leave as it was *)

\* A run that is over keeps its numbers, a row without a gap stays one.
Onward ==
    /\ run' \in [Run -> RunRecord] /\ record' \in [Record -> RowRecord] /\ Rows'
    /\ \A r \in Run : run[r].status # "none" => run'[r].status # "none"
    /\ \A r \in Run : Over(r) =>
         run'[r].status \in {"finished", "gone"} /\ run'[r].last_seq = run[r].last_seq
    /\ \A e \in Record : record[e].is_complete = TRUE => record'[e].is_complete = TRUE

LEMMA StayOnward ==
    ASSUME IInv, UNCHANGED backend
    PROVE  Onward
<1>1. run' = run /\ record' = record
  BY DEF backend
<1> QED
  BY <1>1 DEF IInv, Types, Rows, Onward, Over

LEMMA OnTrackKept ==
    ASSUME IInv, Onward, mount' = mount, NEW f, OnTrack(f)
    PROVE  OnTrack(f)'
BY DEF OnTrack, Onward, Over

LEMMA ResultKept ==
    ASSUME Onward, NEW s, TrueResult(s)
    PROVE  TrueResult(s)'
BY DEF TrueResult, Onward, Over

LEMMA BackendSafe ==
    ASSUME IInv, Onward, UNCHANGED <<mount, runningRef, arms, flows>>,
           clicks' \in 0..MaxClicks, lost' \in 0..MaxLost
    PROVE  IInv'
<1>1. mount' = mount /\ runningRef' = runningRef /\ arms' = arms /\ flows' = flows
  OBVIOUS
<1>2. Types'
  BY <1>1 DEF IInv, Types, Onward
<1>3. \A f \in flows' : OnTrack(f)'
  BY <1>1, OnTrackKept DEF IInv
<1>4. Pair'
  BY <1>1 DEF IInv, Pair, Mine
<1>5. Results'
  BY <1>1, ResultKept DEF IInv, Results
<1> QED
  BY <1>2, <1>3, <1>4, <1>5 DEF IInv, Onward

LEMMA LoseBound ==
    ASSUME IInv, Lose
    PROVE  lost' \in 0..MaxLost /\ clicks' \in 0..MaxClicks
<1>1. MaxLost \in Nat /\ lost \in 0..MaxLost /\ lost < MaxLost /\ lost' = lost + 1 /\ clicks' = clicks
  BY ComparisonAssumption DEF IInv, Types, Lose
<1> QED
  BY <1>1 DEF IInv, Types

LEMMA PublishSafe ==
    ASSUME IInv, NEW r \in Run, Publish(r)
    PROVE  IInv'
<1>1. run \in [Run -> RunRecord] /\ MaxSeq \in Nat
  BY ComparisonAssumption DEF IInv, Types
<1>2. run[r] \in RunRecord /\ run[r].status = "running" /\ run[r].last_seq < MaxSeq
  BY <1>1 DEF Publish
<1>3. run[r].last_seq + 1 \in 0..MaxSeq
  BY <1>1, <1>2 DEF RunRecord
<1>4. /\ run' = [run EXCEPT ![r].last_seq = run[r].last_seq + 1] /\ record' = record
      /\ UNCHANGED <<mount, runningRef, arms, flows, clicks, lost>>
  BY DEF Publish, hook, counted
<1>5. [run[r] EXCEPT !.last_seq = run[r].last_seq + 1] \in RunRecord
  BY <1>2, <1>3 DEF RunRecord
<1>6. /\ run'[r].status = "running" /\ run' \in [Run -> RunRecord]
      /\ \A o \in Run : o # r => run'[o] = run[o]
  BY <1>1, <1>2, <1>4, <1>5 DEF RunRecord
<1>7. Onward
  BY <1>2, <1>4, <1>6 DEF Onward, IInv, Types, Rows, Over
<1> QED
  BY <1>4, <1>7, BackendSafe DEF IInv, Types

LEMMA FinishSafe ==
    ASSUME IInv, NEW r \in Run, Finish(r) \/ Dies(r)
    PROVE  IInv'
<1>1. run \in [Run -> RunRecord]
  BY DEF IInv, Types
<1>2. run[r] \in RunRecord /\ run[r].status = "running"
  BY <1>1 DEF Finish, Dies
<1>3. PICK end \in {"finished", "dead"} :
        /\ run' = [run EXCEPT ![r].status = end] /\ record' = record
        /\ UNCHANGED <<mount, runningRef, arms, flows, clicks, lost>>
  BY DEF Finish, Dies, hook, counted
<1>4. [run[r] EXCEPT !.status = end] \in RunRecord
  BY <1>2 DEF RunRecord
<1>5. /\ run'[r].status = end /\ run' \in [Run -> RunRecord]
      /\ \A o \in Run : o # r => run'[o] = run[o]
  BY <1>1, <1>2, <1>3, <1>4 DEF RunRecord
<1>6. Onward
  BY <1>2, <1>3, <1>5 DEF Onward, IInv, Types, Rows, Over
<1> QED
  BY <1>3, <1>6, BackendSafe DEF IInv, Types

LEMMA FinalizeSafe ==
    ASSUME IInv, NEW e \in Record, Finalize(e)
    PROVE  IInv'
<1>1. record \in [Record -> RowRecord] /\ record[e].is_complete # TRUE
  BY DEF IInv, Types, Rows, Finalize
<1>2. PICK whole \in BOOLEAN : record' = [record EXCEPT ![e] = [final |-> TRUE, is_complete |-> whole]]
  BY DEF Finalize
<1>3. run' = run /\ UNCHANGED <<mount, runningRef, arms, flows, clicks, lost>>
  BY DEF Finalize, hook, counted
<1>4. [final |-> TRUE, is_complete |-> whole] \in RowRecord
  BY DEF RowRecord
<1>5. /\ record' \in [Record -> RowRecord] /\ record'[e].final = TRUE
      /\ \A o \in Record : o # e => record'[o] = record[o]
  BY <1>1, <1>2, <1>4
<1>6. Rows'
  BY <1>5 DEF IInv, Rows
<1>7. Onward
  BY <1>1, <1>3, <1>5, <1>6 DEF Onward, IInv, Types, Over
<1> QED
  BY <1>3, <1>7, BackendSafe DEF IInv, Types

LEMMA RestartSafe ==
    ASSUME IInv, Restart
    PROVE  IInv'
<1>1. run \in [Run -> RunRecord]
  BY DEF IInv, Types
<1>2. run' = [r \in Run |-> IF run[r].status = "none" THEN run[r] ELSE [run[r] EXCEPT !.status = "gone"]]
      /\ record' = record /\ UNCHANGED <<mount, runningRef, arms, flows>>
  BY DEF Restart, hook
<1>3. \A r \in Run : /\ run'[r] \in RunRecord /\ run'[r].last_seq = run[r].last_seq
                     /\ run[r].status = "none" => run'[r] = run[r]
                     /\ run[r].status # "none" => run'[r].status = "gone"
  BY <1>1, <1>2 DEF RunRecord
<1>4. run' \in [Run -> RunRecord]
  BY <1>2, <1>3
<1>5. Onward
  BY <1>2, <1>3, <1>4 DEF Onward, IInv, Types, Rows, Over
<1> QED
  BY <1>2, <1>5, BackendSafe, LoseBound DEF Restart

----------------------------------------------------------------------------
(* The page *)

LEMMA NoneIsNoTruth == None # TRUE /\ None # FALSE
BY ComparisonAssumption

LEMMA BeginSafe ==
    ASSUME IInv, NEW pair, Begin(pair),
           \A a \in Arm :
             /\ pair[a] \in FlowRecord /\ pair[a].mount = mount.id /\ pair[a].nth = clicks + 1
             /\ pair[a].socketOpen = FALSE /\ pair[a].complete = None
             /\ \/ pair[a].phase = "creating" /\ pair[a].run = None
                \/ pair[a].phase = "loading" /\ pair[a].run \in Record
    PROVE  IInv'
<1>1. /\ clicks < MaxClicks /\ clicks' = clicks + 1 /\ ~runningRef /\ runningRef' = TRUE
      /\ arms' = [a \in Arm |-> [IDLE_ARM EXCEPT !.status = "running"]]
      /\ flows' = flows \cup {pair[a] : a \in Arm}
      /\ run' = run /\ record' = record /\ mount' = mount /\ lost' = lost
  BY DEF Begin, backend
<1>2. Types /\ mount.id \in Nat /\ clicks \in 0..MaxClicks /\ MaxClicks \in Nat
  BY ComparisonAssumption DEF IInv, Types
<1>3. [IDLE_ARM EXCEPT !.status = "running"] \in ArmRecord
  BY DEF IDLE_ARM, ArmRecord
<1>4. \A a \in Arm : arms'[a].nth = None /\ arms'[a].status = "running"
  BY <1>1 DEF IDLE_ARM
<1>5. Types'
  <2>1. clicks' \in 0..MaxClicks
    BY <1>1, <1>2
  <2>2. arms' \in [Arm -> ArmRecord]
    BY <1>1, <1>3
  <2> QED
    BY <1>1, <1>2, <2>1, <2>2 DEF Types
<1>6. \A f \in flows : ~Mine(f)
  BY <1>1 DEF IInv, Pair
<1>7. ASSUME NEW f \in flows' PROVE OnTrack(f)'
  <2>1. CASE f \in flows
    BY <1>1, <2>1 DEF IInv, OnTrack, Over
  <2>2. ASSUME NEW a \in Arm, f = pair[a] PROVE OnTrack(f)'
    <3>1. f.mount <= mount.id
      BY <1>2, <2>2
    <3>2. f.complete # TRUE
      BY <2>2, NoneIsNoTruth
    <3> QED
      BY <1>1, <2>2, <3>1, <3>2 DEF OnTrack
  <2> QED
    BY <1>1, <2>1, <2>2
<1>8. Pair'
  <2>1. \A f \in flows' : Mine(f)' => f.nth = clicks + 1
    BY <1>1, <1>6 DEF Mine
  <2> QED
    BY <1>1, <1>4, <2>1 DEF Pair
<1>9. Results'
  BY <1>4 DEF Results, TrueResult
<1>10. Rows'
  BY <1>1 DEF IInv, Rows
<1> QED
  BY <1>5, <1>7, <1>8, <1>9, <1>10 DEF IInv

LEMMA ClickSafe ==
    ASSUME IInv, runComparison \/ \E ids \in [Arm -> Record] : compareHistorical(ids)
    PROVE  IInv'
<1>1. CASE runComparison
  <2>1. PICK pair : pair = [a \in Arm |-> Flow(a, "creating", None)]
    OBVIOUS
  <2>2. Begin(pair)
    BY <1>1, <2>1 DEF runComparison
  <2>3. clicks < MaxClicks
    BY <2>2 DEF Begin
  <2>4. \A a \in Arm :
          /\ pair[a] \in FlowRecord /\ pair[a].mount = mount.id /\ pair[a].nth = clicks + 1
          /\ pair[a].socketOpen = FALSE /\ pair[a].complete = None
          /\ pair[a].phase = "creating" /\ pair[a].run = None
    <3> SUFFICES ASSUME NEW a \in Arm
                 PROVE  /\ pair[a] \in FlowRecord /\ pair[a].mount = mount.id /\ pair[a].nth = clicks + 1
                        /\ pair[a].socketOpen = FALSE /\ pair[a].complete = None
                        /\ pair[a].phase = "creating" /\ pair[a].run = None
      OBVIOUS
    <3>1. clicks + 1 \in 1..MaxClicks /\ mount.id \in Nat /\ 0 \in 0..MaxSeq
      BY <2>3, ComparisonAssumption DEF IInv, Types
    <3>2. pair[a] = Flow(a, "creating", None)
      BY <2>1
    <3> QED
      BY <3>1, <3>2 DEF Flow, FlowRecord, Phases
  <2> QED
    BY <2>2, <2>4, BeginSafe
<1>2. ASSUME NEW ids \in [Arm -> Record], compareHistorical(ids) PROVE IInv'
  <2>1. PICK pair : pair = [a \in Arm |-> Flow(a, "loading", ids[a])]
    OBVIOUS
  <2>2. Begin(pair)
    BY <1>2, <2>1 DEF compareHistorical
  <2>3. clicks < MaxClicks
    BY <2>2 DEF Begin
  <2>4. \A a \in Arm :
          /\ pair[a] \in FlowRecord /\ pair[a].mount = mount.id /\ pair[a].nth = clicks + 1
          /\ pair[a].socketOpen = FALSE /\ pair[a].complete = None
          /\ pair[a].phase = "loading" /\ pair[a].run \in Record
    <3> SUFFICES ASSUME NEW a \in Arm
                 PROVE  /\ pair[a] \in FlowRecord /\ pair[a].mount = mount.id /\ pair[a].nth = clicks + 1
                        /\ pair[a].socketOpen = FALSE /\ pair[a].complete = None
                        /\ pair[a].phase = "loading" /\ pair[a].run \in Record
      OBVIOUS
    <3>1. clicks + 1 \in 1..MaxClicks /\ mount.id \in Nat /\ 0 \in 0..MaxSeq
      BY <2>3, ComparisonAssumption DEF IInv, Types
    <3>2. pair[a] = Flow(a, "loading", ids[a])
      BY <2>1
    <3> QED
      BY <3>1, <3>2 DEF Flow, FlowRecord, Phases
  <2> QED
    BY <2>2, <2>4, BeginSafe
<1> QED
  BY <1>1, <1>2

LEMMA RemountSafe ==
    ASSUME IInv, Remount
    PROVE  IInv'
<1>1. /\ mount.id < MaxMounts /\ mount' = [mount EXCEPT !.id = mount.id + 1]
      /\ runningRef' = FALSE /\ arms' = [a \in Arm |-> IDLE_ARM]
      /\ run' = run /\ record' = record /\ flows' = flows /\ clicks' = clicks /\ lost' = lost
  BY DEF Remount, backend, counted
<1>2. Types /\ mount.id \in 1..MaxMounts /\ MaxMounts \in Nat
  BY ComparisonAssumption DEF IInv, Types
<1>3. mount.id + 1 \in 1..MaxMounts
  BY <1>1, <1>2
<1>4. mount' \in [id : 1..MaxMounts, kind : Page] /\ mount'.id = mount.id + 1
  BY <1>1, <1>2, <1>3 DEF Types
<1>5. IDLE_ARM \in ArmRecord /\ IDLE_ARM.nth = None /\ IDLE_ARM.status = "idle"
  BY DEF IDLE_ARM, ArmRecord
<1>6. \A f \in flows : f.mount \in Nat /\ f.mount <= mount.id
  BY <1>2 DEF IInv, OnTrack, Types, FlowRecord
<1>7. Types'
  BY <1>1, <1>2, <1>4, <1>5 DEF Types
<1>8. \A f \in flows' : OnTrack(f)' /\ ~Mine(f)'
  <2> SUFFICES ASSUME NEW f \in flows PROVE OnTrack(f)' /\ ~Mine(f)'
    BY <1>1
  <2>1. f.mount <= mount'.id /\ f.mount # mount'.id
    BY <1>2, <1>4, <1>6
  <2>2. OnTrack(f)
    BY DEF IInv
  <2> QED
    BY <1>1, <2>1, <2>2 DEF OnTrack, Over, Mine
<1>9. Pair'
  BY <1>1, <1>5, <1>8 DEF Pair
<1>10. Results' /\ Rows'
  BY <1>1, <1>5 DEF Results, TrueResult, IInv, Rows
<1> QED
  BY <1>7, <1>8, <1>9, <1>10 DEF IInv

----------------------------------------------------------------------------
(* One flow moves, or settles *)

LEMMA MoveSafe ==
    ASSUME IInv, Onward, NEW f \in flows, NEW g \in FlowRecord, Becomes(f, g),
           g.mount = f.mount, g.nth = f.nth, OnTrack(g)', UNCHANGED hook,
           clicks' \in 0..MaxClicks, lost' \in 0..MaxLost
    PROVE  IInv'
<1>1. /\ mount' = mount /\ runningRef' = runningRef /\ arms' = arms
      /\ flows' = (flows \ {f}) \cup {g}
  BY DEF hook, Becomes
<1>2. Types'
  BY <1>1 DEF IInv, Types, Onward
<1>3. \A x \in flows' : OnTrack(x)'
  BY <1>1, OnTrackKept DEF IInv
<1>4. Pair'
  <2>1. \A x \in flows' : x = g \/ x \in flows
    BY <1>1
  <2> QED
    BY <1>1, <2>1 DEF IInv, Pair, Mine
<1>5. Results'
  BY <1>1, ResultKept DEF IInv, Results
<1> QED
  BY <1>2, <1>3, <1>4, <1>5 DEF IInv, Onward

LEMMA SettleSafe ==
    ASSUME IInv, Onward, NEW f \in flows, NEW s \in ArmRecord, Settles(f, s), s.nth = f.nth,
           TrueResult(s)', clicks' \in 0..MaxClicks, lost' \in 0..MaxLost
    PROVE  IInv'
<1>1. Types /\ f \in FlowRecord /\ Pair /\ f.arm \in Arm
  BY DEF IInv, Types, FlowRecord
<1>2. mount' = mount /\ flows' = flows \ {f}
  BY DEF Settles
<1>3. CASE Mine(f)
  <2>1. /\ arms' = [arms EXCEPT ![f.arm] = s]
        /\ runningRef' = \E g \in flows \ {f} : g.mount = f.mount
    BY <1>3 DEF Settles, Mine, Releases
  <2>2. arms' \in [Arm -> ArmRecord] /\ \A a \in Arm : arms'[a] = s \/ arms'[a] = arms[a]
    BY <1>1, <2>1 DEF Types
  <2>3. Types'
    BY <1>1, <1>2, <2>1, <2>2 DEF Types, Onward
  <2>4. Pair'
    <3>1. \A x \in flows' : Mine(x)' => runningRef'
      BY <1>2, <1>3, <2>1 DEF Mine
    <3>2. \A a \in Arm : arms'[a].nth \in {None, f.nth}
      BY <1>1, <1>3, <2>2 DEF Pair
    <3>3. \A x \in flows' : Mine(x)' => x \in flows /\ x.nth = f.nth
      BY <1>1, <1>2, <1>3 DEF Pair, Mine
    <3> QED
      BY <1>2, <3>1, <3>2, <3>3 DEF Pair
  <2>5. Results'
    BY <2>2, ResultKept DEF IInv, Results
  <2>6. \A x \in flows' : OnTrack(x)'
    BY <1>2, OnTrackKept DEF IInv
  <2> QED
    BY <2>3, <2>4, <2>5, <2>6 DEF IInv, Onward
<1>4. CASE ~Mine(f)
  <2>1. arms' = arms /\ runningRef' = runningRef
    BY <1>4 DEF Settles, Mine
  <2>2. Types'
    BY <1>1, <1>2, <2>1 DEF Types, Onward
  <2>3. Pair'
    BY <1>1, <1>2, <2>1 DEF Pair, Mine
  <2>4. Results'
    BY <2>1, ResultKept DEF IInv, Results
  <2>5. \A x \in flows' : OnTrack(x)'
    BY <1>2, OnTrackKept DEF IInv
  <2> QED
    BY <2>2, <2>3, <2>4, <2>5 DEF IInv, Onward
<1> QED
  BY <1>3, <1>4

LEMMA ErrorSafe ==
    ASSUME IInv, Onward, NEW f \in flows, Settles(f, Error(f)),
           clicks' \in 0..MaxClicks, lost' \in 0..MaxLost
    PROVE  IInv'
<1>1. PICK s : s = Error(f)
  OBVIOUS
<1>2. f \in FlowRecord
  BY DEF IInv, Types
<1>3. s \in ArmRecord /\ s.nth = f.nth /\ s.status = "error"
  BY <1>1, <1>2 DEF Error, IDLE_ARM, ArmRecord, FlowRecord
<1>4. TrueResult(s)'
  BY <1>3 DEF TrueResult
<1> QED
  BY <1>1, <1>3, <1>4, SettleSafe

LEMMA DoneSafe ==
    ASSUME IInv, Onward, NEW f \in flows, Settles(f, Done(f)), f.phase \in {"stopping", "loading"},
           f.phase = "loading" => f.complete # None,
           clicks' \in 0..MaxClicks, lost' \in 0..MaxLost
    PROVE  IInv'
<1>1. PICK s : s = Done(f)
  OBVIOUS
<1>2. f \in FlowRecord /\ OnTrack(f)
  BY DEF IInv, Types
<1>3. PICK b \in BOOLEAN : b = (f.complete # None /\ ~f.complete)
  OBVIOUS
<1>4. /\ s \in ArmRecord /\ s.nth = f.nth /\ s.of = f.run /\ s.metrics = f.metrics
      /\ s.incomplete = b
  BY <1>1, <1>2, <1>3 DEF Done, ArmRecord, FlowRecord
<1>5. TrueResult(s)
  <2>1. CASE f.phase = "stopping"
    BY <1>2, <1>4, <2>1 DEF TrueResult, OnTrack
  <2>2. CASE f.phase = "loading"
    <3>1. f.complete \in BOOLEAN
      BY <1>2, <2>2 DEF FlowRecord
    <3>2. f.complete = TRUE \/ s.incomplete
      BY <1>3, <1>4, <2>2, <3>1
    <3> QED
      BY <1>2, <1>4, <2>2, <3>2 DEF TrueResult, OnTrack
  <2> QED
    BY <2>1, <2>2
<1> QED
  BY <1>1, <1>4, <1>5, ResultKept, SettleSafe

----------------------------------------------------------------------------
(* The steps of a flow *)

\* The runs have numbers, so there is a first one nobody has used.
LEMMA MinIsFresh ==
    ASSUME Fresh # {}
    PROVE  Min(Fresh) \in Run /\ run[Min(Fresh)].status = "none"
<1>1. MaxRuns \in Nat /\ Fresh \subseteq Nat
  BY ComparisonAssumption DEF Fresh, Run
<1>2. PICK x \in Fresh : \A y \in Fresh : ~(<<y, x>> \in OpToRel(<, Nat))
  BY <1>1, NatLessThanWellFounded, WFMin, Zenon
<1>3. \A y \in Fresh : ~(y < x)
  BY <1>1, <1>2 DEF OpToRel
<1>4. \A y \in Fresh : x =< y
  BY <1>1, <1>3
<1>5. Min(Fresh) \in Fresh
  BY <1>4, Zenon DEF Min
<1> QED
  BY <1>5 DEF Fresh

LEMMA CountedStay ==
    ASSUME IInv
    PROVE  /\ UNCHANGED counted => clicks' \in 0..MaxClicks /\ lost' \in 0..MaxLost
           /\ Lose => clicks' \in 0..MaxClicks /\ lost' \in 0..MaxLost
BY LoseBound DEF counted, IInv, Types

LEMMA StartsOnward ==
    ASSUME IInv, NEW r \in Run, run[r].status = "none",
           run' = [run EXCEPT ![r].status = "running"], record' = record
    PROVE  Onward /\ run'[r].status = "running"
<1>1. run \in [Run -> RunRecord] /\ run[r] \in RunRecord
  BY DEF IInv, Types
<1>2. [run[r] EXCEPT !.status = "running"] \in RunRecord
  BY <1>1 DEF RunRecord
<1>3. /\ run'[r].status = "running" /\ run' \in [Run -> RunRecord]
      /\ \A o \in Run : o # r => run'[o] = run[o]
  BY <1>1, <1>2 DEF RunRecord
<1> QED
  BY <1>3 DEF Onward, IInv, Types, Rows, Over

LEMMA CreatedSafe ==
    ASSUME IInv, NEW f \in flows, Created(f)
    PROVE  IInv'
<1>1. PICK r : r = Min(Fresh)
  OBVIOUS
<1>2. /\ f.phase = "creating" /\ r \in Run /\ run[r].status = "none"
      /\ run' = [run EXCEPT ![r].status = "running"] /\ record' = record
      /\ UNCHANGED hook /\ UNCHANGED counted
  BY <1>1, MinIsFresh DEF Created
<1>3. PICK g : g = [f EXCEPT !.phase = "polling", !.run = r, !.socketOpen = TRUE]
  OBVIOUS
<1>4. f \in FlowRecord /\ OnTrack(f) /\ Becomes(f, g)
  BY <1>1, <1>3 DEF IInv, Types, Created
<1>5. /\ g \in FlowRecord /\ g.phase = "polling" /\ g.run = r /\ g.mount = f.mount /\ g.nth = f.nth
  BY <1>2, <1>3, <1>4 DEF FlowRecord, Phases
<1>6. Onward /\ run'[r].status = "running"
  BY <1>2, StartsOnward
<1>7. OnTrack(g)'
  BY <1>2, <1>4, <1>5, <1>6 DEF OnTrack, hook
<1> QED
  BY <1>2, <1>4, <1>5, <1>6, <1>7, MoveSafe, CountedStay

LEMMA CreateFailsSafe ==
    ASSUME IInv, NEW f \in flows, CreateRefused(f) \/ CreateLost(f)
    PROVE  IInv'
<1>1. CASE CreateRefused(f)
  BY <1>1, StayOnward, CountedStay, ErrorSafe DEF CreateRefused
<1>2. CASE CreateLost(f)
  <2>1. Onward
    <3>1. CASE UNCHANGED run
      BY <1>2, <3>1, StayOnward DEF CreateLost, backend
    <3>2. CASE Fresh # {} /\ run' = [run EXCEPT ![Min(Fresh)].status = "running"]
      <4>1. PICK r : r = Min(Fresh)
        OBVIOUS
      <4>2. r \in Run /\ run[r].status = "none" /\ run' = [run EXCEPT ![r].status = "running"]
        BY <3>2, <4>1, MinIsFresh
      <4> QED
        BY <1>2, <4>2, StartsOnward DEF CreateLost
    <3> QED
      BY <1>2, <3>1, <3>2 DEF CreateLost
  <2> QED
    BY <1>2, <2>1, CountedStay, ErrorSafe DEF CreateLost
<1> QED
  BY <1>1, <1>2

\* A flow goes on with its own run, or row, and nothing else changes.
LEMMA GoesOnSafe ==
    ASSUME IInv, NEW f \in flows, NEW g \in FlowRecord, Becomes(f, g),
           g.mount = f.mount, g.nth = f.nth, OnTrack(g),
           UNCHANGED backend, UNCHANGED hook,
           clicks' \in 0..MaxClicks, lost' \in 0..MaxLost
    PROVE  IInv'
<1>1. Onward /\ mount' = mount
  BY StayOnward DEF hook
<1> QED
  BY <1>1, OnTrackKept, MoveSafe

\* What is asked of a flow depends neither on what it has seen nor on an open socket.
LEMMA SameTrack ==
    ASSUME NEW f \in FlowRecord, NEW g \in FlowRecord, OnTrack(f), g.mount = f.mount,
           g.phase = f.phase, g.run = f.run, g.metrics = f.metrics, g.complete = f.complete,
           g.socketOpen => f.socketOpen
    PROVE  OnTrack(g)
<1>1. g.mount <= mount.id /\ (g.phase = "creating" => g.run = None)
  BY DEF OnTrack
<1>2. g.phase \in {"polling", "catching up", "measuring", "stopping"} =>
        g.run \in Run /\ run[g.run].status # "none"
  BY DEF OnTrack
<1>3. g.phase \in {"catching up", "measuring", "stopping"} => Over(g.run)
  BY DEF OnTrack
<1>4. g.phase = "stopping" => g.metrics = run[g.run].last_seq
  BY DEF OnTrack
<1>5. g.phase = "loading" =>
        g.run \in Record /\ (g.complete = TRUE => record[g.run].is_complete = TRUE)
  <2>1. g.complete = TRUE => f.complete = TRUE
    OBVIOUS
  <2> QED
    BY <2>1 DEF OnTrack
<1>6. g.socketOpen => g.run \in Run
  BY DEF OnTrack
<1> QED
  BY <1>1, <1>2, <1>3, <1>4, <1>5, <1>6 DEF OnTrack

LEMMA DeliverSafe ==
    ASSUME IInv, NEW f \in flows, Deliver(f)
    PROVE  IInv'
<1>1. f \in FlowRecord /\ OnTrack(f) /\ run \in [Run -> RunRecord] /\ f.run \in Run
  BY DEF IInv, Types, Deliver, OnTrack
<1>2. PICK seq \in (f.seen + 1)..run[f.run].last_seq : Becomes(f, [f EXCEPT !.seen = seq])
  BY DEF Deliver
<1>3. PICK g : g = [f EXCEPT !.seen = seq]
  OBVIOUS
<1>4. f.seen \in 0..MaxSeq /\ run[f.run].last_seq \in 0..MaxSeq
  BY <1>1 DEF FlowRecord, RunRecord
<1>5. seq \in 0..MaxSeq
  BY <1>2, <1>4, ComparisonAssumption
<1>6. /\ g \in FlowRecord /\ g.mount = f.mount /\ g.nth = f.nth /\ g.phase = f.phase
      /\ g.run = f.run /\ g.socketOpen = f.socketOpen /\ g.metrics = f.metrics
      /\ g.complete = f.complete
  BY <1>1, <1>3, <1>5 DEF FlowRecord
<1>7. OnTrack(g)
  BY <1>1, <1>6, SameTrack
<1> QED
  BY <1>2, <1>3, <1>6, <1>7, GoesOnSafe, CountedStay DEF Deliver

LEMMA SocketClosesSafe ==
    ASSUME IInv, NEW f \in flows, SocketCloses(f)
    PROVE  IInv'
<1>1. PICK g : g = [f EXCEPT !.socketOpen = FALSE]
  OBVIOUS
<1>2. f \in FlowRecord /\ OnTrack(f)
  BY DEF IInv, Types
<1>3. /\ g \in FlowRecord /\ g.mount = f.mount /\ g.nth = f.nth /\ g.phase = f.phase
      /\ g.run = f.run /\ g.socketOpen = FALSE /\ g.metrics = f.metrics
      /\ g.complete = f.complete
  BY <1>1, <1>2 DEF FlowRecord
<1>4. OnTrack(g)
  BY <1>2, <1>3, SameTrack
<1> QED
  BY <1>1, <1>3, <1>4, GoesOnSafe, CountedStay DEF SocketCloses

\* The status says that the run is over, so what follows is measured on a run that is.
LEMMA PollSafe ==
    ASSUME IInv, NEW f \in flows, Poll(f)
    PROVE  IInv'
<1>1. PICK g : g = [f EXCEPT !.phase = "catching up", !.final = run[f.run].last_seq]
  OBVIOUS
<1>2. f \in FlowRecord /\ OnTrack(f) /\ run \in [Run -> RunRecord] /\ f.run \in Run
  BY DEF IInv, Types, Poll, OnTrack
<1>3. run[f.run].last_seq \in 0..MaxSeq /\ Over(f.run)
  BY <1>2 DEF RunRecord, Poll, Over
<1>4. /\ g \in FlowRecord /\ g.mount = f.mount /\ g.nth = f.nth /\ g.phase = "catching up"
      /\ g.run = f.run
  BY <1>1, <1>2, <1>3 DEF FlowRecord, Phases
<1>5. OnTrack(g)
  BY <1>2, <1>3, <1>4 DEF OnTrack, Poll
<1> QED
  BY <1>1, <1>4, <1>5, GoesOnSafe, CountedStay DEF Poll

LEMMA PollLostSafe ==
    ASSUME IInv, NEW f \in flows, PollLost(f)
    PROVE  IInv'
BY StayOnward, BackendSafe, CountedStay DEF PollLost, hook

LEMMA CatchUpSafe ==
    ASSUME IInv, NEW f \in flows, CaughtUp(f) \/ TimesOut(f)
    PROVE  IInv'
<1>1. f.phase = "catching up" /\ Measure(f)
  BY DEF CaughtUp, TimesOut
<1>2. PICK g : g = [f EXCEPT !.phase = "measuring", !.socketOpen = FALSE]
  OBVIOUS
<1>3. f \in FlowRecord /\ OnTrack(f)
  BY DEF IInv, Types
<1>4. /\ g \in FlowRecord /\ g.mount = f.mount /\ g.nth = f.nth /\ g.phase = "measuring"
      /\ g.run = f.run /\ g.socketOpen = FALSE
  BY <1>2, <1>3 DEF FlowRecord, Phases
<1>5. OnTrack(g)
  BY <1>1, <1>3, <1>4 DEF OnTrack
<1> QED
  BY <1>1, <1>2, <1>4, <1>5, GoesOnSafe, CountedStay DEF Measure

LEMMA MeasuredSafe ==
    ASSUME IInv, NEW f \in flows, Measured(f) \/ MeasureFails(f)
    PROVE  IInv'
<1>1. CASE Measured(f)
  <2>1. PICK g : g = [f EXCEPT !.phase = "stopping", !.metrics = run[f.run].last_seq]
    OBVIOUS
  <2>2. f \in FlowRecord /\ OnTrack(f) /\ run \in [Run -> RunRecord] /\ f.run \in Run
    BY <1>1 DEF IInv, Types, Measured, OnTrack
  <2>3. run[f.run].last_seq \in 0..MaxSeq
    BY <2>2 DEF RunRecord
  <2>4. /\ g \in FlowRecord /\ g.mount = f.mount /\ g.nth = f.nth /\ g.phase = "stopping"
        /\ g.run = f.run /\ g.metrics = run[f.run].last_seq
    BY <2>1, <2>2, <2>3 DEF FlowRecord, Phases
  <2>5. OnTrack(g)
    BY <1>1, <2>2, <2>4 DEF OnTrack, Measured
  <2> QED
    BY <1>1, <2>1, <2>4, <2>5, GoesOnSafe, CountedStay DEF Measured
<1>2. CASE MeasureFails(f)
  BY <1>2, StayOnward, CountedStay, ErrorSafe DEF MeasureFails
<1> QED
  BY <1>1, <1>2

LEMMA StoppedSafe ==
    ASSUME IInv, NEW f \in flows, Stopped(f) \/ StopLost(f)
    PROVE  IInv'
<1>1. f.phase = "stopping" /\ Settles(f, Done(f)) /\ clicks' \in 0..MaxClicks /\ lost' \in 0..MaxLost
  BY CountedStay DEF Stopped, StopLost
<1>2. CASE Stopped(f)
  <2>1. /\ run \in [Run -> RunRecord] /\ f.run \in Run /\ run[f.run] \in RunRecord
        /\ run' = [run EXCEPT ![f.run].status = "gone"] /\ record' = record
    BY <1>1, <1>2 DEF IInv, Types, OnTrack, Stopped
  <2>2. [run[f.run] EXCEPT !.status = "gone"] \in RunRecord
    BY <2>1 DEF RunRecord
  <2>3. /\ run'[f.run].status = "gone" /\ run'[f.run].last_seq = run[f.run].last_seq
        /\ run' \in [Run -> RunRecord] /\ \A o \in Run : o # f.run => run'[o] = run[o]
    BY <2>1, <2>2 DEF RunRecord
  <2>4. Onward
    BY <2>1, <2>3 DEF Onward, IInv, Types, Rows, Over
  <2> QED
    BY <1>1, <2>4, DoneSafe
<1>3. CASE StopLost(f)
  BY <1>1, <1>3, StayOnward, DoneSafe DEF StopLost
<1> QED
  BY <1>2, <1>3

LEMMA LoadSafe ==
    ASSUME IInv, NEW f \in flows, ReplayMetrics(f) \/ Detail(f) \/ LoadLost(f) \/ Loaded(f)
    PROVE  IInv'
<1>1. /\ f \in FlowRecord /\ OnTrack(f) /\ f.phase = "loading" /\ f.run \in Record
      /\ record \in [Record -> RowRecord]
      /\ clicks' \in 0..MaxClicks /\ lost' \in 0..MaxLost /\ UNCHANGED backend
  BY CountedStay DEF IInv, Types, OnTrack, ReplayMetrics, Detail, LoadLost, Loaded
<1>2. CASE ReplayMetrics(f)
  <2>1. CASE record[f.run].final
    <3>1. PICK g : g = [f EXCEPT !.metrics = MaxSeq]
      OBVIOUS
    <3>2. MaxSeq \in 0..MaxSeq
      BY ComparisonAssumption
    <3>3. /\ g \in FlowRecord /\ g.mount = f.mount /\ g.nth = f.nth /\ g.phase = "loading"
          /\ g.run = f.run /\ g.complete = f.complete /\ g.socketOpen = f.socketOpen
      BY <1>1, <3>1, <3>2 DEF FlowRecord
    <3>4. OnTrack(g)
      BY <1>1, <3>3 DEF OnTrack
    <3> QED
      BY <1>1, <1>2, <2>1, <3>1, <3>3, <3>4, GoesOnSafe DEF ReplayMetrics
  <2>2. CASE ~record[f.run].final
    BY <1>1, <1>2, <2>2, StayOnward, ErrorSafe DEF ReplayMetrics
  <2> QED
    BY <2>1, <2>2
<1>3. CASE Detail(f)
  <2>1. PICK value : value = IsComplete(record[f.run].is_complete)
    OBVIOUS
  <2>2. PICK g : g = [f EXCEPT !.complete = value]
    OBVIOUS
  <2>3. record[f.run].is_complete \in BOOLEAN \cup {None}
    BY <1>1 DEF RowRecord
  <2>4. value \in BOOLEAN /\ (value = TRUE => record[f.run].is_complete = TRUE)
    BY <2>1, <2>3 DEF IsComplete
  <2>5. /\ g \in FlowRecord /\ g.mount = f.mount /\ g.nth = f.nth /\ g.phase = "loading"
        /\ g.run = f.run /\ g.complete = value /\ g.socketOpen = f.socketOpen
    BY <1>1, <2>2, <2>4 DEF FlowRecord
  <2>6. OnTrack(g)
    BY <1>1, <2>4, <2>5 DEF OnTrack
  <2> QED
    BY <1>1, <1>3, <2>1, <2>2, <2>5, <2>6, GoesOnSafe DEF Detail
<1>4. CASE LoadLost(f)
  BY <1>1, <1>4, StayOnward, ErrorSafe DEF LoadLost
<1>5. CASE Loaded(f)
  BY <1>1, <1>5, StayOnward, DoneSafe DEF Loaded
<1> QED
  BY <1>2, <1>3, <1>4, <1>5

----------------------------------------------------------------------------
(* Every comparison *)

LEMMA InitSafe == Init => IInv
<1> SUFFICES ASSUME Init PROVE IInv
  OBVIOUS
<1>1. /\ run = [r \in Run |-> [status |-> "none", last_seq |-> 0]]
      /\ mount \in [id : {1}, kind : Page] /\ runningRef = FALSE
      /\ arms = [a \in Arm |-> IDLE_ARM] /\ flows = {} /\ clicks = 0 /\ lost = 0
  BY DEF Init
<1>2. PICK row : /\ record = [e \in Record |-> row]
                 /\ \/ row = [final |-> TRUE, is_complete |-> TRUE]
                    \/ row = [final |-> FALSE, is_complete |-> None]
  BY DEF Init
<1>3. record \in [Record -> RowRecord] /\ Rows
  <2>1. row \in RowRecord /\ (row.is_complete = TRUE => row.final)
    <3>1. CASE row = [final |-> TRUE, is_complete |-> TRUE]
      BY <3>1 DEF RowRecord
    <3>2. CASE row = [final |-> FALSE, is_complete |-> None]
      BY <3>2, NoneIsNoTruth DEF RowRecord
    <3> QED
      BY <1>2, <3>1, <3>2
  <2> QED
    BY <1>2, <2>1 DEF Rows
<1>4. IDLE_ARM \in ArmRecord /\ IDLE_ARM.nth = None /\ IDLE_ARM.status = "idle"
  BY DEF IDLE_ARM, ArmRecord
<1>5. Types
  <2>1. run \in [Run -> RunRecord]
    BY <1>1, ComparisonAssumption DEF RunRecord
  <2>2. mount \in [id : 1..MaxMounts, kind : Page] /\ clicks \in 0..MaxClicks /\ lost \in 0..MaxLost
    BY <1>1, ComparisonAssumption
  <2> QED
    BY <1>1, <1>3, <1>4, <2>1, <2>2 DEF Types
<1>6. Pair /\ Results
  BY <1>1, <1>4 DEF Pair, Results, TrueResult
<1> QED
  BY <1>1, <1>3, <1>5, <1>6 DEF IInv

LEMMA StepSafe == IInv /\ [Next]_vars => IInv'
<1> SUFFICES ASSUME IInv, [Next]_vars PROVE IInv'
  OBVIOUS
<1>1. CASE UNCHANGED vars
  BY <1>1, StayOnward, CountedStay, BackendSafe DEF vars, hook
<1>2. ASSUME NEW r \in Run, Publish(r) \/ Finish(r) \/ Dies(r) PROVE IInv'
  BY <1>2, PublishSafe, FinishSafe
<1>3. ASSUME NEW e \in Record, Finalize(e) PROVE IInv'
  BY <1>3, FinalizeSafe
<1>4. CASE Restart
  BY <1>4, RestartSafe
<1>5. CASE runComparison \/ \E ids \in [Arm -> Record] : compareHistorical(ids)
  BY <1>5, ClickSafe
<1>6. CASE Remount
  BY <1>6, RemountSafe
<1>7. ASSUME NEW f \in flows, FlowStep(f) PROVE IInv'
  BY <1>7, CreatedSafe, CreateFailsSafe, PollSafe, CatchUpSafe, MeasuredSafe, StoppedSafe, LoadSafe
     DEF FlowStep
<1>8. ASSUME NEW f \in flows, Network(f) PROVE IInv'
  BY <1>8, DeliverSafe, SocketClosesSafe, CreateFailsSafe, PollLostSafe, StoppedSafe, LoadSafe
     DEF Network
<1> QED
  BY <1>1, <1>2, <1>3, <1>4, <1>5, <1>6, <1>7, <1>8 DEF Next

LEMMA ComparisonInvariant == Spec => []IInv
BY InitSafe, StepSafe, PTL DEF Spec

\* However many comparisons, page loads and broken exchanges there are, the two results on
\* screen are those of one comparison (runningRef of useComparison and useFixTrial).
THEOREM OnePair == Spec => []ArmsAreOnePair
<1>1. IInv => ArmsAreOnePair
  <2> SUFFICES ASSUME IInv PROVE ArmsAreOnePair
    OBVIOUS
  <2>1. PICK S : S = {arms[a].nth : a \in Arm} \ {None}
    OBVIOUS
  <2>2. \A m, n \in S : m = n
    BY <2>1 DEF IInv, Pair
  <2>3. CASE S = {}
    BY <2>1, <2>3, FS_EmptySet DEF ArmsAreOnePair
  <2>4. ASSUME NEW m \in S PROVE ArmsAreOnePair
    <3>1. S = {m}
      BY <2>2
    <3>2. Cardinality({m}) = 1
      BY FS_Singleton
    <3>3. Cardinality(S) <= 1
      BY <3>1, <3>2
    <3> QED
      BY <2>1, <3>3 DEF ArmsAreOnePair
  <2> QED
    BY <2>3, <2>4
<1> QED
  BY <1>1, ComparisonInvariant, PTL

\* The numbers beside a finished run are its last ones, for every order of polls, socket
\* frames, time-outs and stops; and a recorded arm without the caveat is of a row whose log
\* has no gap, also when the row is written between the two requests.
THEOREM TrueNumbers == Spec => []NumbersAreTrue
<1>1. IInv => NumbersAreTrue
  <2> SUFFICES ASSUME IInv, NEW a \in Arm, TableValue(a) # None
               PROVE  IF arms[a].of \in Run
                      THEN run[arms[a].of].status \in {"finished", "gone"} /\ TableValue(a) = run[arms[a].of].last_seq
                      ELSE Caveat(a) \/ record[arms[a].of].is_complete = TRUE
    BY DEF NumbersAreTrue
  <2>1. arms[a].status = "done" /\ TableValue(a) = arms[a].metrics
    BY DEF TableValue
  <2>2. TrueResult(arms[a])
    BY DEF IInv, Results
  <2>3. Record \cap Run = {}
    BY ComparisonAssumption DEF Run
  <2> QED
    BY <2>1, <2>2, <2>3 DEF TrueResult, Over, Caveat
<1> QED
  BY <1>1, ComparisonInvariant, PTL

\* Every variable keeps its type, and a flow that has a run or a row has one of the right kind.
THEOREM TypeSafe == Spec => []TypeOK
<1>1. IInv => TypeOK
  BY DEF IInv, Types, OnTrack, TypeOK, RunRecord, RowRecord, ArmRecord, FlowRecord, Phases
<1> QED
  BY <1>1, ComparisonInvariant, PTL
=============================================================================
