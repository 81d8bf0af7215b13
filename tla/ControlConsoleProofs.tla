-------------------------- MODULE ControlConsoleProofs --------------------------
(* Theorems about ControlConsole for any number of runs, clicks, page loads,     *)
(* broken exchanges and restarts, and about LaunchForm, for every text a field   *)
(* may hold and any number of edits.                                             *)
EXTENDS ControlConsole, LaunchForm, TLAPS

ControlKinds == {"create", "pause", "resume", "speed", "stop"}
Kinds        == ControlKinds \cup {"poll", "adopt"}
AnswerSet ==
    [run : Run \cup {None}, status : Refusal \cup {"running", "paused", "finished", "stopped"}]
Request ==
    [kind : Kinds, action : Action \cup {None}, run : Run \cup {None}, id : Nat \cup {None},
     revision : Nat, value : Speeds \cup {None}, page : Nat, answer : AnswerSet \cup {None}]
Control ==
    [experimentId : Run \cup {None}, status : Status, pending : Action \cup {None},
     speed : Speeds, operationId : Nat \cup {None}, revision : Nat]
RunStates == [Run -> {"none", "running", "paused", "finished", "gone"}]

Types ==
    /\ run \in RunStates /\ control \in Control
    /\ hydrating \in BOOLEAN /\ stored \in Run \cup {None} /\ unheard \subseteq Run
    /\ page \in Nat /\ requests \subseteq Request

\* A run that has ended stays ended.
Dead(r) == run[r] \in {"finished", "gone"}

\* What the console shows, and what it remembers for the next page.
Screen ==
    /\ control.experimentId = None <=> control.status = "idle"
    /\ control.experimentId # None => control.experimentId = stored
    /\ stored # None => run[stored] # "none"
    /\ control.status \in {"finished", "stopped"} => Dead(control.experimentId)
    /\ hydrating => control = initialControlState /\ stored # None

\* An answer on its way to the page says what is still true when it is read.
AnswerIsTrue(q) ==
    /\ q.page = page
    /\ q.kind = "create" =>
         \/ q.answer.status = "400"
         \/ q.answer.status = "running" /\ q.answer.run \in Run /\ run[q.answer.run] # "none"
    /\ q.kind = "stop" =>
         q.answer.status \in {"404", "finished", "stopped"} /\ run[q.run] = "gone"
    /\ q.kind = "pause"  => q.answer.status \in {"404", "409", "paused"}
    /\ q.kind = "resume" => q.answer.status \in {"404", "409", "running"}
    /\ q.kind = "speed"  => q.answer.status \in {"404", "409", "running", "paused"}
    /\ q.kind \in {"poll", "adopt"} => q.answer.status \in {"404", "running", "paused", "finished"}
    /\ q.kind # "create" =>
         /\ q.answer.run = q.run
         /\ q.answer.status = "404" => run[q.run] = "gone"
         /\ q.answer.status \in {"409", "finished"} => Dead(q.run)

RequestOK(q) ==
    /\ q.page <= page
    /\ q.kind # "create" => q.run \in Run /\ run[q.run] # "none"
    /\ q.kind = "speed" => q.value \in Speeds
    /\ q.answer # None => AnswerIsTrue(q)

\* A request of the page that is open belongs to the operation that is pending; a poll
\* sent before the last click is of an older revision; the stored run is adopted first.
Mine(q) ==
    /\ q.kind \in ControlKinds =>
         /\ q.action \in Action /\ isCurrent(control, q.action, q.id) /\ ~hydrating
         /\ q.kind # "create" => q.run = control.experimentId
    /\ q.kind \in {"pause", "resume", "speed"} => q.action = q.kind
    /\ q.kind = "stop" => q.action = "reset"
    /\ q.kind = "create" =>
         /\ q.action \in {"start", "reset"}
         /\ control.experimentId # None => Dead(control.experimentId)
         /\ q.action = "reset" => control.experimentId # None
    /\ q.kind = "poll" =>
         /\ q.revision <= control.revision /\ ~hydrating
         /\ q.revision = control.revision => control.pending = None
    /\ q.kind = "adopt" => hydrating /\ q.run = stored

Alone ==
    \A q1, q2 \in requests : q1.page = page /\ q2.page = page =>
        /\ q1.kind \in ControlKinds /\ q2.kind \in ControlKinds => q1 = q2
        /\ q1.kind = "adopt" /\ q2.kind = "adopt" => q1 = q2

\* A run that is paused never ticks again unless this page, or one nobody hears from,
\* resumes it; it may still come to its end.
Paused(r) == r \in unheard \/ run[r] \in {"paused", "finished", "gone"}

Resumed ==
    \E q \in requests : /\ q.page = page /\ q.kind = "resume"
                        /\ q.answer # None /\ q.answer.status = "running"

\* The answers that may make the console show a paused run.
SaysPaused(q) ==
    /\ q.page = page /\ q.answer # None /\ q.answer.status = "paused"
    /\ q.kind \in {"adopt", "pause"} \/ (q.kind = "poll" /\ q.revision = control.revision)

Pauses ==
    /\ control.status = "paused" => Paused(control.experimentId) \/ Resumed
    /\ \A q \in requests : SaysPaused(q) => Paused(q.run)

\* A run whose creation is about to be read.
Coming(r) ==
    \E q \in requests : /\ q.kind = "create" /\ q.answer # None
                        /\ q.answer.status = "running" /\ q.answer.run = r

Ours ==
    \A r \in Run : Active(r) =>
       r = control.experimentId \/ r \in unheard \/ (hydrating /\ r = stored) \/ Coming(r)

Each == \A q \in requests : RequestOK(q) /\ (q.page = page => Mine(q))

IInv == Types /\ Screen /\ Alone /\ Pauses /\ Ours /\ Each

----------------------------------------------------------------------------
(* The records *)

LEMMA NoneIsNoRun ==
    /\ None \notin Run /\ None \notin Nat /\ None \notin Action /\ None \notin AnswerSet
    /\ None \notin Speeds /\ None \notin Status
<1>1. MaxRuns \in Nat /\ None \notin Int
  BY ConsoleAssumption
<1>2. Run \subseteq Nat
  BY <1>1 DEF Run
<1>3. AnswerSet \subseteq [run : Nat \cup {None}, status : Refusal \cup Status]
  BY <1>2 DEF AnswerSet, Status
<1>4. None \notin AnswerSet
  BY <1>3, NoneAssumption, Zenon
<1>5. None \notin Action /\ None \notin Status
  BY NoneAssumption, Zenon
<1>6. None \notin Nat /\ None \notin Speeds
  BY <1>1 DEF Speeds
<1> QED
  BY <1>2, <1>4, <1>5, <1>6, Zenon

LEMMA RequestedIs ==
    ASSUME NEW s \in Control, NEW action \in Action, NEW id \in Nat
    PROVE  LET n == Requested(s, action, id) IN
           /\ n \in Control /\ n.experimentId = s.experimentId /\ n.status = s.status
           /\ n.pending = action /\ n.operationId = id /\ n.revision = s.revision + 1
<1>1. s.revision + 1 \in Nat
  BY DEF Control
<1>2. Requested(s, action, id) \in Control
  BY <1>1 DEF Requested, Control
<1> QED
  BY <1>2 DEF Requested, Control

LEMMA SettledIs ==
    ASSUME NEW s \in Control
    PROVE  LET n == Settled(s) IN
           /\ n \in Control /\ n.experimentId = s.experimentId /\ n.status = s.status
           /\ n.pending = None /\ n.operationId = None /\ n.revision = s.revision
BY DEF Settled, Control

LEMMA CallIs ==
    ASSUME control \in Control, page \in Nat, NEW kind \in Kinds, NEW action \in Action \cup {None},
           NEW r \in Run \cup {None}, NEW id \in Nat \cup {None}, NEW v \in Speeds \cup {None},
           NEW c, c = Call(kind, action, r, id, v)
    PROVE  /\ c \in Request /\ c.kind = kind /\ c.action = action /\ c.run = r /\ c.id = id
           /\ c.revision = control.revision /\ c.page = page /\ c.answer = None
BY DEF Call, Control, Request

LEMMA AnsweredIs ==
    ASSUME NEW q \in Request, NEW a \in AnswerSet
    PROVE  LET n == [q EXCEPT !.answer = a] IN
           /\ n \in Request /\ n.kind = q.kind /\ n.action = q.action /\ n.run = q.run
           /\ n.id = q.id /\ n.revision = q.revision /\ n.page = q.page /\ n.answer = a
           /\ n.value = q.value
BY DEF Request

----------------------------------------------------------------------------
(* Clicks and polls *)

LEMMA ClickSafe ==
    ASSUME IInv, NEW action \in Action, NEW kind \in ControlKinds, NEW r \in Run \cup {None},
           NEW v \in Speeds \cup {None}, Click(action, kind, r, v),
           ~hydrating, control.pending = None,
           kind # "create" => r = control.experimentId /\ r # None, kind = "speed" => v \in Speeds,
           kind = "create" => action = "start" /\ control.status \in {"idle", "finished", "stopped"},
           kind \in {"pause", "resume", "speed"} => action = kind,
           kind = "stop" => action = "reset"
    PROVE  IInv'
<1>0. PICK c : c = Call(kind, action, r, NextOperationId, v)
  OBVIOUS
<1>1. NextOperationId \in Nat
  BY DEF IInv, Types, Control, NextOperationId
<1>2. /\ c \in Request /\ c.kind = kind /\ c.action = action /\ c.run = r /\ c.id = NextOperationId
      /\ c.revision = control.revision /\ c.page = page /\ c.answer = None /\ c.value = v
  <2>1. control \in Control /\ page \in Nat
    BY DEF IInv, Types
  <2>2. kind \in Kinds /\ action \in Action \cup {None} /\ NextOperationId \in Nat \cup {None}
    BY <1>1 DEF Kinds
  <2> QED
    BY <1>0, <2>1, <2>2 DEF Call, Control, Request
<1>3. /\ requests' = requests \cup {c}
      /\ run' = run /\ hydrating' = hydrating /\ stored' = stored /\ page' = page /\ unheard' = unheard
      /\ control' = Requested(control, action, NextOperationId)
  BY <1>0 DEF Click, backend
<1>4. /\ control' \in Control /\ control'.experimentId = control.experimentId
      /\ control'.status = control.status /\ control'.pending = action
      /\ control'.operationId = NextOperationId /\ control'.revision = control.revision + 1
  BY <1>1, <1>3, RequestedIs DEF IInv, Types
<1>5. control.revision \in Nat
  BY DEF IInv, Types, Control
<1>6. \A q \in requests : q.page = page => q.kind \notin ControlKinds \cup {"adopt"}
  BY NoneIsNoRun DEF IInv, Each, Mine, isCurrent
<1>7. Types'
  BY <1>2, <1>3, <1>4 DEF IInv, Types
<1>8. Screen'
  BY <1>3, <1>4 DEF IInv, Screen, Dead
<1>9. Alone'
  BY <1>2, <1>3, <1>6 DEF IInv, Alone, ControlKinds
<1>10. \A q \in requests' : RequestOK(q)'
  <2>1. \A q \in requests : RequestOK(q)'
    BY <1>3 DEF IInv, Each, RequestOK, AnswerIsTrue, Dead
  <2>2. RequestOK(c)'
    <3>1. page \in Nat
      BY DEF IInv, Types
    <3>2. kind # "create" => r \in Run /\ run[r] # "none"
      BY DEF IInv, Screen
    <3> QED
      BY <1>2, <1>3, <3>1, <3>2 DEF RequestOK
  <2> QED
    BY <1>3, <2>1, <2>2
<1>11. \A q \in requests' : q.page = page' => Mine(q)'
  <2>1. ASSUME NEW q \in requests, q.page = page PROVE Mine(q)'
    <3>1. Mine(q) /\ q.kind \notin ControlKinds \cup {"adopt"} /\ q \in Request
      BY <1>6, <2>1 DEF IInv, Each, Types
    <3>2. q.kind = "poll" /\ q.revision \in Nat
      BY <3>1 DEF Request, Kinds
    <3>3. q.revision <= control.revision
      BY <3>1, <3>2 DEF Mine
    <3>4. q.revision <= control'.revision /\ q.revision # control'.revision
      BY <1>4, <1>5, <3>2, <3>3
    <3> QED
      BY <1>3, <3>2, <3>4 DEF Mine, ControlKinds
  <2>2. Mine(c)'
    <3>1. isCurrent(control', action, NextOperationId)
      BY <1>4 DEF isCurrent
    <3>2. kind = "create" /\ control.experimentId # None => Dead(control.experimentId)
      BY DEF IInv, Screen
    <3> QED
      BY <1>2, <1>3, <1>4, <3>1, <3>2, NoneIsNoRun DEF Mine, ControlKinds, Dead
  <2> QED
    BY <1>3, <2>1, <2>2
<1>12. Pauses'
  <2>1. control.status = "paused" => Paused(control.experimentId)
    BY <1>6 DEF IInv, Pauses, Resumed, ControlKinds
  <2>2. \A q \in requests : ~(SaysPaused(q)' /\ q.kind = "poll")
    <3> SUFFICES ASSUME NEW q \in requests, q.page = page, q.kind = "poll"
                 PROVE  q.revision # control'.revision
      BY <1>3 DEF SaysPaused
    <3>1. Mine(q) /\ q \in Request
      BY DEF IInv, Each, Types
    <3>2. q.revision \in Nat /\ q.revision <= control.revision
      BY <3>1 DEF Mine, Request
    <3> QED
      BY <1>4, <1>5, <3>2
  <2>3. \A q \in requests' : ~SaysPaused(q)'
    BY <1>2, <1>3, <1>6, <2>2 DEF SaysPaused, ControlKinds
  <2> QED
    BY <1>3, <1>4, <2>1, <2>3 DEF Pauses, Paused
<1>13. Ours'
  BY <1>3, <1>4 DEF IInv, Ours, Active, Coming
<1> QED
  BY <1>7, <1>8, <1>9, <1>10, <1>11, <1>12, <1>13 DEF IInv, Each

LEMMA ButtonSafe ==
    ASSUME IInv, Start \/ Pause \/ Resume \/ ChangeSpeed \/ Reset
    PROVE  IInv'
<1>1. control.experimentId \in Run \cup {None} /\ control.status \in Status
  BY DEF IInv, Types, Control
<1>2. CASE Start
  BY <1>2, ClickSafe DEF Start, LaunchOffered, canStart, Action, ControlKinds
<1>3. CASE Pause
  BY <1>1, <1>3, ClickSafe DEF Pause, BarOffered, RunShown, canPause, Action, ControlKinds
<1>4. CASE Resume
  BY <1>1, <1>4, ClickSafe DEF Resume, BarOffered, RunShown, canResume, Action, ControlKinds
<1>5. CASE ChangeSpeed
  BY <1>1, <1>5, ClickSafe DEF ChangeSpeed, BarOffered, RunShown, canSetSpeed, Action, ControlKinds
<1>6. CASE Reset
  BY <1>1, <1>6, ClickSafe DEF Reset, BarOffered, RunShown, canReset, Action, ControlKinds
<1> QED
  BY <1>2, <1>3, <1>4, <1>5, <1>6

LEMMA SendPollSafe ==
    ASSUME IInv, SendPoll
    PROVE  IInv'
<1>0. PICK c : c = Call("poll", None, control.experimentId, None, None)
  OBVIOUS
<1>1. control.experimentId \in Run
  BY DEF IInv, Types, Control, SendPoll, Polling
<1>2. /\ c \in Request /\ c.kind = "poll" /\ c.run = control.experimentId
      /\ c.revision = control.revision /\ c.page = page /\ c.answer = None
  BY <1>0, <1>1, CallIs DEF IInv, Types, Kinds
<1>3. /\ requests' = requests \cup {c} /\ control.pending = None /\ control.status = "running"
      /\ run' = run /\ control' = control /\ hydrating' = hydrating /\ stored' = stored
      /\ page' = page /\ unheard' = unheard
  BY <1>0 DEF SendPoll, Polling, backend, screen
<1>4. page \in Nat /\ control.revision \in Nat
  BY DEF IInv, Types, Control
<1>5. ~hydrating /\ run[control.experimentId] # "none"
  <2>1. control # initialControlState
    BY <1>1, <1>3 DEF initialControlState
  <2> QED
    BY <1>1, <1>3, <2>1, NoneIsNoRun DEF IInv, Screen
<1>6. Types' /\ Screen' /\ Alone'
  BY <1>2, <1>3 DEF IInv, Types, Screen, Alone, Dead, ControlKinds
<1>7. RequestOK(c)' /\ Mine(c)'
  BY <1>1, <1>2, <1>3, <1>4, <1>5 DEF RequestOK, Mine, ControlKinds
<1>8. \A q \in requests : RequestOK(q)' /\ (q.page = page' => Mine(q)')
  BY <1>3 DEF IInv, Each, RequestOK, Mine, AnswerIsTrue, Dead
<1>9. Each'
  BY <1>3, <1>7, <1>8 DEF Each
<1>10. Pauses'
  BY <1>2, <1>3 DEF IInv, Pauses, Paused, SaysPaused
<1>11. Ours'
  BY <1>3 DEF IInv, Ours, Active, Coming
<1> QED
  BY <1>6, <1>9, <1>10, <1>11 DEF IInv

----------------------------------------------------------------------------
(* The server *)

\* What a step of the server never undoes: a run that exists, has ended or is gone.
Onward ==
    /\ run' \in RunStates
    /\ \A r \in Run : run[r] # "none" => run'[r] # "none"
    /\ \A r \in Run : run[r] \in {"finished", "gone"} => run'[r] \in {"finished", "gone"}
    /\ \A r \in Run : run[r] = "gone" => run'[r] = "gone"

\* A run that is paused is not resumed, and none becomes active.
NoneResumed ==
    /\ \A r \in Run : run[r] = "paused" => run'[r] \in {"paused", "finished", "gone"}
    /\ \A r \in Run : run'[r] \in {"running", "paused"} => Active(r)

LEMMA RunsEndSafe ==
    ASSUME IInv, Onward, NoneResumed,
           UNCHANGED <<control, hydrating, stored, page, requests, unheard>>
    PROVE  IInv'
<1>1. /\ control' = control /\ hydrating' = hydrating /\ stored' = stored /\ page' = page
      /\ requests' = requests /\ unheard' = unheard
  OBVIOUS
<1>2. control.experimentId \in Run \cup {None} /\ stored \in Run \cup {None}
  BY DEF IInv, Types, Control
<1>3. Types' /\ Alone'
  BY <1>1 DEF IInv, Types, Alone, Onward
<1>4. Screen'
  <2>1. control.status \in {"finished", "stopped"} => control.experimentId \in Run
    BY <1>2 DEF IInv, Screen
  <2> QED
    BY <1>1, <1>2, <2>1 DEF IInv, Screen, Dead, Onward
<1>5. Each'
  <2> SUFFICES ASSUME NEW q \in requests
               PROVE  RequestOK(q)' /\ (q.page = page => Mine(q)')
    BY <1>1 DEF Each
  <2>1. RequestOK(q) /\ (q.page = page => Mine(q)) /\ q \in Request
    BY DEF IInv, Each, Types
  <2>2. RequestOK(q)'
    BY <1>1, <2>1 DEF RequestOK, AnswerIsTrue, Dead, Onward
  <2>3. q.page = page => Mine(q)'
    BY <1>1, <1>2, <2>1 DEF Mine, Dead, Onward
  <2> QED
    BY <2>2, <2>3
<1>6. \A r \in Run : Paused(r) => Paused(r)'
  BY <1>1 DEF Paused, Onward, NoneResumed
<1>7. Pauses'
  <2>1. Resumed' <=> Resumed
    BY <1>1 DEF Resumed
  <2>2. control.status = "paused" => control.experimentId \in Run
    BY <1>2 DEF IInv, Screen
  <2>3. \A q \in requests : SaysPaused(q) => q.run \in Run
    BY DEF IInv, Each, RequestOK, SaysPaused
  <2> QED
    BY <1>1, <1>6, <2>1, <2>2, <2>3 DEF IInv, Pauses, SaysPaused
<1>8. Ours'
  BY <1>1 DEF IInv, Ours, Active, Coming, NoneResumed
<1> QED
  BY <1>3, <1>4, <1>5, <1>7, <1>8 DEF IInv

LEMMA FinishSafe ==
    ASSUME IInv, NEW r \in Run, Finish(r)
    PROVE  IInv'
<1>1. run \in RunStates
  BY DEF IInv, Types
<1>2. Onward /\ NoneResumed
  BY <1>1 DEF Finish, Onward, NoneResumed, RunStates, Active
<1> QED
  BY <1>2, RunsEndSafe DEF Finish, screen

LEMMA RestartSafe ==
    ASSUME IInv, Restart
    PROVE  IInv'
<1>1. run \in RunStates
  BY DEF IInv, Types
<1>2. Onward /\ NoneResumed
  BY <1>1 DEF Restart, Onward, NoneResumed, RunStates, Active
<1> QED
  BY <1>2, RunsEndSafe DEF Restart, screen

\* What the handler of q did, apart from answering it.
Handled(q, a) ==
    /\ ~Refused(a) => a.run \in Run
    /\ \A r \in Run : run[r] = "paused" =>
         run'[r] \in {"paused", "gone"} \/ (q.kind = "resume" /\ a = Answer(r, "running"))
    /\ q.kind \in {"adopt", "pause", "poll"} /\ a.status = "paused" => run'[q.run] = "paused"
    /\ \A r \in Run : run'[r] \in {"running", "paused"} =>
         Active(r) \/ (q.kind = "create" /\ a = Answer(r, "running"))

LEMMA ReplySafe ==
    ASSUME IInv, NEW q \in requests, q.answer = None, NEW a \in AnswerSet,
           NEW n, n = [q EXCEPT !.answer = a],
           Reply(q, a), UNCHANGED screen, Onward, Handled(q, a),
           q.page = page => AnswerIsTrue(n)'
    PROVE  IInv'
<1>1. control' = control /\ hydrating' = hydrating /\ stored' = stored /\ page' = page
  BY DEF screen
<1>2. q \in Request /\ requests \subseteq Request /\ control.experimentId \in Run \cup {None}
      /\ stored \in Run \cup {None} /\ unheard \subseteq Run
  BY DEF IInv, Types, Control
<1>3. /\ n \in Request /\ n.kind = q.kind /\ n.action = q.action /\ n.run = q.run /\ n.id = q.id
      /\ n.revision = q.revision /\ n.page = q.page /\ n.answer = a /\ n.value = q.value
  BY <1>2, AnsweredIs
<1>4. a # None
  BY NoneIsNoRun
<1>5. /\ \A x \in requests' : (x = n /\ q.page = page) \/ (x \in requests /\ x # q)
      /\ \A x \in requests : x # q => x \in requests'
      /\ q.page = page => n \in requests'
      /\ unheard \subseteq unheard' /\ unheard' \subseteq Run
  BY <1>2 DEF Reply, Handled
<1>6. q.page # page /\ ~Refused(a) => a.run \in unheard'
  BY DEF Reply
<1>7. \A r \in Run : a = Answer(r, "running") => ~Refused(a) /\ a.run = r /\ a.status = "running"
  BY DEF Answer, Refused, Refusal
<1>8. Types'
  BY <1>1, <1>3, <1>5 DEF IInv, Types, Onward
<1>9. Screen'
  <2>1. control.status \in {"finished", "stopped"} => control.experimentId \in Run
    BY <1>2 DEF IInv, Screen
  <2> QED
    BY <1>1, <1>2, <2>1 DEF IInv, Screen, Dead, Onward
<1>10. Alone'
  <2> SUFFICES ASSUME NEW q1 \in requests', NEW q2 \in requests', q1.page = page, q2.page = page
               PROVE  /\ q1.kind \in ControlKinds /\ q2.kind \in ControlKinds => q1 = q2
                      /\ q1.kind = "adopt" /\ q2.kind = "adopt" => q1 = q2
    BY <1>1 DEF Alone
  <2> QED
    BY <1>3, <1>5 DEF IInv, Alone
<1>11. Each'
  <2> SUFFICES ASSUME NEW x \in requests'
               PROVE  RequestOK(x)' /\ (x.page = page => Mine(x)')
    BY <1>1 DEF Each
  <2>1. RequestOK(q) /\ (q.page = page => Mine(q))
    BY DEF IInv, Each
  <2>2. CASE x \in requests
    <3>1. RequestOK(x) /\ (x.page = page => Mine(x))
      BY <2>2 DEF IInv, Each
    <3>2. RequestOK(x)'
      BY <1>1, <3>1 DEF RequestOK, AnswerIsTrue, Dead, Onward
    <3>3. x.page = page => Mine(x)'
      BY <1>1, <1>2, <3>1 DEF Mine, Dead, Onward
    <3> QED
      BY <3>2, <3>3
  <2>3. CASE x = n /\ q.page = page
    <3>1. RequestOK(n)'
      BY <1>1, <1>3, <2>1, <2>3 DEF RequestOK, Onward
    <3>2. Mine(n)'
      BY <1>1, <1>2, <1>3, <2>1, <2>3 DEF Mine, Dead, Onward
    <3> QED
      BY <2>3, <3>1, <3>2
  <2> QED
    BY <1>5, <2>2, <2>3
<1>12. \A r \in Run : Paused(r) =>
         Paused(r)' \/ (q.page = page /\ q.kind = "resume" /\ a.status = "running")
  BY <1>1, <1>5, <1>6, <1>7 DEF Paused, Onward, Handled
<1>13. Pauses'
  <2>1. Resumed => Resumed'
    BY <1>1, <1>5 DEF Resumed
  <2>2. q.page = page /\ q.kind = "resume" /\ a.status = "running" => Resumed'
    BY <1>1, <1>3, <1>4, <1>5 DEF Resumed
  <2>3. control.status = "paused" => control.experimentId \in Run
    BY <1>2 DEF IInv, Screen
  <2>4. control.status = "paused" => Paused(control.experimentId)' \/ Resumed'
    BY <1>1, <1>12, <2>1, <2>2, <2>3 DEF IInv, Pauses
  <2>5. ASSUME NEW x \in requests, x # q, SaysPaused(x) PROVE Paused(x.run)'
    <3>1. x.run \in Run /\ Paused(x.run)
      BY <2>5 DEF IInv, Each, RequestOK, SaysPaused, Pauses
    <3>2. ~(q.page = page /\ q.kind = "resume")
      BY <2>5, NoneIsNoRun DEF SaysPaused, IInv, Each, Mine, Alone, isCurrent, ControlKinds
    <3> QED
      BY <1>12, <3>1, <3>2
  <2>6. SaysPaused(n)' => Paused(n.run)'
    BY <1>3 DEF SaysPaused, Handled, Paused
  <2>7. \A x \in requests' : SaysPaused(x)' => Paused(x.run)'
    BY <1>1, <1>5, <2>5, <2>6 DEF SaysPaused
  <2> QED
    BY <1>1, <2>4, <2>7 DEF Pauses
<1>14. Ours'
  <2>1. \A r \in Run : Coming(r) => Coming(r)'
    BY <1>5 DEF Coming
  <2>2. \A r \in Run : q.kind = "create" /\ a = Answer(r, "running") => r \in unheard' \/ Coming(r)'
    BY <1>3, <1>4, <1>5, <1>6, <1>7 DEF Coming
  <2>3. \A r \in Run : Active(r) =>
          r = control.experimentId \/ r \in unheard' \/ (hydrating /\ r = stored) \/ Coming(r)'
    BY <1>5, <2>1 DEF IInv, Ours
  <2> QED
    BY <1>1, <2>2, <2>3 DEF Ours, Handled, Active
<1> QED
  BY <1>8, <1>9, <1>10, <1>11, <1>13, <1>14 DEF IInv

LEMMA StayOnward ==
    ASSUME IInv, run' = run
    PROVE  Onward
BY DEF IInv, Types, Onward

LEMMA RefuseSafe ==
    ASSUME IInv, NEW q \in requests, q.answer = None, NEW why \in Refusal,
           Refuse(q, why), UNCHANGED screen,
           q.kind = "create" => why = "400",
           q.kind \in {"pause", "resume", "speed"} => why \in {"404", "409"},
           q.kind \in {"stop", "poll", "adopt"} => why = "404",
           q.kind # "create" => (why = "404" => run[q.run] = "gone") /\ (why = "409" => Dead(q.run))
    PROVE  IInv'
<1>1. PICK a : a = Answer(q.run, why)
  OBVIOUS
<1>2. PICK n : n = [q EXCEPT !.answer = a]
  OBVIOUS
<1>3. q \in Request /\ q.run \in Run \cup {None} /\ RequestOK(q) /\ q.kind \in Kinds
  BY DEF IInv, Types, Each, Request
<1>4. a \in AnswerSet /\ a.run = q.run /\ a.status = why /\ a = Answer(q.run, why)
  BY <1>1, <1>3 DEF Answer, AnswerSet
<1>5. n.kind = q.kind /\ n.run = q.run /\ n.page = q.page /\ n.answer = a
  BY <1>2, <1>3, <1>4, AnsweredIs
<1>6. Reply(q, a) /\ run' = run /\ page' = page
  BY <1>1 DEF Refuse, backend, screen
<1>7. why \in {"400", "404", "409"} /\ Refused(a)
  BY <1>4 DEF Refusal, Refused
<1>8. Handled(q, a)
  BY <1>4, <1>6, <1>7 DEF Handled, Active, Refused
<1>9. q.page = page => AnswerIsTrue(n)'
  BY <1>3, <1>4, <1>5, <1>6, <1>7 DEF AnswerIsTrue, Dead
<1> QED
  BY <1>2, <1>4, <1>6, <1>8, <1>9, ReplySafe, StayOnward

LEMMA CreateSafe ==
    ASSUME IInv, NEW q \in requests, q.answer = None, create_experiment(q), UNCHANGED screen
    PROVE  IInv'
<1>1. q.kind = "create"
  BY DEF create_experiment
<1>2. CASE Refuse(q, "400")
  BY <1>1, <1>2, RefuseSafe DEF Refusal
<1>3. ASSUME NEW r \in Run, run[r] = "none", run' = [run EXCEPT ![r] = "running"],
             Reply(q, Answer(r, "running"))
      PROVE  IInv'
  <2>1. PICK a : a = Answer(r, "running")
    OBVIOUS
  <2>2. PICK n : n = [q EXCEPT !.answer = a]
    OBVIOUS
  <2>3. q \in Request /\ run \in RunStates
    BY DEF IInv, Types
  <2>4. a \in AnswerSet /\ a.run = r /\ a.status = "running"
    BY <2>1 DEF Answer, AnswerSet
  <2>5. n.kind = "create" /\ n.run = q.run /\ n.page = q.page /\ n.answer = a
    BY <1>1, <2>2, <2>3, <2>4, AnsweredIs
  <2>6. run'[r] = "running" /\ (\A o \in Run : o # r => run'[o] = run[o]) /\ run' \in RunStates
    BY <1>3, <2>3 DEF RunStates
  <2>7. Onward
    BY <1>3, <2>6 DEF Onward
  <2>8. Handled(q, a)
    BY <1>1, <1>3, <2>1, <2>4, <2>6 DEF Handled, Active
  <2>9. q.page = page => AnswerIsTrue(n)'
    BY <2>4, <2>5, <2>6 DEF AnswerIsTrue, screen
  <2> QED
    BY <1>3, <2>1, <2>2, <2>4, <2>7, <2>8, <2>9, ReplySafe
<1> QED
  BY <1>2, <1>3 DEF create_experiment

LEMMA GetSafe ==
    ASSUME IInv, NEW q \in requests, q.answer = None, get_experiment(q), UNCHANGED screen
    PROVE  IInv'
<1>1. q.kind \in {"poll", "adopt"} /\ run' = run /\ page' = page
  BY DEF get_experiment, backend, screen
<1>2. q \in Request /\ q.run \in Run /\ run[q.run] # "none" /\ run \in RunStates
  BY <1>1 DEF IInv, Types, Each, RequestOK
<1>3. CASE run[q.run] = "gone"
  BY <1>1, <1>3, RefuseSafe DEF get_experiment, Refuse, Refusal
<1>4. CASE run[q.run] # "gone"
  <2>1. PICK a : a = Answer(q.run, run[q.run])
    OBVIOUS
  <2>2. PICK n : n = [q EXCEPT !.answer = a]
    OBVIOUS
  <2>3. run[q.run] \in {"running", "paused", "finished"}
    BY <1>2, <1>4 DEF RunStates
  <2>4. a \in AnswerSet /\ a.run = q.run /\ a.status = run[q.run]
    BY <1>2, <2>1, <2>3 DEF Answer, AnswerSet
  <2>5. n.kind = q.kind /\ n.run = q.run /\ n.page = q.page /\ n.answer = a
    BY <1>2, <2>2, <2>4, AnsweredIs
  <2>6. Reply(q, a)
    BY <1>4, <2>1 DEF get_experiment
  <2>7. Handled(q, a)
    BY <1>1, <1>2, <2>4 DEF Handled, Active
  <2>8. q.page = page => AnswerIsTrue(n)'
    BY <1>1, <2>3, <2>4, <2>5 DEF AnswerIsTrue, Dead
  <2> QED
    BY <1>1, <2>2, <2>4, <2>6, <2>7, <2>8, ReplySafe, StayOnward
<1> QED
  BY <1>3, <1>4

LEMMA TransitionSafe ==
    ASSUME IInv, NEW q \in requests, q.answer = None, NEW kind, NEW to,
           (kind = "pause" /\ to = "paused") \/ (kind = "resume" /\ to = "running"),
           Transition(q, kind, to), UNCHANGED screen
    PROVE  IInv'
<1>1. q.kind = kind
  BY DEF Transition
<1>2. q \in Request /\ q.run \in Run /\ run[q.run] # "none" /\ run \in RunStates
  BY <1>1 DEF IInv, Types, Each, RequestOK
<1>3. CASE run[q.run] = "gone" /\ Refuse(q, "404")
  BY <1>1, <1>3, RefuseSafe DEF Refusal
<1>4. CASE run[q.run] = "finished" /\ Refuse(q, "409")
  BY <1>1, <1>4, RefuseSafe DEF Refusal, Dead
<1>5. CASE Active(q.run) /\ run' = [run EXCEPT ![q.run] = to] /\ Reply(q, Answer(q.run, to))
  <2>1. PICK a : a = Answer(q.run, to)
    OBVIOUS
  <2>2. PICK n : n = [q EXCEPT !.answer = a]
    OBVIOUS
  <2>3. a \in AnswerSet /\ a.run = q.run /\ a.status = to
    BY <1>1, <1>2, <2>1 DEF Answer, AnswerSet
  <2>4. n.kind = kind /\ n.run = q.run /\ n.page = q.page /\ n.answer = a
    BY <1>1, <1>2, <2>2, <2>3, AnsweredIs
  <2>5. run'[q.run] = to /\ (\A o \in Run : o # q.run => run'[o] = run[o]) /\ run' \in RunStates
    BY <1>1, <1>2, <1>5 DEF RunStates
  <2>6. Onward
    BY <1>1, <1>2, <1>5, <2>5 DEF Onward, Active
  <2>7. Handled(q, a)
    BY <1>1, <1>2, <1>5, <2>1, <2>3, <2>5 DEF Handled, Active
  <2>8. q.page = page => AnswerIsTrue(n)'
    BY <1>1, <2>3, <2>4 DEF AnswerIsTrue, screen
  <2> QED
    BY <1>5, <2>1, <2>2, <2>3, <2>6, <2>7, <2>8, ReplySafe
<1> QED
  BY <1>3, <1>4, <1>5 DEF Transition

LEMMA SpeedSafe ==
    ASSUME IInv, NEW q \in requests, q.answer = None, set_experiment_speed(q), UNCHANGED screen
    PROVE  IInv'
<1>1. q.kind = "speed"
  BY DEF set_experiment_speed
<1>2. q \in Request /\ q.run \in Run /\ run[q.run] # "none" /\ run \in RunStates
  BY <1>1 DEF IInv, Types, Each, RequestOK
<1>3. CASE run[q.run] = "gone" /\ Refuse(q, "404")
  BY <1>1, <1>3, RefuseSafe DEF Refusal
<1>4. CASE run[q.run] = "finished" /\ Refuse(q, "409")
  BY <1>1, <1>4, RefuseSafe DEF Refusal, Dead
<1>5. CASE Active(q.run) /\ run' = run /\ Reply(q, Answer(q.run, run[q.run]))
  <2>1. PICK a : a = Answer(q.run, run[q.run])
    OBVIOUS
  <2>2. PICK n : n = [q EXCEPT !.answer = a]
    OBVIOUS
  <2>3. a \in AnswerSet /\ a.run = q.run /\ a.status \in {"running", "paused"}
    BY <1>2, <1>5, <2>1 DEF Answer, AnswerSet, Active
  <2>4. n.kind = "speed" /\ n.run = q.run /\ n.page = q.page /\ n.answer = a
    BY <1>1, <1>2, <2>2, <2>3, AnsweredIs
  <2>5. Handled(q, a)
    BY <1>1, <1>2, <1>5, <2>3 DEF Handled, Active
  <2>6. q.page = page => AnswerIsTrue(n)'
    BY <2>3, <2>4 DEF AnswerIsTrue, screen
  <2> QED
    BY <1>5, <2>1, <2>2, <2>3, <2>5, <2>6, ReplySafe, StayOnward
<1> QED
  BY <1>3, <1>4, <1>5 DEF set_experiment_speed

LEMMA StopSafe ==
    ASSUME IInv, NEW q \in requests, q.answer = None, stop_experiment(q), UNCHANGED screen
    PROVE  IInv'
<1>1. q.kind = "stop"
  BY DEF stop_experiment
<1>2. q \in Request /\ q.run \in Run /\ run[q.run] # "none" /\ run \in RunStates
  BY <1>1 DEF IInv, Types, Each, RequestOK
<1>3. CASE run[q.run] = "gone" /\ Refuse(q, "404")
  BY <1>1, <1>3, RefuseSafe DEF Refusal
<1>4. ASSUME NEW status \in {"finished", "stopped"}, run[q.run] # "gone",
             run' = [run EXCEPT ![q.run] = "gone"], Reply(q, Answer(q.run, status))
      PROVE  IInv'
  <2>1. PICK a : a = Answer(q.run, status)
    OBVIOUS
  <2>2. PICK n : n = [q EXCEPT !.answer = a]
    OBVIOUS
  <2>3. a \in AnswerSet /\ a.run = q.run /\ a.status = status
    BY <1>2, <2>1 DEF Answer, AnswerSet
  <2>4. n.kind = "stop" /\ n.run = q.run /\ n.page = q.page /\ n.answer = a
    BY <1>1, <1>2, <2>2, <2>3, AnsweredIs
  <2>5. run'[q.run] = "gone" /\ (\A o \in Run : o # q.run => run'[o] = run[o]) /\ run' \in RunStates
    BY <1>2, <1>4 DEF RunStates
  <2>6. Onward
    BY <1>2, <2>5 DEF Onward
  <2>7. Handled(q, a)
    BY <1>1, <1>2, <2>3, <2>5 DEF Handled, Active
  <2>8. q.page = page => AnswerIsTrue(n)'
    BY <2>3, <2>4, <2>5 DEF AnswerIsTrue, Dead, screen
  <2> QED
    BY <1>4, <2>1, <2>2, <2>3, <2>6, <2>7, <2>8, ReplySafe
<1> QED
  BY <1>3, <1>4 DEF stop_experiment

LEMMA HandleSafe ==
    ASSUME IInv, NEW q \in requests, Handle(q)
    PROVE  IInv'
<1>1. q.answer = None /\ UNCHANGED screen
  BY DEF Handle
<1>2. CASE Transition(q, "pause", "paused")
  BY <1>1, <1>2, TransitionSafe
<1>3. CASE Transition(q, "resume", "running")
  BY <1>1, <1>3, TransitionSafe
<1> QED
  BY <1>1, <1>2, <1>3, CreateSafe, GetSafe, StopSafe, SpeedSafe DEF Handle

----------------------------------------------------------------------------
(* The page reads an answer, or learns that there is none *)

\* A request of the open page is the only one of its operation.
LEMMA OnlyOne ==
    ASSUME IInv, NEW q \in requests, q.page = page, q.kind \in ControlKinds
    PROVE  /\ ~hydrating /\ control.pending = q.action /\ control.operationId = q.id
           /\ q.action \in Action /\ control.pending # None
           /\ \A x \in requests : x.page = page /\ x # q =>
                x.kind = "poll" /\ x.revision # control.revision
           /\ q.kind # "resume" => ~Resumed
           /\ q.kind # "create" => \A r \in Run : ~Coming(r)
<1>1. Mine(q) /\ Each /\ Alone /\ requests \subseteq Request
  BY DEF IInv, Each, Types
<1>2. /\ ~hydrating /\ control.pending = q.action /\ control.operationId = q.id
      /\ q.action \in Action /\ control.pending # None
  BY <1>1, NoneIsNoRun DEF Mine, isCurrent
<1>3. ASSUME NEW x \in requests, x.page = page, x # q
      PROVE  x.kind = "poll" /\ x.revision # control.revision
  <2>1. Mine(x) /\ x.kind \in Kinds
    BY <1>1, <1>3 DEF Each, Request
  <2>2. x.kind \notin ControlKinds
    BY <1>1, <1>3 DEF Alone
  <2> QED
    BY <1>2, <2>1, <2>2 DEF Mine, Kinds
<1>4. q.kind # "resume" => ~Resumed
  BY <1>3 DEF Resumed
<1>5. q.kind # "create" => \A r \in Run : ~Coming(r)
  BY <1>1, <1>3 DEF Coming, Each, RequestOK, AnswerIsTrue
<1> QED
  BY <1>2, <1>3, <1>4, <1>5

\* The request q is over: what the console shows now must be so, and nothing it
\* was the only one to know may be lost.
LEMMA EndSafe ==
    ASSUME IInv, NEW q \in requests, q.page = page, q.kind # "adopt",
           requests' = requests \ {q}, UNCHANGED <<run, page, hydrating>>, Remember,
           unheard \subseteq unheard', unheard' \subseteq Run,
           control' \in Control, control'.revision = control.revision,
           \/ /\ q.kind \in ControlKinds /\ control'.pending = None
              /\ control'.experimentId # control.experimentId =>
                   control'.experimentId \in Run /\ run[control'.experimentId] # "none"
           \/ /\ q.kind = "poll" /\ control'.experimentId = control.experimentId
              /\ control'.pending = control.pending /\ control'.operationId = control.operationId,
           control'.experimentId = None <=> control'.status = "idle",
           control'.status \in {"finished", "stopped"} =>
             run[control'.experimentId] \in {"finished", "gone"},
           control'.status = "paused" => Paused(control.experimentId)' \/ Resumed',
           \A r \in Run : Active(r) =>
             r = control'.experimentId \/ r \in unheard' \/ Coming(r)'
    PROVE  IInv'
<1>1. run' = run /\ page' = page /\ hydrating' = hydrating
  OBVIOUS
<1>2. Each /\ Alone /\ Types /\ Mine(q) /\ q \in Request
  BY DEF IInv, Each, Types
<1>3. ~hydrating
  BY <1>2 DEF Mine, ControlKinds
<1>4. /\ control.experimentId \in Run \cup {None} /\ control'.experimentId \in Run \cup {None}
      /\ stored \in Run \cup {None}
  BY <1>2 DEF Types, Control
<1>5. Types'
  <2>1. stored' \in Run \cup {None}
    BY <1>4 DEF Remember
  <2> QED
    BY <1>1, <1>2, <2>1 DEF Types
<1>6. Screen'
  <2>1. control'.experimentId # None => control'.experimentId = stored' /\ run[stored'] # "none"
    BY <1>4 DEF IInv, Screen, Remember
  <2>2. stored' # None => run[stored'] # "none"
    BY <2>1 DEF IInv, Screen, Remember
  <2> QED
    BY <1>1, <1>3, <2>1, <2>2 DEF Screen, Dead
<1>7. Alone'
  BY <1>1, <1>2 DEF Alone
<1>8. Each'
  <2> SUFFICES ASSUME NEW x \in requests, x # q
               PROVE  RequestOK(x)' /\ (x.page = page => Mine(x)')
    BY <1>1 DEF Each
  <2>1. RequestOK(x) /\ (x.page = page => Mine(x))
    BY <1>2 DEF Each
  <2>2. RequestOK(x)'
    BY <1>1, <2>1 DEF RequestOK, AnswerIsTrue, Dead
  <2>3. CASE q.kind \in ControlKinds /\ control'.pending = None
    <3>1. x.page = page => x.kind = "poll" /\ x.revision # control.revision
      BY <2>3, OnlyOne
    <3>2. x.page = page => Mine(x)'
      BY <1>1, <1>3, <2>1, <3>1 DEF Mine, ControlKinds
    <3> QED
      BY <2>2, <3>2
  <2>4. CASE /\ q.kind = "poll" /\ control'.experimentId = control.experimentId
             /\ control'.pending = control.pending /\ control'.operationId = control.operationId
    <3>1. x.page = page => x.kind # "adopt"
      BY <1>3, <2>1 DEF Mine
    <3>2. x.page = page => Mine(x)'
      BY <1>1, <1>3, <2>1, <2>4, <3>1 DEF Mine, isCurrent, Dead
    <3> QED
      BY <2>2, <3>2
  <2> QED
    BY <2>3, <2>4
<1>9. Pauses'
  <2>1. \A x \in requests : SaysPaused(x)' => SaysPaused(x)
    BY <1>1 DEF SaysPaused
  <2>2. \A x \in requests : SaysPaused(x) => Paused(x.run)'
    BY <1>1 DEF IInv, Pauses, Paused
  <2> QED
    BY <2>1, <2>2 DEF Pauses
<1>10. Ours'
  BY <1>1 DEF Ours, Active
<1> QED
  BY <1>5, <1>6, <1>7, <1>8, <1>9, <1>10 DEF IInv

\* The page reads a about q; what it will never hear of is kept in unheard.
Got(q, a) ==
    /\ \/ a = q.answer /\ a # None
       \/ a = None /\ ActedOn(q) \subseteq unheard'
    /\ unheard \subseteq unheard' /\ unheard' \subseteq Run

LEMMA Untold ==
    ASSUME NEW q, NEW a, Got(q, a), Fails(a), q.kind # "adopt", q.answer # None,
           ~Refused(q.answer)
    PROVE  q.answer.run \in unheard'
BY DEF Got, Fails, ActedOn

\* An operation that failed leaves the console as it was before the click.
LEMMA FailedSafe ==
    ASSUME IInv, NEW q \in requests, q.page = page, q.kind \in ControlKinds, NEW a, Got(q, a),
           Fails(a), requests' = requests \ {q}, UNCHANGED <<run, page, hydrating>>, Remember,
           control' = Failed(control, q.action, q.id)
    PROVE  IInv'
<1>1. Each /\ Types /\ Screen /\ RequestOK(q) /\ Mine(q) /\ control \in Control
  BY DEF IInv, Each, Types
<1>2. control' = Settled(control)
  BY <1>1 DEF Failed, Mine
<1>3. /\ control' \in Control /\ control'.experimentId = control.experimentId
      /\ control'.status = control.status /\ control'.pending = None
      /\ control'.revision = control.revision
  BY <1>1, <1>2, SettledIs
<1>4. q.kind # "adopt" /\ unheard \subseteq unheard' /\ unheard' \subseteq Run
  BY DEF ControlKinds, Got
<1>5. control'.status = "paused" => Paused(control.experimentId)' \/ Resumed'
  <2>1. q.kind # "resume" => ~Resumed
    BY OnlyOne
  <2>2. Paused(control.experimentId) => Paused(control.experimentId)'
    BY <1>3, <1>4 DEF Paused
  <2>3. CASE q.kind = "resume" /\ Resumed
    <3>1. q.answer # None /\ q.answer.status = "running"
      BY <2>3, OnlyOne DEF Resumed
    <3>2. ~Refused(q.answer)
      BY <3>1 DEF Refused, Refusal
    <3>3. q.answer.run = control.experimentId
      BY <1>1, <2>3, <3>1 DEF Mine, RequestOK, AnswerIsTrue
    <3> QED
      BY <1>3, <1>4, <3>1, <3>2, <3>3, Untold DEF Paused
  <2>4. control.status = "paused" => Paused(control.experimentId) \/ Resumed
    BY DEF IInv, Pauses
  <2> QED
    BY <1>3, <2>1, <2>2, <2>3, <2>4
<1>6. \A r \in Run : Active(r) =>
        r = control'.experimentId \/ r \in unheard' \/ Coming(r)'
  <2> SUFFICES ASSUME NEW r \in Run, Active(r), r # control.experimentId, r \notin unheard'
               PROVE  FALSE
    BY <1>3
  <2>1. ~hydrating /\ (q.kind # "create" => ~Coming(r))
    BY OnlyOne
  <2>2. Coming(r)
    BY <1>4, <2>1 DEF IInv, Ours
  <2>3. q.answer # None /\ q.answer.status = "running" /\ q.answer.run = r
    BY <1>1, <2>2, OnlyOne DEF Coming, Each, RequestOK, AnswerIsTrue
  <2>4. ~Refused(q.answer)
    BY <2>3 DEF Refused, Refusal
  <2> QED
    BY <1>4, <2>3, <2>4, Untold
<1> QED
  BY <1>1, <1>3, <1>4, <1>5, <1>6, EndSafe DEF Screen, Dead

\* The operation ended with an answer that says how the console's own run is now.
LEMMA AnsweredSafe ==
    ASSUME IInv, NEW q \in requests, q.page = page, q.kind \in ControlKinds, NEW a, Got(q, a),
           requests' = requests \ {q}, UNCHANGED <<run, page, hydrating>>, Remember,
           control' \in Control, control'.revision = control.revision, control'.pending = None,
           control'.experimentId = control.experimentId, control.experimentId # None,
           \/ control'.status = control.status /\ q.kind # "resume"
           \/ control'.status = "running"
           \/ control'.status = "paused" /\ Paused(control.experimentId)
           \/ control'.status = "stopped" /\ Dead(control.experimentId),
           q.kind = "create" => Dead(control.experimentId) /\ ~(\E r \in Run : Coming(r) /\ r \notin unheard')
    PROVE  IInv'
<1>1. Each /\ Types /\ Screen /\ control \in Control
  BY DEF IInv, Types
<1>2. q.kind # "adopt" /\ unheard \subseteq unheard' /\ unheard' \subseteq Run
  BY DEF ControlKinds, Got
<1>3. control'.status # "idle"
  BY <1>1 DEF Screen
<1>4. control'.status \in {"finished", "stopped"} => run[control'.experimentId] \in {"finished", "gone"}
  BY <1>1 DEF Screen, Dead
<1>5. control'.status = "paused" => Paused(control.experimentId)' \/ Resumed'
  <2>1. control'.status = "paused" => Paused(control.experimentId)
    BY OnlyOne DEF IInv, Pauses
  <2> QED
    BY <1>2, <2>1 DEF Paused
<1>6. \A r \in Run : Active(r) =>
        r = control'.experimentId \/ r \in unheard' \/ Coming(r)'
  BY <1>2, OnlyOne DEF IInv, Ours
<1> QED
  BY <1>2, <1>3, <1>4, <1>5, <1>6, EndSafe

LEMMA CreateReadSafe ==
    ASSUME IInv, NEW q \in requests, q.page = page, q.kind = "create", NEW a, Got(q, a),
           CreateAnswered(q, a), UNCHANGED <<run, page, hydrating>>, Remember
    PROVE  IInv'
<1>1. /\ Each /\ Types /\ Screen /\ RequestOK(q) /\ Mine(q) /\ control \in Control
      /\ q \in Request /\ q.kind \in ControlKinds /\ requests' = requests \ {q}
  BY DEF IInv, Each, Types, ControlKinds, CreateAnswered
<1>2. q.action \in {"start", "reset"} /\ isCurrent(control, q.action, q.id)
  BY <1>1 DEF Mine
<1>3. CASE ~Fails(a)
  <2>1. a = q.answer /\ a # None /\ a.status = "running" /\ a.run \in Run /\ run[a.run] # "none"
    BY <1>1, <1>3 DEF Got, Fails, Refused, Refusal, RequestOK, AnswerIsTrue
  <2>2. control' = [Settled(control) EXCEPT !.experimentId = a.run, !.status = "running", !.speed = 1]
    BY <1>2, <1>3, <2>1 DEF CreateAnswered, Created
  <2>3. /\ control' \in Control /\ control'.experimentId = a.run /\ control'.status = "running"
        /\ control'.pending = None /\ control'.revision = control.revision
    BY <1>1, <2>1, <2>2 DEF Settled, Control, Status, Speeds
  <2>4. a.run # None /\ q.kind # "adopt" /\ unheard \subseteq unheard' /\ unheard' \subseteq Run
    BY <2>1, NoneIsNoRun DEF Got
  <2>5. \A r \in Run : Active(r) =>
          r = control'.experimentId \/ r \in unheard' \/ Coming(r)'
    <3> SUFFICES ASSUME NEW r \in Run, Active(r), r \notin unheard'
                 PROVE  r = a.run
      BY <2>3
    <3>1. ~hydrating
      BY <1>1, OnlyOne
    <3>2. r # control.experimentId
      BY <1>1, NoneIsNoRun DEF Mine, Dead, Active
    <3>3. Coming(r)
      BY <2>4, <3>1, <3>2 DEF IInv, Ours
    <3> QED
      BY <1>1, <2>1, <3>3, OnlyOne DEF Coming, Each, RequestOK, AnswerIsTrue
  <2> QED
    BY <1>1, <2>1, <2>3, <2>4, <2>5, EndSafe
<1>4. CASE Fails(a) /\ q.action = "start"
  BY <1>1, <1>4, FailedSafe DEF CreateAnswered
<1>5. CASE Fails(a) /\ q.action = "reset"
  <2>1. control' = [Settled(control) EXCEPT !.status = "stopped"]
    BY <1>2, <1>5 DEF CreateAnswered, StoppedOnly
  <2>2. /\ control' \in Control /\ control'.experimentId = control.experimentId
        /\ control'.status = "stopped" /\ control'.pending = None
        /\ control'.revision = control.revision
    BY <1>1, <2>1 DEF Settled, Control, Status
  <2>3. control.experimentId # None /\ Dead(control.experimentId)
    BY <1>1, <1>5 DEF Mine
  <2>4. ASSUME NEW r \in Run, Coming(r) PROVE r \in unheard'
    <3>1. q.answer # None /\ q.answer.status = "running" /\ q.answer.run = r
      BY <1>1, <2>4, OnlyOne DEF Coming, Each, RequestOK, AnswerIsTrue
    <3>2. ~Refused(q.answer) /\ q.kind # "adopt"
      BY <3>1 DEF Refused, Refusal
    <3> QED
      BY <1>5, <3>1, <3>2, Untold
  <2> QED
    BY <1>1, <2>2, <2>3, <2>4, AnsweredSafe
<1> QED
  BY <1>2, <1>3, <1>4, <1>5

LEMMA ControlReadSafe ==
    ASSUME IInv, NEW q \in requests, q.page = page, q.kind \in {"pause", "resume", "speed"},
           NEW a, Got(q, a), ControlAnswered(q, a), UNCHANGED <<run, page, hydrating>>, Remember
    PROVE  IInv'
<1>1. /\ Each /\ Types /\ Screen /\ Pauses /\ RequestOK(q) /\ Mine(q) /\ control \in Control
      /\ q \in Request /\ q.kind \in ControlKinds /\ requests' = requests \ {q}
  BY DEF IInv, Each, Types, ControlKinds, ControlAnswered
<1>2. /\ q.action = q.kind /\ isCurrent(control, q.action, q.id)
      /\ q.run = control.experimentId /\ q.run \in Run /\ control.experimentId # None
  BY <1>1, NoneIsNoRun DEF Mine, RequestOK
<1>3. CASE Fails(a)
  BY <1>1, <1>3, FailedSafe DEF ControlAnswered
<1>4. CASE ~Fails(a)
  <2>1. a = q.answer /\ a # None /\ AnswerIsTrue(q) /\ a.status \notin {"400", "404", "409"}
    BY <1>1, <1>4 DEF Got, Fails, Refused, Refusal, RequestOK
  <2>2. CASE q.kind = "speed"
    <3>1. control' = [Settled(control) EXCEPT !.speed = q.value]
      BY <1>2, <1>4, <2>2 DEF ControlAnswered, SpeedSet
    <3>2. q.value \in Speeds
      BY <1>1, <2>2 DEF RequestOK
    <3>3. /\ control' \in Control /\ control'.experimentId = control.experimentId
          /\ control'.status = control.status /\ control'.pending = None
          /\ control'.revision = control.revision
      BY <1>1, <3>1, <3>2 DEF Settled, Control
    <3> QED
      BY <1>1, <1>2, <2>2, <3>3, AnsweredSafe
  <2>3. CASE q.kind # "speed"
    <3>1. control' = [Settled(control) EXCEPT !.status = a.status]
      BY <1>2, <1>4, <2>3 DEF ControlAnswered, Transitioned
    <3>2. \/ q.kind = "pause" /\ a.status = "paused"
          \/ q.kind = "resume" /\ a.status = "running"
      BY <2>1, <2>3 DEF AnswerIsTrue
    <3>3. /\ control' \in Control /\ control'.experimentId = control.experimentId
          /\ control'.status = a.status /\ control'.pending = None
          /\ control'.revision = control.revision
      BY <1>1, <3>1, <3>2 DEF Settled, Control, Status
    <3>4. q.kind = "pause" => Paused(control.experimentId)
      BY <1>1, <1>2, <2>1, <3>2 DEF Pauses, SaysPaused
    <3> QED
      BY <1>1, <1>2, <3>2, <3>3, <3>4, AnsweredSafe
  <2> QED
    BY <2>2, <2>3
<1> QED
  BY <1>3, <1>4

\* The old run is gone: the reset goes on with the creation of the new one.
LEMMA StopReadSafe ==
    ASSUME IInv, NEW q \in requests, q.page = page, q.kind = "stop", NEW a, Got(q, a),
           StopAnswered(q, a), UNCHANGED <<run, page, hydrating>>, Remember
    PROVE  IInv'
<1>1. /\ Each /\ Types /\ Screen /\ RequestOK(q) /\ Mine(q) /\ control \in Control
      /\ q \in Request /\ q.kind \in ControlKinds
  BY DEF IInv, Each, Types, ControlKinds
<1>2. q.action = "reset" /\ isCurrent(control, "reset", q.id) /\ q.run = control.experimentId /\ q.run \in Run
  BY <1>1 DEF Mine, RequestOK
<1>3. CASE ~IsGone(a)
  <2>1. Fails(a) /\ requests' = requests \ {q} /\ control' = Failed(control, q.action, q.id)
    BY <1>2, <1>3 DEF StopAnswered, IsGone
  <2> QED
    BY <1>1, <2>1, FailedSafe
<1>4. CASE IsGone(a)
  <2>1. run[control.experimentId] = "gone" /\ control.experimentId # None
    BY <1>1, <1>2, <1>4, NoneIsNoRun DEF IsGone, Fails, Got, RequestOK, AnswerIsTrue
  <2>2. PICK c : c = Call("create", "reset", None, q.id, None)
    OBVIOUS
  <2>3. page \in Nat /\ q.id \in Nat \cup {None} /\ control.experimentId \in Run
    BY <1>1, <1>2 DEF Types, Request
  <2>4. /\ c \in Request /\ c.kind = "create" /\ c.action = "reset" /\ c.id = q.id
        /\ c.page = page /\ c.answer = None
    BY <1>1, <2>2, <2>3 DEF Call, Control, Request, Kinds, ControlKinds, Action
  <2>5. /\ requests' = (requests \ {q}) \cup {c} /\ control' = control /\ run' = run /\ page' = page
        /\ hydrating' = hydrating /\ stored' = control.experimentId
        /\ unheard \subseteq unheard' /\ unheard' \subseteq Run
    BY <1>4, <2>1, <2>2 DEF StopAnswered, SendCreate, Remember, Got
  <2>6. Types'
    BY <1>1, <2>3, <2>4, <2>5 DEF Types
  <2>7. Screen'
    BY <1>1, <2>1, <2>5 DEF Screen, Dead
  <2>8. /\ ~hydrating /\ ~Resumed /\ \A r \in Run : ~Coming(r)
        /\ \A x \in requests : x.page = page /\ x # q => x.kind = "poll" /\ x.revision # control.revision
    BY <1>1, OnlyOne
  <2>9. Alone'
    <3> SUFFICES ASSUME NEW x \in requests', NEW y \in requests', x.page = page, y.page = page
                 PROVE  /\ x.kind \in ControlKinds /\ y.kind \in ControlKinds => x = y
                        /\ x.kind = "adopt" /\ y.kind = "adopt" => x = y
      BY <2>5 DEF Alone
    <3> QED
      BY <2>4, <2>5, <2>8 DEF ControlKinds
  <2>10. Each'
    <3>1. RequestOK(c)'
      BY <2>3, <2>4, <2>5 DEF RequestOK
    <3>2. Mine(c)'
      BY <1>2, <2>1, <2>4, <2>5, <2>8 DEF Mine, ControlKinds, Action, Dead
    <3>3. \A x \in requests : RequestOK(x)' /\ (x.page = page => Mine(x)')
      BY <1>1, <2>5 DEF Each, RequestOK, Mine, AnswerIsTrue, Dead
    <3> QED
      BY <2>5, <3>1, <3>2, <3>3 DEF Each
  <2>11. Pauses'
    <3>1. Paused(control.experimentId)'
      BY <2>1, <2>5 DEF Paused
    <3>2. \A x \in requests : SaysPaused(x)' => Paused(x.run)'
      BY <2>5 DEF IInv, Pauses, Paused, SaysPaused
    <3> QED
      BY <2>4, <2>5, <3>1, <3>2 DEF Pauses, SaysPaused
  <2>12. Ours'
    BY <2>5, <2>8 DEF IInv, Ours, Active
  <2> QED
    BY <2>6, <2>7, <2>9, <2>10, <2>11, <2>12 DEF IInv
<1> QED
  BY <1>3, <1>4

LEMMA PollReadSafe ==
    ASSUME IInv, NEW q \in requests, q.page = page, q.kind = "poll", NEW a, Got(q, a),
           PollAnswered(q, a), UNCHANGED <<run, page, hydrating>>, Remember
    PROVE  IInv'
<1>1. /\ Each /\ Types /\ Screen /\ Pauses /\ RequestOK(q) /\ Mine(q) /\ control \in Control
      /\ q.kind # "adopt" /\ requests' = requests \ {q}
      /\ unheard \subseteq unheard' /\ unheard' \subseteq Run
  BY DEF IInv, Each, Types, PollAnswered, Got
<1>2. ~hydrating
  BY <1>1 DEF Mine
<1>3. Resumed => Resumed'
  BY <1>1 DEF Resumed
<1>4. \A r \in Run : Coming(r) => Coming(r)'
  BY <1>1 DEF Coming
<1>5. \A r \in Run : Active(r) => r = control.experimentId \/ r \in unheard' \/ Coming(r)'
  BY <1>1, <1>2, <1>4 DEF IInv, Ours
<1>6. Paused(control.experimentId) /\ control'.experimentId = control.experimentId =>
        Paused(control.experimentId)'
  BY <1>1 DEF Paused
<1>7. CASE control' = control
  BY <1>1, <1>3, <1>5, <1>6, <1>7, EndSafe DEF Pauses, Screen, Dead
<1>8. CASE /\ ~Fails(a) /\ q.run = control.experimentId /\ q.revision = control.revision
           /\ control' = [control EXCEPT !.status = a.status]
  <2>1. a = q.answer /\ AnswerIsTrue(q) /\ a.status \in {"running", "paused", "finished"} /\ q.run \in Run
    BY <1>1, <1>8 DEF Got, Fails, Refused, Refusal, RequestOK, AnswerIsTrue
  <2>2. /\ control' \in Control /\ control'.experimentId = control.experimentId
        /\ control'.status = a.status /\ control'.pending = control.pending
        /\ control'.operationId = control.operationId /\ control'.revision = control.revision
    BY <1>1, <1>8, <2>1 DEF Control, Status
  <2>3. a.status = "paused" => Paused(control.experimentId)
    BY <1>1, <1>8, <2>1 DEF Pauses, SaysPaused, Got, Fails
  <2>4. a.status = "finished" => run[control.experimentId] \in {"finished", "gone"}
    BY <1>8, <2>1 DEF AnswerIsTrue, Dead
  <2>5. control.experimentId # None
    BY <1>8, <2>1, NoneIsNoRun
  <2> QED
    BY <1>1, <1>5, <1>6, <2>1, <2>2, <2>3, <2>4, <2>5, EndSafe
<1> QED
  BY <1>7, <1>8 DEF PollAnswered, StatusSynced

\* The page knows its run again, or that there is none.
LEMMA AdoptReadSafe ==
    ASSUME IInv, NEW q \in requests, q.page = page, q.kind = "adopt", NEW a, Got(q, a),
           a = None => stored \in unheard',
           AdoptAnswered(q, a), UNCHANGED <<run, page>>
    PROVE  IInv'
<1>1. /\ Each /\ Types /\ Alone /\ RequestOK(q) /\ Mine(q) /\ control \in Control
      /\ requests \subseteq Request
      /\ requests' = requests \ {q} /\ run' = run /\ page' = page /\ hydrating' = FALSE
      /\ unheard \subseteq unheard' /\ unheard' \subseteq Run
  BY DEF IInv, Each, Types, AdoptAnswered, Got
<1>2. hydrating /\ q.run = stored /\ stored \in Run /\ control = initialControlState
  BY <1>1 DEF Mine, RequestOK, IInv, Screen
<1>3. \A x \in requests' : x.page # page /\ x.answer = None
  <2> SUFFICES ASSUME NEW x \in requests, x # q
               PROVE  x.page # page /\ x.answer = None
    BY <1>1
  <2>1. x.page # page
    BY <1>1, <1>2 DEF Each, Mine, Alone, Request, Kinds
  <2> QED
    BY <1>1, <2>1 DEF Each, RequestOK, AnswerIsTrue
<1>4. Alone' /\ Each'
  <2>1. \A x \in requests : RequestOK(x)'
    BY <1>1 DEF Each, RequestOK, AnswerIsTrue, Dead
  <2> QED
    BY <1>1, <1>3, <2>1 DEF Alone, Each
<1>5. \A r \in Run : ~Coming(r)
  BY <1>1, <1>2 DEF Coming, Each, RequestOK, AnswerIsTrue, Mine, ControlKinds
<1>6. canStart(control)
  BY <1>2 DEF canStart, initialControlState
<1>7. control.experimentId = None /\ control.status = "idle" /\ control.revision \in Nat
  BY <1>1, <1>2 DEF initialControlState, Control
<1>8. \A x \in requests' : ~SaysPaused(x)'
  BY <1>1, <1>3 DEF SaysPaused
<1>9. CASE Fails(a)
  <2>1. control' = control /\ stored' = None
    BY <1>9 DEF AdoptAnswered
  <2>2. stored \in unheard' \/ run[stored] = "gone"
    BY <1>1, <1>2, <1>9 DEF Got, Fails, Refused, Refusal, RequestOK, AnswerIsTrue
  <2>3. Types'
    BY <1>1, <2>1 DEF Types
  <2>4. Screen'
    BY <1>1, <1>7, <2>1 DEF Screen
  <2>5. Pauses'
    BY <1>7, <1>8, <2>1 DEF Pauses
  <2>6. Ours'
    BY <1>1, <1>5, <1>7, <2>1, <2>2, NoneIsNoRun DEF IInv, Ours, Active
  <2> QED
    BY <1>4, <2>3, <2>4, <2>5, <2>6 DEF IInv
<1>10. CASE ~Fails(a)
  <2>1. a = q.answer /\ AnswerIsTrue(q) /\ a.status \in {"running", "paused", "finished"} /\ a.run = stored
    BY <1>1, <1>2, <1>10 DEF Got, Fails, Refused, Refusal, RequestOK, AnswerIsTrue
  <2>2. PICK s : s = Requested(control, "start", NextOperationId)
    OBVIOUS
  <2>3. NextOperationId \in Nat
    BY <1>7 DEF NextOperationId
  <2>4. s \in Control /\ s.pending = "start" /\ s.operationId = NextOperationId
    <3>1. control.revision + 1 \in Nat
      BY <1>7
    <3> QED
      BY <1>1, <2>2, <2>3, <3>1 DEF Requested, Control, Action
  <2>5. control' = [Settled(s) EXCEPT !.experimentId = stored, !.status = a.status, !.speed = 1]
    BY <1>6, <1>10, <2>1, <2>2, <2>4 DEF AdoptAnswered, Created, isCurrent
  <2>6. control' \in Control /\ control'.experimentId = stored /\ control'.status = a.status
    BY <1>2, <2>1, <2>4, <2>5 DEF Settled, Control, Status, Speeds
  <2>7. stored' = stored /\ stored # None
    BY <1>2, <1>10, NoneIsNoRun DEF AdoptAnswered
  <2>8. Types'
    BY <1>1, <2>6, <2>7 DEF Types
  <2>9. Screen'
    BY <1>1, <1>2, <2>1, <2>6, <2>7 DEF IInv, Screen, AnswerIsTrue, Dead
  <2>10. a.status = "paused" => Paused(stored)
    BY <1>2, <1>10, <2>1 DEF IInv, Pauses, SaysPaused, Fails
  <2>11. Pauses'
    BY <1>1, <1>8, <2>6, <2>10 DEF Pauses, Paused
  <2>12. Ours'
    BY <1>1, <1>5, <1>7, <2>6, NoneIsNoRun DEF IInv, Ours, Active
  <2> QED
    BY <1>4, <2>8, <2>9, <2>11, <2>12 DEF IInv
<1> QED
  BY <1>9, <1>10

LEMMA ActedOnRuns ==
    ASSUME IInv, NEW q \in requests
    PROVE  ActedOn(q) \subseteq Run
BY DEF IInv, Each, RequestOK, AnswerIsTrue, ActedOn, Fails, Refused, Refusal

LEMMA ReadSafe ==
    ASSUME IInv, NEW q \in requests, NEW a, Got(q, a), Read(q, a)
    PROVE  IInv'
<1>1. q.page = page /\ UNCHANGED <<run, page>> /\ q.kind \in Kinds
  BY DEF Read, backend, IInv, Types, Request
<1>2. CASE q.kind = "adopt"
  <2>1. AdoptAnswered(q, a) /\ Mine(q)
    BY <1>1, <1>2 DEF Read, IInv, Each
  <2>2. a = None => stored \in unheard'
    BY <1>2, <2>1 DEF Got, ActedOn, Mine
  <2> QED
    BY <1>1, <1>2, <2>1, <2>2, AdoptReadSafe
<1>3. CASE q.kind = "stop"
  BY <1>1, <1>3, StopReadSafe DEF Read
<1>4. CASE q.kind = "create"
  BY <1>1, <1>4, CreateReadSafe DEF Read
<1>5. CASE q.kind = "poll"
  BY <1>1, <1>5, PollReadSafe DEF Read
<1>6. CASE q.kind \in {"pause", "resume", "speed"}
  BY <1>1, <1>6, ControlReadSafe DEF Read
<1> QED
  BY <1>1, <1>2, <1>3, <1>4, <1>5, <1>6 DEF Kinds, ControlKinds

LEMMA ArriveSafe ==
    ASSUME IInv, NEW q \in requests, Arrive(q)
    PROVE  IInv'
<1>1. Got(q, q.answer)
  BY DEF Arrive, Got, IInv, Types
<1> QED
  BY <1>1, ReadSafe DEF Arrive

LEMMA BreakSafe ==
    ASSUME IInv, NEW q \in requests, Break(q)
    PROVE  IInv'
<1>1. Got(q, None)
  BY ActedOnRuns DEF Break, Got, IInv, Types
<1> QED
  BY <1>1, ReadSafe DEF Break

\* The next page knows what the storage remembers; every answer under way is lost on it.
LEMMA ReloadSafe ==
    ASSUME IInv, Reload
    PROVE  IInv'
<1>1. /\ Each /\ Types /\ Screen /\ Ours /\ page \in Nat /\ stored \in Run \cup {None}
  BY DEF IInv, Types
<1>2. PICK c : c = [Call("adopt", None, stored, None, None) EXCEPT !.page = page + 1, !.revision = 0]
  OBVIOUS
<1>3. /\ run' = run /\ page' = page + 1 /\ control' = initialControlState
      /\ hydrating' = (stored # None) /\ stored' = stored
      /\ unheard' = unheard \cup UNION {ActedOn(q) : q \in requests}
  BY DEF Reload, backend
<1>4. /\ \A x \in requests' : (x = c /\ stored # None) \/ (x \in requests /\ x.answer = None /\ x.kind # "adopt")
  BY <1>2 DEF Reload
<1>5. /\ c.kind = "adopt" /\ c.page = page + 1 /\ c.answer = None /\ c.run = stored
      /\ c \in Request
  <2>1. page + 1 \in Nat /\ 0 \in Nat
    BY <1>1
  <2>2. PICK d : d = Call("adopt", None, stored, None, None)
    OBVIOUS
  <2>3. /\ d.kind = "adopt" /\ d.answer = None /\ d.run = stored /\ d \in Request
    BY <1>1, <2>2 DEF Call, Request, Kinds, Types, Control
  <2>4. c = [d EXCEPT !.page = page + 1, !.revision = 0]
    BY <1>2, <2>2
  <2> QED
    BY <2>1, <2>3, <2>4 DEF Request
<1>6. \A x \in requests : x.page # page'
  BY <1>1, <1>3 DEF Each, RequestOK, Types, Request
<1>7. Types'
  <2>1. unheard' \subseteq Run
    BY <1>1, <1>3, ActedOnRuns DEF Types
  <2>2. control' \in Control
    BY <1>3 DEF initialControlState, Control, Status, Speeds
  <2>3. page' \in Nat /\ requests' \subseteq Request /\ hydrating' \in BOOLEAN
    BY <1>1, <1>3, <1>4, <1>5 DEF Types
  <2> QED
    BY <1>1, <1>3, <2>1, <2>2, <2>3 DEF Types
<1>8. Screen'
  BY <1>1, <1>3 DEF Screen, Dead, initialControlState
<1>9. Alone'
  BY <1>4, <1>6 DEF Alone
<1>10. Each'
  <2> SUFFICES ASSUME NEW x \in requests'
               PROVE  RequestOK(x)' /\ (x.page = page' => Mine(x)')
    BY DEF Each
  <2>1. CASE x = c /\ stored # None
    <3>1. hydrating' = TRUE
      BY <1>3, <2>1
    <3>2. stored' \in Run /\ run'[stored'] # "none"
      BY <1>1, <1>3, <2>1 DEF Screen
    <3>3. c.page <= page'
      BY <1>1, <1>3, <1>5
    <3>4. RequestOK(c)'
      BY <1>3, <1>5, <3>2, <3>3 DEF RequestOK
    <3>5. Mine(c)'
      BY <1>3, <1>5, <3>1 DEF Mine, ControlKinds
    <3> QED
      BY <2>1, <3>4, <3>5
  <2>2. CASE x \in requests /\ x.answer = None
    <3>1. x.page <= page' /\ RequestOK(x)
      BY <1>1, <1>3, <2>2 DEF Each, RequestOK, Types, Request
    <3> QED
      BY <1>3, <1>6, <2>2, <3>1 DEF RequestOK
  <2> QED
    BY <1>4, <2>1, <2>2
<1>11. Pauses'
  BY <1>3, <1>4, <1>5 DEF Pauses, SaysPaused, initialControlState
<1>12. Ours'
  <2> SUFFICES ASSUME NEW r \in Run, Active(r), r \notin unheard'
               PROVE  hydrating' /\ r = stored'
    BY <1>3 DEF Ours, Active
  <2>1. ~Coming(r)
    BY <1>3 DEF Coming, ActedOn, Fails, Refused, Refusal
  <2>2. r \notin unheard /\ r # None
    BY <1>3, NoneIsNoRun
  <2>3. r = control.experimentId \/ (hydrating /\ r = stored)
    BY <1>1, <2>1, <2>2 DEF Ours
  <2> QED
    BY <1>1, <1>3, <2>2, <2>3 DEF Screen
<1> QED
  BY <1>7, <1>8, <1>9, <1>10, <1>11, <1>12 DEF IInv

----------------------------------------------------------------------------
(* The whole console *)

LEMMA InitSafe == Init => IInv
<1> SUFFICES ASSUME Init PROVE IInv
  OBVIOUS
<1>1. /\ run = [r \in Run |-> "none"] /\ control = initialControlState /\ hydrating = FALSE
      /\ stored = None /\ page = 1 /\ requests = {} /\ unheard = {}
  BY DEF Init
<1>2. Types
  BY <1>1 DEF Types, RunStates, Control, initialControlState, Status, Speeds
<1>3. Screen
  BY <1>1 DEF Screen, initialControlState
<1>4. Alone /\ Each
  BY <1>1 DEF Alone, Each
<1>5. Pauses /\ Ours
  BY <1>1 DEF Pauses, Ours, Active, initialControlState
<1> QED
  BY <1>2, <1>3, <1>4, <1>5 DEF IInv

LEMMA StepSafe == IInv /\ [Next]_vars => IInv'
<1> SUFFICES ASSUME IInv, [Next]_vars PROVE IInv'
  OBVIOUS
<1>1. CASE UNCHANGED vars
  <2>1. /\ control' = control /\ hydrating' = hydrating /\ stored' = stored /\ page' = page
        /\ requests' = requests /\ unheard' = unheard /\ run' = run
    BY <1>1 DEF vars, backend, screen
  <2>2. Onward /\ NoneResumed
    BY <2>1, StayOnward DEF NoneResumed, Active
  <2> QED
    BY <2>1, <2>2, RunsEndSafe
<1>2. CASE Start \/ Pause \/ Resume \/ ChangeSpeed \/ Reset
  BY <1>2, ButtonSafe
<1>3. CASE SendPoll
  BY <1>3, SendPollSafe
<1>4. CASE Restart
  BY <1>4, RestartSafe
<1>5. CASE Reload
  BY <1>5, ReloadSafe
<1>6. ASSUME NEW r \in Run, Finish(r) PROVE IInv'
  BY <1>6, FinishSafe
<1>7. ASSUME NEW q \in requests, Handle(q) \/ Arrive(q) \/ Break(q) PROVE IInv'
  BY <1>7, HandleSafe, ArriveSafe, BreakSafe
<1> QED
  BY <1>1, <1>2, <1>3, <1>4, <1>5, <1>6, <1>7 DEF Next

LEMMA ConsoleInvariant == Spec => []IInv
BY InitSafe, StepSafe, PTL DEF Spec

\* What the invariant leaves out of the type: the multipliers and the bounds.
Bounds ==
    /\ speed \in [Run -> Speeds]
    /\ page \in 1..MaxPages /\ clicks \in 0..MaxClicks /\ lost \in 0..MaxLost

LEMMA BoundsStep == IInv /\ Bounds /\ [Next]_vars => Bounds'
<1> SUFFICES ASSUME IInv, Bounds, [Next]_vars PROVE Bounds'
  OBVIOUS
<1>1. MaxPages \in Nat /\ MaxClicks \in Nat /\ MaxLost \in Nat
  BY ConsoleAssumption
<1>2. CASE UNCHANGED vars
  BY <1>2 DEF vars, backend, screen, counted, Bounds
<1>3. CASE Start \/ Pause \/ Resume \/ ChangeSpeed \/ Reset
  <2>1. clicks < MaxClicks /\ clicks' = clicks + 1 /\ UNCHANGED <<speed, page, lost>>
    BY <1>3 DEF Start, Pause, Resume, ChangeSpeed, Reset, Click, backend
  <2> QED
    BY <1>1, <2>1 DEF Bounds
<1>4. CASE SendPoll
  BY <1>4 DEF SendPoll, backend, screen, counted, Bounds
<1>5. CASE Restart
  <2>1. lost < MaxLost /\ lost' = lost + 1 /\ UNCHANGED <<speed, page, clicks>>
    BY <1>5 DEF Restart, screen
  <2> QED
    BY <1>1, <2>1 DEF Bounds
<1>6. CASE Reload
  <2>1. page < MaxPages /\ page' = page + 1 /\ UNCHANGED <<speed, clicks, lost>>
    BY <1>6 DEF Reload, backend, counted
  <2> QED
    BY <1>1, <2>1 DEF Bounds
<1>7. ASSUME NEW r \in Run, Finish(r) PROVE Bounds'
  BY <1>7 DEF Finish, screen, counted, Bounds
<1>8. ASSUME NEW q \in requests, Handle(q) PROVE Bounds'
  <2>1. UNCHANGED <<page, clicks, lost>>
    BY <1>8 DEF Handle, screen, counted
  <2>2. CASE set_experiment_speed(q) /\ speed' # speed
    <3>1. q.kind = "speed" /\ speed' = [speed EXCEPT ![q.run] = q.value]
      BY <2>2 DEF set_experiment_speed, Refuse, backend
    <3>2. q.value \in Speeds
      BY <3>1 DEF IInv, Each, RequestOK
    <3> QED
      BY <2>1, <3>1, <3>2 DEF Bounds
  <2>3. CASE speed' = speed
    BY <2>1, <2>3 DEF Bounds
  <2>4. ~set_experiment_speed(q) => speed' = speed
    BY <1>8 DEF Handle, create_experiment, get_experiment, stop_experiment, Transition, Refuse, backend
  <2> QED
    BY <2>2, <2>3, <2>4
<1>9. ASSUME NEW q \in requests, Arrive(q) PROVE Bounds'
  BY <1>9 DEF Arrive, Read, backend, counted, Bounds
<1>10. ASSUME NEW q \in requests, Break(q) PROVE Bounds'
  <2>1. lost < MaxLost /\ lost' = lost + 1 /\ UNCHANGED <<speed, page, clicks>>
    BY <1>10 DEF Break, Read, backend
  <2> QED
    BY <1>1, <2>1 DEF Bounds
<1> QED
  BY <1>2, <1>3, <1>4, <1>5, <1>6, <1>7, <1>8, <1>9, <1>10 DEF Next

\* Every variable of the console keeps its type and every bound of the model is kept.
THEOREM TypeSafe == Spec => []TypeOK
<1>1. Init => Bounds
  BY ConsoleAssumption DEF Init, Bounds, Speeds
<1>2. IInv /\ Bounds => TypeOK
  BY DEF IInv, Types, RunStates, Control, Bounds, TypeOK
<1> QED
  BY <1>1, <1>2, BoundsStep, ConsoleInvariant, PTL DEF Spec

\* However often the page is loaded again, exchanges break and the backend restarts, a run
\* that is alive is the console's own, or the one it is about to adopt, or its creation is
\* about to be read, or an answer about it was lost (createExperiment and reset of the
\* provider, the hydration of the stored run).
THEOREM NothingForgotten == Spec => []NoRunIsForgotten
<1>1. IInv => NoRunIsForgotten
  <2> SUFFICES ASSUME IInv, NEW r \in Run, Active(r),
                      r # control.experimentId, r \notin unheard, ~(hydrating /\ r = stored)
               PROVE  \E q \in requests : q.answer = Answer(r, "running") /\ q.kind = "create"
    BY DEF NoRunIsForgotten
  <2>1. PICK q \in requests : /\ q.kind = "create" /\ q.answer # None
                              /\ q.answer.status = "running" /\ q.answer.run = r
    BY DEF IInv, Ours, Coming
  <2>2. q.answer \in AnswerSet
    BY <2>1 DEF IInv, Types, Request
  <2>3. q.answer = Answer(r, "running")
    BY <2>1, <2>2 DEF AnswerSet, Answer
  <2> QED
    BY <2>1, <2>3
<1> QED
  BY <1>1, ConsoleInvariant, PTL

\* A run the console shows as paused, and does not poll, never ticks: it is paused, has come
\* to its end or is gone, whatever answers were late and whichever poll was sent before the
\* last click.
THEOREM PausedRunsDoNotTick == Spec => []PausedIsNotRunning
<1>1. IInv => PausedIsNotRunning
  <2> SUFFICES ASSUME IInv, control.status = "paused", control.pending = None,
                      control.experimentId \notin unheard
               PROVE  run[control.experimentId] \in {"paused", "finished", "gone"}
    BY DEF PausedIsNotRunning
  <2>1. ~Resumed
    BY OnlyOne DEF Resumed, ControlKinds
  <2> QED
    BY <2>1 DEF IInv, Pauses, Paused
<1> QED
  BY <1>1, ConsoleInvariant, PTL
----------------------------------------------------------------------------
(* The launch form, whose configuration the console's "create" carries.    *)

Config == [number : [NumberKey -> Int], model_provider : {"mock", "vllm"},
           defense_enabled : BOOLEAN, active_scenarios : SUBSET Scenario]

\* What every configuration is that was ever in the form.
Sound(config) ==
    /\ config \in Config /\ Valid(config)
    /\ ~({"propagation", "adaptive_attacker"} \subseteq config.active_scenarios)

FormInv ==
    /\ Sound(draft)
    /\ launching # Null => Sound(launching)
    /\ active # Null => Sound(active) /\ ~LacksModel(active)
    /\ refused # Null => "vllm" \in refused

----------------------------------------------------------------------------
\* The six bounded fields, one by one.
LEMMA FieldBounds ==
    /\ NumberKey = {"node_count", "sentinel_count", "credential_count", "real_agent_count",
                         "detector_sensitivity", "p_same"}
    /\ \A key \in NumberKey :
         /\ BOUNDS[key][1] \in Int /\ BOUNDS[key][2] \in Int
         /\ BOUNDS[key][1] <= BOUNDS[key][2]
<1>1. NumberKey = {"node_count", "sentinel_count", "credential_count", "real_agent_count",
                        "detector_sensitivity", "p_same"}
  BY DEF NumberKey, BOUNDS
<1>2. /\ BOUNDS["node_count"] = <<25, 100>> /\ BOUNDS["sentinel_count"] = <<0, 5>>
      /\ BOUNDS["credential_count"] = <<0, 20>> /\ BOUNDS["real_agent_count"] = <<0, 20>>
      /\ BOUNDS["detector_sensitivity"] = <<0, 100>> /\ BOUNDS["p_same"] = <<0, 100>>
  BY DEF BOUNDS
<1> QED
  BY <1>1, <1>2

\* A clamped number is within its bounds.
LEMMA ClampIsWithin ==
    ASSUME NEW value \in Int, NEW lo \in Int, NEW hi \in Int, lo <= hi
    PROVE  clamp(value, lo, hi) \in Int /\ clamp(value, lo, hi) \in lo..hi
BY DEF clamp

LEMMA DefaultIsSound == Sound(DEFAULT_CONFIG)
<1>1. DEFAULT_CONFIG \in Config
  BY FieldBounds DEF DEFAULT_CONFIG, Config, Scenario
<1>2. Valid(DEFAULT_CONFIG)
  BY DEF Valid, DEFAULT_CONFIG, NumberKey, BOUNDS
<1> QED
  BY <1>1, <1>2 DEF Sound, DEFAULT_CONFIG

\* What a preset may change: two scenarios that own the tick apart, anything in its bounds.
LEMMA ChangeIsSound ==
    ASSUME NEW config, Sound(config)
    PROVE  /\ \A key \in NumberKey : \A n \in BOUNDS[key][1]..BOUNDS[key][2] :
                 Sound([config EXCEPT !.number[key] = n])
           /\ \A d \in BOOLEAN : Sound([config EXCEPT !.defense_enabled = d])
           /\ \A provider \in {"mock", "vllm"} : Sound([config EXCEPT !.model_provider = provider])
           /\ \A new \in SUBSET Scenario :
                 ~({"propagation", "adaptive_attacker"} \subseteq new)
                   => Sound([config EXCEPT !.active_scenarios = new])
<1>1. config \in Config /\ Valid(config)
  BY DEF Sound
<1>2. ASSUME NEW key \in NumberKey, NEW n \in BOUNDS[key][1]..BOUNDS[key][2]
      PROVE  Sound([config EXCEPT !.number[key] = n])
  <2> DEFINE after == [config EXCEPT !.number[key] = n]
  <2>1. n \in Int
    BY FieldBounds
  <2>2. after \in Config /\ after.active_scenarios = config.active_scenarios
    BY <1>1, <2>1 DEF Config
  <2>3. \A k \in NumberKey : after.number[k] = IF k = key THEN n ELSE config.number[k]
    BY <1>1 DEF Config
  <2> HIDE DEF after
  <2>4. Valid(after)
    BY <1>1, <2>3 DEF Valid
  <2>5. Sound(after)
    BY <2>2, <2>4 DEF Sound
  <2> QED
    BY <2>5 DEF after
<1>3. ASSUME NEW d \in BOOLEAN
      PROVE  Sound([config EXCEPT !.defense_enabled = d])
  BY <1>1 DEF Config, Sound, Valid
<1>4. ASSUME NEW provider \in {"mock", "vllm"}
      PROVE  Sound([config EXCEPT !.model_provider = provider])
  BY <1>1 DEF Config, Sound, Valid
<1>5. ASSUME NEW new \in SUBSET Scenario,
             ~({"propagation", "adaptive_attacker"} \subseteq new)
      PROVE  Sound([config EXCEPT !.active_scenarios = new])
  <2> DEFINE after == [config EXCEPT !.active_scenarios = new]
  <2>1. after \in Config /\ after.active_scenarios = new /\ after.number = config.number
    BY <1>1 DEF Config
  <2> HIDE DEF after
  <2>2. Sound(after)
    BY <1>1, <1>5, <2>1 DEF Sound, Valid
  <2> QED
    BY <2>2 DEF after
<1> QED
  BY <1>2, <1>3, <1>4, <1>5

LEMMA PresetsAreSound == \A p \in DOMAIN PRESETS : Sound(PRESETS[p])
<1>1. DOMAIN PRESETS = {"baseline", "undefended", "securityPlane", "adaptive"}
  BY DEF PRESETS
<1>2. /\ {"node_count", "sentinel_count", "credential_count", "detector_sensitivity"} \subseteq NumberKey
      /\ 80 \in BOUNDS["node_count"][1]..BOUNDS["node_count"][2]
      /\ 50 \in BOUNDS["detector_sensitivity"][1]..BOUNDS["detector_sensitivity"][2]
      /\ {4, 5} \subseteq BOUNDS["credential_count"][1]..BOUNDS["credential_count"][2]
      /\ {2, 3} \subseteq BOUNDS["sentinel_count"][1]..BOUNDS["sentinel_count"][2]
  BY FieldBounds DEF BOUNDS
<1>3. Sound(PRESETS["baseline"])
  BY DefaultIsSound DEF PRESETS
<1>4. Sound(PRESETS["undefended"])
  <2> DEFINE a == [DEFAULT_CONFIG EXCEPT !.defense_enabled = FALSE]
             b == [a EXCEPT !.number["credential_count"] = 4]
             c == [b EXCEPT !.number["sentinel_count"] = 2]
             d == [c EXCEPT !.active_scenarios = {"propagation"}]
  <2>1. PRESETS["undefended"] = d
    BY DEF PRESETS
  <2>2. Sound(a)
    BY DefaultIsSound, ChangeIsSound
  <2> HIDE DEF a
  <2>3. Sound(b)
    BY <1>2, <2>2, ChangeIsSound
  <2> HIDE DEF b
  <2>4. Sound(c)
    BY <1>2, <2>3, ChangeIsSound
  <2> HIDE DEF c
  <2>5. Sound(d)
    BY <2>4, ChangeIsSound DEF Scenario
  <2> QED
    BY <2>1, <2>5
<1>5. Sound(PRESETS["securityPlane"])
  <2> DEFINE a == [DEFAULT_CONFIG EXCEPT !.number["credential_count"] = 4]
             b == [a EXCEPT !.number["sentinel_count"] = 2]
             c == [b EXCEPT !.active_scenarios = {"propagation", "sentinel_compromise",
                                                  "attestation", "byzantine_collusion"}]
  <2>1. PRESETS["securityPlane"] = c
    BY DEF PRESETS
  <2>2. Sound(a)
    BY <1>2, DefaultIsSound, ChangeIsSound
  <2> HIDE DEF a
  <2>3. Sound(b)
    BY <1>2, <2>2, ChangeIsSound
  <2> HIDE DEF b
  <2>4. Sound(c)
    BY <2>3, ChangeIsSound DEF Scenario
  <2> QED
    BY <2>1, <2>4
<1>6. Sound(PRESETS["adaptive"])
  <2> DEFINE a == [DEFAULT_CONFIG EXCEPT !.number["node_count"] = 80]
             b == [a EXCEPT !.number["detector_sensitivity"] = 50]
             c == [b EXCEPT !.number["credential_count"] = 5]
             d == [c EXCEPT !.number["sentinel_count"] = 3]
             e == [d EXCEPT !.active_scenarios = {"adaptive_attacker"}]
  <2>1. PRESETS["adaptive"] = e
    BY DEF PRESETS
  <2>2. Sound(a)
    BY <1>2, DefaultIsSound, ChangeIsSound
  <2> HIDE DEF a
  <2>3. Sound(b)
    BY <1>2, <2>2, ChangeIsSound
  <2> HIDE DEF b
  <2>4. Sound(c)
    BY <1>2, <2>3, ChangeIsSound
  <2> HIDE DEF c
  <2>5. Sound(d)
    BY <1>2, <2>4, ChangeIsSound
  <2> HIDE DEF d
  <2>6. Sound(e)
    BY <2>5, ChangeIsSound DEF Scenario
  <2> QED
    BY <2>1, <2>6
<1> QED
  BY <1>1, <1>3, <1>4, <1>5, <1>6

----------------------------------------------------------------------------
\* An edit replaces the draft and leaves the launches alone.
LEMMA EditKeepsTheRest ==
    ASSUME FormInv, NEW config, Edit(config), Sound(config)
    PROVE  FormInv'
BY DEF FormInv, Edit, Sound, Valid, LacksModel

\* A number typed into a field is within the field's bounds.
LEMMA NumberIsSound ==
    ASSUME FormAssumption, FormInv,
           NEW key \in NumberKey, NEW value \in Inputs, setNumber(key, value)
    PROVE  FormInv'
<1> DEFINE n == clamp(value, BOUNDS[key][1], BOUNDS[key][2])
           config == [draft EXCEPT !.number[key] = n]
<1>1. n \in BOUNDS[key][1]..BOUNDS[key][2]
  BY FieldBounds, ClampIsWithin, FormAssumption
<1>2. Edit(config)
  BY DEF setNumber
<1> HIDE DEF n
<1>3. Sound(config)
  BY <1>1, ChangeIsSound DEF FormInv
<1> HIDE DEF config
<1> QED
  BY <1>2, <1>3, EditKeepsTheRest

\* Taking a scenario that owns the tick drops the other.
LEMMA ToggleIsSound ==
    ASSUME FormInv, NEW s \in Scenario, toggleScenario(s)
    PROVE  FormInv'
<1> DEFINE held == draft.active_scenarios
           new == IF s \in held THEN held \ {s} ELSE (held \ exclusiveWith[s]) \cup {s}
           config == [draft EXCEPT !.active_scenarios = new]
<1>1. new \in SUBSET Scenario
  BY DEF FormInv, Sound, Config
<1>2. ~({"propagation", "adaptive_attacker"} \subseteq new)
  <2>1. ~({"propagation", "adaptive_attacker"} \subseteq held)
    BY DEF FormInv, Sound
  <2>2. /\ s = "propagation" => exclusiveWith[s] = {"adaptive_attacker"}
        /\ s = "adaptive_attacker" => exclusiveWith[s] = {"propagation"}
    BY DEF exclusiveWith, Scenario
  <2> QED
    BY <2>1, <2>2
<1>3. Edit(config)
  BY DEF toggleScenario
<1> HIDE DEF new
<1>4. Sound(config)
  BY <1>1, <1>2, ChangeIsSound DEF FormInv
<1> HIDE DEF config
<1> QED
  BY <1>3, <1>4, EditKeepsTheRest

\* The two fields no bound speaks of.
LEMMA ChoiceIsSound ==
    ASSUME FormInv, SelectField \/ ToggleField
    PROVE  FormInv'
<1>1. Sound(draft)
  BY DEF FormInv
<1>2. ASSUME NEW provider \in {"mock", "vllm"}, Edit([draft EXCEPT !.model_provider = provider])
      PROVE  FormInv'
  BY <1>1, <1>2, ChangeIsSound, EditKeepsTheRest
<1>3. ASSUME ToggleField
      PROVE  FormInv'
  <2>1. (~draft.defense_enabled) \in BOOLEAN
    BY Zenon
  <2>2. Edit([draft EXCEPT !.defense_enabled = ~draft.defense_enabled])
    BY <1>3 DEF ToggleField
  <2>3. Sound([draft EXCEPT !.defense_enabled = ~draft.defense_enabled])
    BY <1>1, <2>1, ChangeIsSound
  <2> QED
    BY <2>2, <2>3, EditKeepsTheRest
<1> QED
  BY <1>2, <1>3 DEF SelectField

\* A refusal is of a missing model, and the form said so.
LEMMA RefusalIsSound ==
    ASSUME FormInv, LaunchRefused
    PROVE  FormInv'
<1>1. Sound(launching) /\ LacksModel(launching)
  BY DEF FormInv, LaunchRefused, Sound
<1>2. ASSUME refused' # Null
      PROVE  "vllm" \in refused'
  <2>1. launching = draft /\ Uses("prompt_injection") /\ refused' = Warnings
    BY <1>2 DEF LaunchRefused, Shown
  <2>2. warnsOfVllm
    BY <1>1, <2>1 DEF LacksModel, warnsOfVllm
  <2>3. DOMAIN Banner = {"sentinels", "credentials", "agents", "vllm"}
    BY DEF Banner
  <2>4. Banner["vllm"] = warnsOfVllm
    BY DEF Banner
  <2>5. Banner["vllm"]
    BY <2>2, <2>4
  <2>6. "vllm" \in Warnings
    BY <2>3, <2>5 DEF Warnings
  <2> QED
    BY <2>1, <2>6
<1>3. /\ UNCHANGED <<draft, active>> /\ launching' = Null
  BY DEF LaunchRefused
<1> QED
  BY <1>2, <1>3 DEF FormInv, Sound, Valid, LacksModel

----------------------------------------------------------------------------
\* Every configuration in the form, in a launch or in a run is sound: no two owners
\* of the tick, every number within its bounds (RunConfigurator.tsx edit, presets.ts).
THEOREM FormSound ==
    ASSUME FormAssumption
    PROVE  FormSpec => []FormInv
<1>1. FormInit => FormInv
  BY DefaultIsSound DEF FormInit, FormInv
<1>2. FormInv /\ [FormNext]_formVars => FormInv'
  <2> SUFFICES ASSUME FormInv, [FormNext]_formVars
               PROVE  FormInv'
    OBVIOUS
  <2>1. ASSUME NEW key \in NumberKey, NumberField(key)
        PROVE  FormInv'
    BY <2>1, NumberIsSound DEF NumberField
  <2>2. CASE SelectField \/ ToggleField
    BY <2>2, ChoiceIsSound
  <2>3. CASE ChipMultiSelect
    BY <2>3, ToggleIsSound DEF ChipMultiSelect
  <2>4. ASSUME NEW p \in DOMAIN PRESETS, ChoosePreset(p)
        PROVE  FormInv'
    BY <2>4, PresetsAreSound DEF ChoosePreset, FormInv, Sound, Valid, LacksModel
  <2>5. CASE ToggleConfiguring
    BY <2>5 DEF ToggleConfiguring, Mount, FormInv, Sound, Valid, LacksModel
  <2>6. CASE Submit
    BY <2>6 DEF Submit, FormInv, Sound, Valid, LacksModel
  <2>7. CASE Rerun
    BY <2>7 DEF Rerun, FormInv, Sound, Valid, LacksModel
  <2>8. CASE LaunchSucceeds
    BY <2>8 DEF LaunchSucceeds, FormInv, Sound, Valid, LacksModel
  <2>9. CASE LaunchRefused
    BY <2>9, RefusalIsSound
  <2>10. CASE RunEnds
    BY <2>10 DEF RunEnds, FormInv, Sound, Valid, LacksModel
  <2>11. CASE UNCHANGED formVars
    BY <2>11 DEF formVars, FormInv, Sound, Valid, LacksModel
  <2> QED
    BY <2>1, <2>2, <2>3, <2>4, <2>5, <2>6, <2>7, <2>8, <2>9, <2>10, <2>11 DEF FormNext
<1> QED
  BY <1>1, <1>2, PTL DEF FormSpec

\* No configuration has two owners of the tick increment (RunConfigurator.tsx:51-65,
\* toggleScenario), for any sequence of edits, launches and re-runs.
THEOREM TickHasOneOwner ==
    ASSUME FormAssumption
    PROVE  FormSpec => []OneTickOwner
<1>1. FormInv => OneTickOwner
  BY DEF FormInv, Sound, OneTickOwner
<1> QED
  BY <1>1, FormSound, PTL

\* The route refuses a launch only for the model the form warned of
\* (RunConfigurator.tsx:342-347), for any text typed into its fields.
THEOREM RefusalsAreForeseen ==
    ASSUME FormAssumption
    PROVE  FormSpec => []LaunchIsForeseen
<1>1. FormInv => LaunchIsForeseen
  BY DEF FormInv, Sound, LaunchIsForeseen
<1> QED
  BY <1>1, FormSound, PTL
=============================================================================
