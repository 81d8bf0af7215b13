----------------------------- MODULE GaplessFeed -----------------------------
(***************************************************************************)
(* What the event stream promises a client (docs/SPEC.md section 4), with  *)
(* no server in it: the log only grows, and once the client has a position *)
(* in it, from a snapshot or from the event it saw last, it moves forward  *)
(* one event at a time, with no gap and no replayed duplicate.             *)
(***************************************************************************)
EXTENDS Integers

CONSTANT None

VARIABLES
    last,   \* seq of the last event of the log, -1 while it is empty
    frame   \* the last frame the client applied, None before its first snapshot

feedVars == <<last, frame>>

Init == last = -1 /\ frame = None

Extend == last' > last /\ UNCHANGED frame

\* A snapshot may show any moment of the log that the client has not passed yet.
TakeSnapshot ==
    /\ \E n \in -1..last :
         /\ frame # None => frame.seq <= n
         /\ frame' = [type |-> "snapshot", seq |-> n]
    /\ UNCHANGED last

TakeEvent ==
    /\ frame # None /\ frame.seq < last
    /\ frame' = [type |-> "event", seq |-> frame.seq + 1]
    /\ UNCHANGED last

Next == Extend \/ TakeSnapshot \/ TakeEvent

Spec == Init /\ [][Next]_feedVars
============================================================================
