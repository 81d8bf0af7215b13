--------------------------- MODULE MCIncidentView ---------------------------
(* The session and the screen that shows it: ids are interchangeable, and all  *)
(* workers have the same role, so that the activity of several reads as one's. *)
EXTENDS IncidentView, TLC

MCRole == [w \in Worker |-> "developer"]

Symmetry == Permutations(Worker) \cup Permutations(Artifact) \cup Permutations(Protected)
=============================================================================
