-------------------------- MODULE MCRuntimeSession --------------------------
(* RuntimeSession on a small team: ids are interchangeable, so symmetric. *)
EXTENDS RuntimeSession, TLC

Symmetry == Permutations(Worker) \cup Permutations(Artifact)
============================================================================
