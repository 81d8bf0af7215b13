------------------------------- MODULE MCArchive -------------------------------
(* Three agents and a short run: its first sweep is stamped with tick 0, agent 3 *)
(* is claimed twice in the next one, and agent 3 is quarantined.                 *)
EXTENDS Archive

E(seq, tick, type, agent, source, target, dup) ==
    [seq |-> seq, tick |-> tick, type |-> type, agent |-> agent, source |-> source,
     target |-> target, already_compromised |-> dup]

MCHistory ==
    << E(0, 0, "EXPERIMENT_STARTED", None, None, None, FALSE),
       E(1, 0, "COMPROMISE_SUCCEEDED", None, None, 1, FALSE),
       E(2, 0, "COMPROMISE_SUCCEEDED", None, 1, 2, FALSE),
       E(3, 1, "COMPROMISE_SUCCEEDED", None, 1, 3, FALSE),
       E(4, 1, "COMPROMISE_SUCCEEDED", None, 2, 3, TRUE),
       E(5, 2, "AGENT_QUARANTINED", 3, None, None, FALSE),
       E(6, 2, "MODEL_REQUESTED", 2, None, None, FALSE),
       E(7, 2, "EXPERIMENT_STOPPED", None, None, None, FALSE) >>
=============================================================================
