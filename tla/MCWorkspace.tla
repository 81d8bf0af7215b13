------------------------------ MODULE MCWorkspace ------------------------------
(* Two agents and the credential of the second, which falls with it.       *)
EXTENDS Workspace

E(seq, tick, type, agent, source, target) ==
    [seq |-> seq, tick |-> tick, type |-> type, agent |-> agent, source |-> source,
     target |-> target, already_compromised |-> FALSE]

MCHistory ==
    << E(1, 1, "COMPROMISE_SUCCEEDED", None, 1, 2) >>

MCFalls   == [o \in {3} |-> 1]
MCLayerOf == [e \in {{1, 2}, {2, 3}} |-> IF e = {1, 2} THEN "mesh" ELSE "access"]
MCCarries == {<<1, 2>>, <<2, 1>>, <<2, 3>>}
=============================================================================
