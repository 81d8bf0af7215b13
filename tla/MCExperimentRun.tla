---------------------------- MODULE MCExperimentRun ----------------------------
(* ExperimentRun is finite for finite constants: the .cfg files give them. *)
EXTENDS ExperimentRun
==============================================================================
