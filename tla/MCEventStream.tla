---------------------------- MODULE MCEventStream ----------------------------
(* EventStream with a replay buffer smaller than the log, so that reconnects  *)
(* fall both inside and outside it.                                           *)
EXTENDS EventStream
============================================================================
