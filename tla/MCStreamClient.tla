---------------------------- MODULE MCStreamClient ----------------------------
(* StreamClient over a log longer than the replay buffer.  The live session's *)
(* hook can have four connections where the simulator's has one: smaller      *)
(* bounds.                                                                    *)
EXTENDS StreamClient

MCLastSeq == [experiment |-> 5, runtime |-> 1]
MCDrops   == [experiment |-> 4, runtime |-> 2]
==============================================================================
