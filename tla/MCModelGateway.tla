--------------------------- MODULE MCModelGateway ---------------------------
(* Constants for model checking ModelGateway. *)
EXTENDS ModelGateway
=============================================================================
