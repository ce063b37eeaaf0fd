---------------------------- MODULE MCEvacuation ----------------------------
(* An evacuation of two servers, one slot at a time; see MCEvacuation.cfg. *)
EXTENDS Evacuation
CONSTANTS req, o1
=============================================================================
