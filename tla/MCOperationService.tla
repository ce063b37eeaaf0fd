------------------------- MODULE MCOperationService -------------------------
(* Instances of OperationService for TLC. *)
EXTENDS OperationService, TLC

CONSTANTS p1, p2, w1, w2, o1, o2

MCProcOf == w1 :> p1 @@ w2 :> p2
=============================================================================
