----------------------------- MODULE MCJobQueue -----------------------------
(* Instances of JobQueue for TLC. *)
EXTENDS JobQueue, TLC

CONSTANTS p1, w1, w2, j1

MCOneProc == w1 :> p1 @@ w2 :> p1

MCHandled == {<<p1, j1>>}
MCPriority == j1 :> 0
MCKey == j1 :> "restart"
=============================================================================
