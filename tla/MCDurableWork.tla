---------------------------- MODULE MCDurableWork ----------------------------
(* An instance of DurableWork for TLC: one process with a queue worker and an  *)
(* operation worker, a second process with a queue worker.                     *)
EXTENDS DurableWork, TLC

CONSTANTS p1, p2, w1, w2, v1, j1, j2, o1

MCProcOf == w1 :> p1 @@ w2 :> p2
MCHandled == {<<p1, j1>>, <<p2, j1>>, <<p1, j2>>}
MCPriority == j1 :> 0 @@ j2 :> 100
MCKey == j1 :> "restart" @@ j2 :> "power"
MCOProcOf == v1 :> p1
=============================================================================
