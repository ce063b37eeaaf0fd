----------------------------- MODULE MCRecovery -----------------------------
(* An instance of Recovery for TLC: two plans for the node of one server and  *)
(* one plan for the node of another.                                          *)
EXTENDS Recovery, TLC

CONSTANTS a, b, s1, s2, p1, p2, p3

MCHomeOf == s1 :> a @@ s2 :> b
MCNodeOf == p1 :> a @@ p2 :> a @@ p3 :> b
Symmetry == Permutations({p1, p2}) \cup Permutations(Execs)
=============================================================================
