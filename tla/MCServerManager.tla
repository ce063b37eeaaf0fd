-------------------------- MODULE MCServerManager --------------------------
(* Instances of ServerManager for TLC. *)
EXTENDS ServerManager, TLC

\* Queue workers and requests call the manager alike.
Symmetry == Permutations(Callers)

\* What of a state the later steps and the properties depend on.  None of them looks at
\* PowerState, which is only reported; and that a call has failed shows afterwards only
\* in PowerState and in LastStartedAt, as long as that may be read.
Failed(a) ==
    /\ at[a] = "failed"
    /\ sig[a] \in {"stop", "kill"} \/ (passes = MaxPasses /\ (~StillRead \/ started))
Seen ==
    <<action, installing, restoring, expectedStop, crashCount, runtimeVars, bootVars, historyVars,
      sig, [a \in Actors |-> IF Failed(a) THEN "record" ELSE at[a]]>>
=============================================================================
