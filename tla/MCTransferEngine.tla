-------------------------- MODULE MCTransferEngine --------------------------
(* Instances of TransferEngine for TLC. *)
EXTENDS TransferEngine, TLC

\* A request is what it does.
Symmetry == Permutations(Requests)

\* Where Cancel and another request have met no property says anything, then or later:
\* such states are reached and not continued.
NotOvertaken == ~overtaken
=============================================================================
