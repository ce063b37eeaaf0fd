-------------------------- MODULE TransferContract --------------------------
(***************************************************************************)
(* What the destination of a transfer promises the control plane, request  *)
(* by request (beacon/internal/transfer/protocol.go): the phase a caller   *)
(* is told, the archive that was verified, the server directory and the    *)
(* directory it replaced.  Uploads in pieces, the staging directory, the   *)
(* two renames of the activation and the locking are not seen.             *)
(***************************************************************************)
CONSTANTS
    Version,          \* what an archive may hold
    NoTree, OldTree   \* no directory or archive; one from an earlier stay

VARIABLES
    phase,            \* how far the transfer is
    sum,              \* the archive that was verified
    tree, aside,      \* the server directory, and the one that it replaced
    torn,             \* the trees were exchanged and the phase does not say so
    void              \* Cancel and another request met: nothing is promised

vars == <<phase, sum, tree, aside, torn, void>>

Init ==
    /\ phase = "absent"
    /\ sum = NoTree
    /\ tree \in {NoTree, OldTree}
    /\ aside = NoTree
    /\ torn = FALSE
    /\ void = FALSE

Register ==
    /\ phase = "absent"
    /\ phase' = "authorized"
    /\ UNCHANGED <<sum, tree, aside, torn>>

\* The last piece of an upload is there and the checksum is right.
Verify ==
    /\ phase = "authorized"
    /\ phase' = "verified"
    /\ sum' \in Version
    /\ UNCHANGED <<tree, aside, torn>>

\* The archive is sent again, or a restore has failed and left things as they were, or
\* failed when its work was done.
Withdraw ==
    /\ phase = "verified"
    /\ phase' = "authorized"
    /\ sum' = NoTree
    /\ torn' \in {torn, TRUE}
    /\ UNCHANGED <<tree, aside>>

\* The verified archive becomes the server directory at once and as a whole.
Restore ==
    /\ phase = "verified"
    /\ aside = NoTree
    /\ tree' = sum
    /\ aside' = tree
    /\ UNCHANGED <<phase, sum, torn>>

Confirm ==
    /\ phase = "verified"
    /\ tree = sum
    /\ phase' = "restored"
    /\ UNCHANGED <<sum, tree, aside, torn>>

Finalize ==
    /\ phase = "restored"
    /\ phase' = "activated"
    /\ UNCHANGED <<sum, tree, aside, torn>>

\* The replaced directory is given up only now.
Tidy ==
    /\ phase = "activated"
    /\ \/ UNCHANGED tree
       \/ torn /\ tree' = NoTree
    /\ aside' = NoTree
    /\ UNCHANGED <<phase, sum, torn>>

Cancel ==
    /\ phase \notin {"absent", "cancelled"}
    /\ phase' = "cancelled"
    /\ sum' = NoTree
    /\ UNCHANGED <<tree, aside, torn>>

\* A Cancel that could not be recorded reverts all the same.
Revert ==
    /\ phase = "cancelled" \/ torn
    /\ aside # NoTree
    /\ tree' = aside
    /\ aside' = NoTree
    /\ UNCHANGED <<phase, sum, torn>>

\* The transfer is forgotten once what it replaced is back; not so when the exchange
\* was not recorded, where the replaced directory may be lost.
Remove ==
    /\ phase # "absent"
    /\ \/ aside = NoTree /\ UNCHANGED tree
       \/ torn /\ tree' \in {tree, NoTree}
    /\ phase' = "absent"
    /\ sum' = NoTree
    /\ aside' = NoTree
    /\ torn' = FALSE

\* A death or a failure in the middle of an exchange.
Tear ==
    /\ torn' = TRUE
    /\ UNCHANGED <<phase, sum, tree, aside>>

\* Cancel meets a request at work, or Register one of Cancel.
Void == void' = TRUE

Next ==
    \/ Void
    \/ /\ UNCHANGED void
       /\ \/ Register \/ Verify \/ Withdraw \/ Restore \/ Confirm \/ Finalize \/ Tidy
          \/ Cancel \/ Revert \/ Remove \/ Tear

Spec == Init /\ [][Next]_vars
=============================================================================
