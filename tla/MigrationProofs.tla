-------------------------- MODULE MigrationProofs --------------------------
(***************************************************************************)
(* TLAPS proofs about Migration: for any set of API processes, and however *)
(* often they crash, lose their leases or run the same migration together, *)
(* the source node keeps the server's files for as long as it owns the     *)
(* server.                                                                 *)
(***************************************************************************)
EXTENDS Migration, TLAPS

\* A run goroutine that is here has seen FinalizeMigration succeed.
Committed == {"finalizeDest", "cleanSource", "markClean"}

\* SourceSurvives is not inductive: what makes it so is that whoever is about to
\* call CleanupTransferSource knows of the commit, by its own position or by the
\* phase it has read.
OwnershipInv ==
    /\ pc \in [Procs -> PC]
    /\ cpc \in [Procs -> CleanPC]
    /\ phase \in Phase
    /\ snap \in [Procs -> Phase]
    /\ SourceSurvives
    /\ phase = "completed" => node = "dst"
    /\ \A p \in Procs : pc[p] \in Committed => node = "dst"
    /\ \A p \in Procs : cpc[p] # "idle" => node = "dst"

\* What a step does to the parts of the state that OwnershipInv speaks of.
KeepsSource == "src" \in data => "src" \in data'
KeepsOwner ==
    /\ node' = node
    /\ phase' \in Phase
    /\ phase' = "completed" => phase = "completed"
RunMoves(p) ==
    /\ snap' \in [Procs -> Phase]
    /\ \E next \in PC : /\ pc' = [pc EXCEPT ![p] = next]
                        /\ next \in Committed => node' = "dst"
CleanMoves(p) ==
    \E next \in CleanPC : /\ cpc' = [cpc EXCEPT ![p] = next]
                          /\ next # "idle" => node' = "dst"

-----------------------------------------------------------------------------
(* Steps that preserve the invariant *)

\* A step of one run goroutine before the commit: the owner and the source's
\* files stay.
LEMMA RunPreserves ==
    ASSUME OwnershipInv, NEW p \in Procs, RunMoves(p), UNCHANGED cpc, KeepsOwner, KeepsSource
    PROVE  OwnershipInv'
BY DEF OwnershipInv, RunMoves, KeepsOwner, KeepsSource, SourceSurvives

\* A step of one goroutine that knows of the commit may delete what it likes.
LEMMA CommittedRunPreserves ==
    ASSUME OwnershipInv, NEW p \in Procs, RunMoves(p), UNCHANGED cpc, KeepsOwner, node = "dst"
    PROVE  OwnershipInv'
BY DEF OwnershipInv, RunMoves, KeepsOwner, SourceSurvives

LEMMA CleanPreserves ==
    ASSUME OwnershipInv, NEW p \in Procs, CleanMoves(p), UNCHANGED <<pc, snap>>, KeepsOwner, node = "dst"
    PROVE  OwnershipInv'
BY DEF OwnershipInv, CleanMoves, KeepsOwner, SourceSurvives

LEMMA OtherPreserves ==
    ASSUME OwnershipInv, UNCHANGED <<pc, cpc, snap>>, KeepsOwner, KeepsSource
    PROVE  OwnershipInv'
BY DEF OwnershipInv, KeepsOwner, KeepsSource, SourceSurvives

\* Step and Fail move the goroutine; they leave it short of the commit unless told
\* otherwise.
LEMMA StepMoves ==
    ASSUME OwnershipInv, NEW p \in Procs, NEW next \in PC, Step(p, next), next \in Committed => node' = "dst"
    PROVE  RunMoves(p)
BY DEF Step, Goto, RunMoves, OwnershipInv, Phase

LEMMA FailMoves ==
    ASSUME OwnershipInv, NEW p \in Procs, NEW d, Fail(p, d)
    PROVE  RunMoves(p)
<1>1. pc' = [pc EXCEPT ![p] = "failCancelDest"]
  BY DEF Fail, Goto
<1>2. "failCancelDest" \in PC /\ "failCancelDest" \notin Committed
  BY DEF PC, Failing, Committed
<1>3. snap' \in [Procs -> Phase]
  BY DEF Fail, Goto, OwnershipInv, Phase
<1> QED
  BY <1>1, <1>2, <1>3 DEF RunMoves

-----------------------------------------------------------------------------
(* The actions *)

\* The row, the daemons and everyone else untouched: only the goroutine moved.
LEMMA QuietRunPreserves ==
    ASSUME OwnershipInv, NEW p \in Procs, RunMoves(p), UNCHANGED <<rowVars, daemonVars, otherVars>>
    PROVE  OwnershipInv'
BY RunPreserves DEF rowVars, daemonVars, otherVars, cleanVars, KeepsOwner, KeepsSource, OwnershipInv, Phase, FinalPhase

\* A daemon call that spares the source's files.
LEMMA CallPreserves ==
    ASSUME OwnershipInv, NEW p \in Procs, RunMoves(p), UNCHANGED <<rowVars, otherVars>>, KeepsSource
    PROVE  OwnershipInv'
BY RunPreserves DEF rowVars, otherVars, cleanVars, KeepsOwner, OwnershipInv

\* UpdateMigrationRun never writes completed; UpdateMigrationStatus never touches
\* the run row.
LEMMA RecordPreserves ==
    ASSUME OwnershipInv, NEW p \in Procs, NEW at, NEW ph \in Phase, ph # "completed",
           NEW next \in PC, next \notin Committed, RecordPhase(p, at, ph, next)
    PROVE  OwnershipInv'
<1>1. RunMoves(p)
  BY StepMoves DEF RecordPhase
<1>2. UNCHANGED cpc /\ KeepsOwner /\ KeepsSource
  BY DEF RecordPhase, daemonVars, otherVars, cleanVars, KeepsOwner, KeepsSource, OwnershipInv, Phase, FinalPhase
<1> QED
  BY <1>1, <1>2, RunPreserves

LEMMA RecordStatusPreserves ==
    ASSUME OwnershipInv, NEW p \in Procs, NEW at, NEW st,
           NEW next \in PC, next \notin Committed, RecordStatus(p, at, st, next)
    PROVE  OwnershipInv'
<1>1. RunMoves(p)
  BY StepMoves DEF RecordStatus
<1>2. UNCHANGED cpc /\ KeepsOwner /\ KeepsSource
  BY DEF RecordStatus, daemonVars, otherVars, cleanVars, KeepsOwner, KeepsSource, OwnershipInv, Phase, FinalPhase
<1> QED
  BY <1>1, <1>2, RunPreserves

\* Whatever phase a run found, it takes up the work before the commit.
LEMMA FirstStageIsForward ==
    ASSUME NEW ph \in Phase
    PROVE  FirstStage(ph) \in PC /\ FirstStage(ph) \notin Committed
<1>1. Order[ph] \in 0..7
  BY DEF Order
<1>2. FirstStage(ph) \in {"prepare", "push", "restore", "sync", "exists", "finalize"}
  BY <1>1 DEF FirstStage
<1> QED
  BY <1>2 DEF PC, Forward, Finalizing, Committed

LEMMA RegisteredPreserves ==
    ASSUME OwnershipInv, NEW p \in Procs, Registered(p)
    PROVE  OwnershipInv'
<1> DEFINE next == FirstStage(snap[p])
<1>1. next \in PC /\ next \notin Committed
  BY FirstStageIsForward DEF OwnershipInv
<1> HIDE DEF next
<1>2. CASE RecordPhase(p, "registered", "credentials_registered", next)
  BY <1>1, <1>2, RecordPreserves DEF Phase
<1>3. CASE Step(p, next) /\ UNCHANGED <<rowVars, daemonVars, otherVars>>
  BY <1>1, <1>3, StepMoves, QuietRunPreserves
<1> QED
  BY <1>2, <1>3 DEF Registered, next

\* The steps of run up to the commit leave owner and source files alone.
LEMMA ForwardPreserves ==
    ASSUME OwnershipInv, NEW p \in Procs, RunForward(p)
    PROVE  OwnershipInv'
<1>0. \A at \in Forward \cup {"finalize", "failRun", "idle"} : at \in PC /\ at \notin Committed
  BY DEF Forward, PC, Committed, Finalizing, Failing
<1> USE <1>0 DEF Forward
<1>1. CASE ReadRun(p)
  <2>1. UNCHANGED <<rowVars, daemonVars, otherVars>> BY <1>1 DEF ReadRun
  <2>2. RunMoves(p)
    <3>1. CASE pc' = [pc EXCEPT ![p] = "targets"] /\ snap' = [snap EXCEPT ![p] = phase] BY <3>1 DEF RunMoves, OwnershipInv
    <3>2. CASE Step(p, "idle") BY <3>2, StepMoves
    <3> QED BY <1>1, <3>1, <3>2 DEF ReadRun
  <2> QED BY <2>1, <2>2, QuietRunPreserves
<1>2. CASE ResolveTargets(p)
  <2>1. UNCHANGED <<rowVars, daemonVars, otherVars>> BY <1>2 DEF ResolveTargets
  <2>2. RunMoves(p)
    <3>1. CASE pc' = [pc EXCEPT ![p] = "registerSource"] /\ UNCHANGED snap BY <3>1 DEF RunMoves, OwnershipInv
    <3>2. CASE Step(p, "failRun") BY <3>2, StepMoves
    <3> QED BY <1>2, <3>1, <3>2 DEF ResolveTargets
  <2> QED BY <2>1, <2>2, QuietRunPreserves
<1>3. CASE Call(p, "registerSource", RegisterSource(src[p], Run(p)), "registerDest", FALSE)
  <2>1. UNCHANGED <<rowVars, otherVars>> BY <1>3 DEF Call
  <2>2. KeepsSource BY <1>3 DEF Call, RegisterSource, daemonVars, KeepsSource
  <2>3. RunMoves(p)
    <3>1. CASE Step(p, "registerDest") BY <3>1, StepMoves
    <3>2. CASE Fail(p, FALSE) BY <3>2, FailMoves
    <3> QED BY <1>3, <3>1, <3>2 DEF Call
  <2> QED BY <2>1, <2>2, <2>3, CallPreserves
<1>4. CASE Call(p, "registerDest", RegisterDest(Run(p)), "registered", FALSE)
  <2>1. UNCHANGED <<rowVars, otherVars>> BY <1>4 DEF Call
  <2>2. KeepsSource BY <1>4 DEF Call, RegisterDest, daemonVars, KeepsSource
  <2>3. RunMoves(p)
    <3>1. CASE Step(p, "registered") BY <3>1, StepMoves
    <3>2. CASE Fail(p, FALSE) BY <3>2, FailMoves
    <3> QED BY <1>4, <3>1, <3>2 DEF Call
  <2> QED BY <2>1, <2>2, <2>3, CallPreserves
<1>5. CASE Registered(p)
  BY <1>5, RegisteredPreserves
<1>6. CASE Call(p, "prepare", PrepareSource(src[p], Run(p)), "transferring", FALSE)
  <2>1. UNCHANGED <<rowVars, otherVars>> BY <1>6 DEF Call
  <2>2. KeepsSource BY <1>6 DEF Call, PrepareSource, daemonVars, KeepsSource
  <2>3. RunMoves(p)
    <3>1. CASE Step(p, "transferring") BY <3>1, StepMoves
    <3>2. CASE Fail(p, FALSE) BY <3>2, FailMoves
    <3> QED BY <1>6, <3>1, <3>2 DEF Call
  <2> QED BY <2>1, <2>2, <2>3, CallPreserves
<1>7. CASE /\ pc[p] = "prepare" /\ PrepareHalf(src[p], Run(p)) /\ Fail(p, FALSE)
         /\ UNCHANGED <<rowVars, otherVars>>
  <2>1. KeepsSource BY <1>7 DEF PrepareHalf, KeepsSource
  <2>2. RunMoves(p) BY <1>7, FailMoves
  <2> QED BY <1>7, <2>1, <2>2, CallPreserves
<1>8. CASE RecordStatus(p, "transferring", "transferring", "archived")
  BY <1>8, RecordStatusPreserves
<1>9. CASE RecordPhase(p, "archived", "source_archived", "push")
  BY <1>9, RecordPreserves DEF Phase
<1>10. CASE Call(p, "push", Push(src[p], Run(p)), "verified", FALSE)
  <2>1. UNCHANGED <<rowVars, otherVars>> BY <1>10 DEF Call
  <2>2. KeepsSource BY <1>10 DEF Call, Push, daemonVars, KeepsSource
  <2>3. RunMoves(p)
    <3>1. CASE Step(p, "verified") BY <3>1, StepMoves
    <3>2. CASE Fail(p, FALSE) BY <3>2, FailMoves
    <3> QED BY <1>10, <3>1, <3>2 DEF Call
  <2> QED BY <2>1, <2>2, <2>3, CallPreserves
<1>11. CASE RecordPhase(p, "verified", "destination_verified", "restoring")
  BY <1>11, RecordPreserves DEF Phase
<1>12. CASE RecordStatus(p, "restoring", "restoring", "restore")
  BY <1>12, RecordStatusPreserves
<1>13. CASE Call(p, "restore", Restore(Run(p)), "restored", FALSE)
  <2>1. UNCHANGED <<rowVars, otherVars>> BY <1>13 DEF Call
  <2>2. KeepsSource BY <1>13 DEF Call, Restore, daemonVars, KeepsSource
  <2>3. RunMoves(p)
    <3>1. CASE Step(p, "restored") BY <3>1, StepMoves
    <3>2. CASE Fail(p, FALSE) BY <3>2, FailMoves
    <3> QED BY <1>13, <3>1, <3>2 DEF Call
  <2> QED BY <2>1, <2>2, <2>3, CallPreserves
<1>14. CASE RecordPhase(p, "restored", "destination_restored", "sync")
  BY <1>14, RecordPreserves DEF Phase
<1>15. CASE Call(p, "sync", SyncConfiguration \/ UNCHANGED daemonVars, "configured", FALSE)
  <2>1. UNCHANGED <<rowVars, otherVars>> BY <1>15 DEF Call
  <2>2. KeepsSource BY <1>15 DEF Call, SyncConfiguration, SetDestination, daemonVars, KeepsSource
  <2>3. RunMoves(p)
    <3>1. CASE Step(p, "configured") BY <3>1, StepMoves
    <3>2. CASE Fail(p, FALSE) BY <3>2, FailMoves
    <3> QED BY <1>15, <3>1, <3>2 DEF Call
  <2> QED BY <2>1, <2>2, <2>3, CallPreserves
<1>16. CASE RecordPhase(p, "configured", "destination_configured", "exists")
  BY <1>16, RecordPreserves DEF Phase
<1>17. CASE DestinationExists(p)
  <2>1. UNCHANGED <<rowVars, daemonVars, otherVars>> BY <1>17 DEF DestinationExists
  <2>2. RunMoves(p)
    <3>1. CASE Step(p, "created") BY <3>1, StepMoves
    <3>2. CASE Step(p, "create") BY <3>2, StepMoves
    <3> QED BY <1>17, <3>1, <3>2 DEF DestinationExists
  <2> QED BY <2>1, <2>2, QuietRunPreserves
<1>18. CASE CreateDestination(p)
  <2>1. UNCHANGED <<rowVars, otherVars>> BY <1>18 DEF CreateDestination
  <2>2. KeepsSource BY <1>18 DEF CreateDestination, CreateServer, CreateHalf, SetDestination, daemonVars, KeepsSource
  <2>3. RunMoves(p)
    <3>1. CASE Step(p, "check") BY <3>1, StepMoves
    <3>2. CASE Fail(p, TRUE) BY <3>2, FailMoves
    <3>3. CASE Fail(p, FALSE) BY <3>3, FailMoves
    <3> QED BY <1>18, <3>1, <3>2, <3>3 DEF CreateDestination
  <2> QED BY <2>1, <2>2, <2>3, CallPreserves
<1>19. CASE CheckDestination(p)
  <2>1. UNCHANGED <<rowVars, daemonVars, otherVars>> BY <1>19 DEF CheckDestination
  <2>2. RunMoves(p)
    <3>1. CASE Step(p, "created") BY <3>1, StepMoves
    <3>2. CASE Fail(p, TRUE) BY <3>2, FailMoves
    <3> QED BY <1>19, <3>1, <3>2 DEF CheckDestination
  <2> QED BY <2>1, <2>2, QuietRunPreserves
<1>20. CASE RecordPhase(p, "created", "destination_created", "finalize")
  BY <1>20, RecordPreserves DEF Phase
<1>21. CASE /\ pc[p] = "sync" /\ SyncHalf /\ Fail(p, FALSE)
          /\ UNCHANGED <<rowVars, otherVars>>
  <2>1. KeepsSource BY <1>21 DEF SyncHalf, SetDestination, KeepsSource
  <2>2. RunMoves(p) BY <1>21, FailMoves
  <2> QED BY <1>21, <2>1, <2>2, CallPreserves
<1> QED
  BY <1>1, <1>2, <1>3, <1>4, <1>5, <1>6, <1>7, <1>8, <1>9, <1>10, <1>11, <1>12, <1>13, <1>14, <1>15, <1>16, <1>17, <1>18, <1>19, <1>20, <1>21 DEF RunForward

\* The commit itself, and what follows it.
LEMMA FinalizePreserves ==
    ASSUME OwnershipInv, NEW p \in Procs, RunFinalize(p)
    PROVE  OwnershipInv'
<1>0. \A at \in Committed \cup {"idle"} : at \in PC
  BY DEF PC, Committed, Finalizing
<1>1. CASE FinalizeMigration(p)
  <2>1. UNCHANGED cpc /\ UNCHANGED data
    BY <1>1 DEF FinalizeMigration, daemonVars, otherVars, cleanVars
  <2>2. CASE CommitOwnership /\ Step(p, "finalizeDest")
    <3>1. node' = "dst" /\ RunMoves(p)
      BY <1>0, <2>2, StepMoves DEF CommitOwnership, Committed
    <3> QED
      BY <2>1, <2>2, <3>1 DEF OwnershipInv, RunMoves, SourceSurvives, CommitOwnership, Phase, FinalPhase
  <2>3. CASE phase = "completed" /\ Step(p, "finalizeDest") /\ UNCHANGED rowVars
    <3>1. node = "dst" /\ node' = "dst"
      BY <2>3 DEF OwnershipInv, rowVars
    <3>2. RunMoves(p)
      BY <1>0, <2>3, <3>1, StepMoves DEF Committed
    <3> QED
      BY <2>1, <2>3, <3>1, <3>2, CommittedRunPreserves DEF rowVars, KeepsOwner, OwnershipInv
  <2>4. CASE Fail(p, TRUE) /\ UNCHANGED rowVars
    BY <2>1, <2>4, FailMoves, RunPreserves DEF rowVars, KeepsOwner, KeepsSource, OwnershipInv, Phase, FinalPhase
  <2>5. CASE CommitOwnership /\ Fail(p, TRUE)
    <3>1. node' = "dst" /\ RunMoves(p)
      BY <2>5, FailMoves DEF CommitOwnership
    <3> QED
      BY <2>1, <2>5, <3>1 DEF OwnershipInv, RunMoves, SourceSurvives, CommitOwnership, Phase, FinalPhase
  <2> QED
    BY <1>1, <2>2, <2>3, <2>4, <2>5 DEF FinalizeMigration
<1>2. CASE FinalCall(p, "finalizeDest", FinalizeDest(Run(p)), "cleanSource")
  <2>1. node = "dst" /\ node' = "dst" /\ UNCHANGED cpc /\ KeepsOwner
    BY <1>2 DEF FinalCall, OwnershipInv, Committed, rowVars, otherVars, cleanVars, KeepsOwner
  <2>2. Step(p, "cleanSource") \/ Step(p, "idle")
    BY <1>2 DEF FinalCall
  <2>3. RunMoves(p)
    BY <1>0, <2>1, <2>2, StepMoves DEF Committed
  <2> QED
    BY <2>1, <2>3, CommittedRunPreserves
<1>3. CASE FinalCall(p, "cleanSource", CleanSource(src[p], Run(p)), "markClean")
  <2>1. node = "dst" /\ node' = "dst" /\ UNCHANGED cpc /\ KeepsOwner
    BY <1>3 DEF FinalCall, OwnershipInv, Committed, rowVars, otherVars, cleanVars, KeepsOwner
  <2>2. Step(p, "markClean") \/ Step(p, "idle")
    BY <1>3 DEF FinalCall
  <2>3. RunMoves(p)
    BY <1>0, <2>1, <2>2, StepMoves DEF Committed
  <2> QED
    BY <2>1, <2>3, CommittedRunPreserves
<1>4. CASE MarkClean(p)
  <2>1. UNCHANGED cpc /\ KeepsOwner /\ KeepsSource
    BY <1>4 DEF MarkClean, ClearPending, rowVars, daemonVars, otherVars, cleanVars, KeepsOwner, KeepsSource, OwnershipInv, Phase, FinalPhase
  <2>2. RunMoves(p)
    BY <1>0, <1>4, StepMoves DEF MarkClean, Committed
  <2> QED
    BY <2>1, <2>2, RunPreserves
<1> QED
  BY <1>1, <1>2, <1>3, <1>4 DEF RunFinalize

\* The rollback deletes only the destination.
LEMMA FailPreserves ==
    ASSUME OwnershipInv, NEW p \in Procs, RunFail(p)
    PROVE  OwnershipInv'
<1>0. \A at \in Failing \cup {"idle"} : at \in PC /\ at \notin Committed
  BY DEF PC, Failing, Committed
<1> USE <1>0 DEF Failing
<1> DEFINE next == IF made[p] THEN "failDelete" ELSE "failCancelSource"
<1>1. CASE RollbackCall(p, "failCancelDest", CancelTransfer("dst", Run(p)), next)
  <2>1. next \in PC /\ next \notin Committed
    OBVIOUS
  <2> HIDE DEF next
  <2>2. KeepsSource
    BY <1>1 DEF RollbackCall, CancelTransfer, daemonVars, KeepsSource
  <2>3. RunMoves(p) /\ UNCHANGED <<rowVars, otherVars>>
    BY <1>1, <2>1, StepMoves DEF RollbackCall
  <2> QED
    BY <2>2, <2>3, CallPreserves
<1>2. CASE DeleteDestination(p)
  <2>1. KeepsSource
    BY <1>2 DEF DeleteDestination, DeleteServer, DeleteHalf, SetDestination, daemonVars, KeepsSource
  <2>2. RunMoves(p)
    BY <1>2, StepMoves DEF DeleteDestination
  <2>3. UNCHANGED cpc /\ KeepsOwner
    BY <1>2 DEF DeleteDestination, rowVars, cleanVars, KeepsOwner, OwnershipInv
  <2> QED
    BY <2>1, <2>2, <2>3, RunPreserves
<1>3. CASE RollbackCall(p, "failCancelSource", CancelTransfer(src[p], Run(p)), "failStart")
  <2>1. KeepsSource
    BY <1>3 DEF RollbackCall, CancelTransfer, daemonVars, KeepsSource
  <2>2. RunMoves(p) /\ UNCHANGED <<rowVars, otherVars>>
    BY <1>3, StepMoves DEF RollbackCall
  <2> QED
    BY <2>1, <2>2, CallPreserves
<1>4. CASE RollbackCall(p, "failStart", StartServer(src[p]), "failRun")
  <2>1. KeepsSource
    BY <1>4 DEF RollbackCall, StartServer, daemonVars, KeepsSource
  <2>2. RunMoves(p) /\ UNCHANGED <<rowVars, otherVars>>
    BY <1>4, StepMoves DEF RollbackCall
  <2> QED
    BY <2>1, <2>2, CallPreserves
<1>5. CASE FailMigrationRun(p)
  <2>1. UNCHANGED cpc /\ KeepsSource /\ KeepsOwner
    BY <1>5 DEF FailMigrationRun, CloseRun, rowVars, daemonVars, otherVars, cleanVars, KeepsOwner, KeepsSource, OwnershipInv, Phase, FinalPhase
  <2>2. RunMoves(p)
    BY <1>5, StepMoves DEF FailMigrationRun
  <2> QED
    BY <2>1, <2>2, RunPreserves
<1>6. CASE MarkFailed(p)
  <2>1. UNCHANGED cpc /\ KeepsSource /\ KeepsOwner
    BY <1>6 DEF MarkFailed, daemonVars, otherVars, cleanVars, KeepsOwner, KeepsSource, OwnershipInv, Phase, FinalPhase
  <2>2. RunMoves(p)
    BY <1>6, StepMoves DEF MarkFailed
  <2> QED
    BY <2>1, <2>2, RunPreserves
<1> QED
  BY <1>1, <1>2, <1>3, <1>4, <1>5, <1>6 DEF RunFail

\* The cleanup task exists only after the commit.
LEMMA CleanupPreserves ==
    ASSUME OwnershipInv, NEW p \in Procs, Cleanup(p)
    PROVE  OwnershipInv'
<1>1. node = "dst"
  BY DEF Cleanup, BeginCleanup, CleanCall, EndCleanup, OwnershipInv
<1>2. KeepsOwner
  BY DEF Cleanup, BeginCleanup, CleanCall, EndCleanup, ClearPending, rowVars, KeepsOwner, OwnershipInv
<1>3. UNCHANGED <<pc, snap>>
  BY DEF Cleanup, BeginCleanup, CleanCall, EndCleanup, CleanTo, runVars
<1>4. \E next \in CleanPC : cpc' = [cpc EXCEPT ![p] = next]
  BY DEF Cleanup, BeginCleanup, CleanCall, EndCleanup, CleanTo, CleanPC
<1> QED
  BY <1>1, <1>2, <1>3, <1>4, CleanPreserves DEF CleanMoves, KeepsOwner

\* Cancelling touches the transfer metadata, the phase and the status.
LEMMA CancelPreserves ==
    ASSUME OwnershipInv, CancelMigration
    PROVE  OwnershipInv'
<1>1. UNCHANGED <<pc, cpc, snap>>
  BY DEF CancelMigration, BeginCancel, CancelTargets, CancelCall, CancelMigrationRun, MarkCancelled,
         CancelTo, runVars, cleanVars
<1>2. KeepsOwner
  BY DEF CancelMigration, BeginCancel, CancelTargets, CancelCall, CancelMigrationRun, MarkCancelled,
         CloseRun, rowVars, KeepsOwner, OwnershipInv, Phase, FinalPhase
<1>3. UNCHANGED data
  BY DEF CancelMigration, BeginCancel, CancelTargets, CancelCall, CancelMigrationRun, MarkCancelled,
         RegisterSource, RegisterDest, CancelTransfer, daemonVars
<1> QED
  BY <1>1, <1>2, <1>3, OtherPreserves DEF KeepsSource

\* Requests that prepare, the clock, other users of the panel.
LEMMA EnvironmentPreserves ==
    ASSUME OwnershipInv, Prepare \/ Environment
    PROVE  OwnershipInv'
<1>1. UNCHANGED <<pc, cpc, snap>>
  BY DEF Prepare, Environment, BeginPrepare, EnsureMigrationRun, MarkPreparing, EndPrepare,
         LeaseExpires, AllocationTaken, PowerOn, runVars, cleanVars, otherVars
<1>2. KeepsOwner
  BY DEF Prepare, Environment, BeginPrepare, EnsureMigrationRun, MarkPreparing, EndPrepare,
         LeaseExpires, AllocationTaken, PowerOn, rowVars, KeepsOwner, OwnershipInv, Phase
<1>3. UNCHANGED data
  BY DEF Prepare, Environment, BeginPrepare, EnsureMigrationRun, MarkPreparing, EndPrepare,
         LeaseExpires, AllocationTaken, PowerOn, StartServer, daemonVars
<1> QED
  BY <1>1, <1>2, <1>3, OtherPreserves DEF KeepsSource

\* A process claims the run, is told to stop, or ends.
LEMMA ProcessPreserves ==
    ASSUME OwnershipInv, NEW p \in Procs,
           Execute(p) \/ Reclaim(p) \/ BudgetEnds(p) \/ Shutdown(p) \/ Crash(p)
    PROVE  OwnershipInv'
<1>0. "idle" \in PC /\ "read" \in PC /\ {"idle", "read"} \cap Committed = {} /\ "idle" \in CleanPC
  BY DEF PC, Forward, Committed, CleanPC
<1>1. CASE ClaimMigrationRun(p)
  <2>1. RunMoves(p)
    BY <1>0, <1>1 DEF ClaimMigrationRun, RunMoves, OwnershipInv
  <2> QED
    BY <1>1, <2>1, RunPreserves
       DEF ClaimMigrationRun, daemonVars, cleanVars, KeepsOwner, KeepsSource, OwnershipInv
<1>2. CASE BudgetEnds(p) \/ Shutdown(p)
  BY <1>2, OtherPreserves
     DEF BudgetEnds, Shutdown, rowVars, daemonVars, otherVars, cleanVars, KeepsOwner, KeepsSource,
         OwnershipInv
<1>3. CASE Crash(p)
  <2>1. RunMoves(p)
    BY <1>0, <1>3, StepMoves DEF Crash
  <2>2. KeepsOwner /\ UNCHANGED data /\ cpc' = [cpc EXCEPT ![p] = "idle"]
    BY <1>3 DEF Crash, daemonVars, KeepsOwner, OwnershipInv
  <2> QED
    BY <1>0, <2>1, <2>2 DEF OwnershipInv, RunMoves, KeepsOwner, SourceSurvives
<1> QED
  BY <1>1, <1>2, <1>3 DEF Execute, Reclaim

-----------------------------------------------------------------------------
(* Theorems *)

LEMMA OwnershipInit == Init => OwnershipInv
BY DEF Init, OwnershipInv, SourceSurvives, PC, CleanPC, Phase, Committed

LEMMA OwnershipNext == OwnershipInv /\ [Next]_vars => OwnershipInv'
<1> SUFFICES ASSUME OwnershipInv, [Next]_vars PROVE OwnershipInv'
  OBVIOUS
<1>1. CASE Prepare \/ Environment
  BY <1>1, EnvironmentPreserves
<1>2. CASE CancelMigration
  BY <1>2, CancelPreserves
<1>3. ASSUME NEW p \in Procs, Execute(p) \/ Reclaim(p) \/ BudgetEnds(p) \/ Shutdown(p) \/ Crash(p)
      PROVE  OwnershipInv'
  BY <1>3, ProcessPreserves
<1>4. ASSUME NEW p \in Procs, RunStep(p)
      PROVE  OwnershipInv'
  BY <1>4, ForwardPreserves, FinalizePreserves, FailPreserves DEF RunStep
<1>5. ASSUME NEW p \in Procs, Cleanup(p)
      PROVE  OwnershipInv'
  BY <1>5, CleanupPreserves
<1>6. CASE UNCHANGED vars
  <2>1. UNCHANGED <<pc, cpc, snap, node, phase, data>>
    BY <1>6 DEF vars, rowVars, daemonVars, runVars, otherVars, cleanVars
  <2> QED
    BY <2>1, OtherPreserves DEF KeepsOwner, KeepsSource, OwnershipInv
<1> QED
  BY <1>1, <1>2, <1>3, <1>4, <1>5, <1>6 DEF Next

\* The inductive invariant: whoever may call CleanupTransferSource, a run past
\* finalize or a cleanup task, does so after the commit.
THEOREM OwnershipHolds == Spec => []OwnershipInv
BY OwnershipInit, OwnershipNext, PTL DEF Spec

\* The source node keeps the server's files for as long as it owns the server,
\* for any number of processes, crashes, shutdowns and cancellations
\* (finalize, cleanupMigration, fail).
THEOREM SourceSurvivesHolds == Spec => []SourceSurvives
<1>1. OwnershipInv => SourceSurvives
  BY DEF OwnershipInv
<1> QED
  BY <1>1, OwnershipHolds, PTL

-----------------------------------------------------------------------------
(* Types *)

\* Actors are names: the credential a daemon keeps is always one of them.
LEMMA Actors == /\ \A p \in Procs : Run(p) \in Actor /\ Cleaner(p) \in Actor
                /\ Canceller \in Actor /\ None \in Actor
BY DEF Actor, Run, Cleaner, Canceller

\* Every call keeps what a daemon stores well typed.
LEMMA EffectTypes ==
    ASSUME DaemonOK, NEW n \in Node, NEW a \in Actor,
           \/ RegisterSource(n, a) \/ RegisterDest(a) \/ PrepareSource(n, a) \/ PrepareHalf(n, a)
           \/ Push(n, a) \/ Restore(a) \/ FinalizeDest(a) \/ CleanSource(n, a)
           \/ CancelTransfer(n, a) \/ CreateServer \/ CreateHalf \/ SyncConfiguration
           \/ SyncHalf \/ DeleteServer \/ DeleteHalf \/ StartServer(n)
           \/ UNCHANGED daemonVars
    PROVE  DaemonOK'
<1> USE Actors DEF DaemonOK, Node, metaVars
<1>1. CASE RegisterSource(n, a) BY <1>1 DEF RegisterSource
<1>2. CASE RegisterDest(a) BY <1>2 DEF RegisterDest
<1>3. CASE PrepareSource(n, a) BY <1>3 DEF PrepareSource, StopContainer
<1>4. CASE PrepareHalf(n, a) BY <1>4 DEF PrepareHalf, StopContainer
<1>5. CASE Push(n, a) BY <1>5 DEF Push
<1>6. CASE Restore(a) BY <1>6 DEF Restore
<1>7. CASE FinalizeDest(a) BY <1>7 DEF FinalizeDest
<1>8. CASE CleanSource(n, a) BY <1>8 DEF CleanSource
<1>9. CASE CancelTransfer(n, a) BY <1>9 DEF CancelTransfer
<1>a. ASSUME NEW c \in {"none", "stopped", "running"}, SetDestination(c) PROVE DaemonOK'
  BY <1>a DEF SetDestination
<1>b. container["dst"] \in {"none", "stopped", "running"}
  OBVIOUS
<1>10. CASE CreateServer \/ CreateHalf \/ SyncConfiguration \/ SyncHalf \/ DeleteHalf
  BY <1>10, <1>a, <1>b DEF CreateServer, CreateHalf, SyncConfiguration, SyncHalf, DeleteHalf
<1>11. CASE DeleteServer BY <1>11 DEF DeleteServer
<1>12. CASE StartServer(n) BY <1>12 DEF StartServer
<1>13. CASE UNCHANGED daemonVars BY <1>13 DEF daemonVars
<1> QED
  BY <1>1, <1>2, <1>3, <1>4, <1>5, <1>6, <1>7, <1>8, <1>9, <1>10, <1>11, <1>12, <1>13

\* Every step leaves the daemons well typed.
LEMMA DaemonTypes == TypeOK /\ [Next]_vars => DaemonOK'
<1> SUFFICES ASSUME TypeOK, [Next]_vars PROVE DaemonOK'
  OBVIOUS
<1>a. DaemonOK /\ node \in Node /\ ksrc \in Node /\ "dst" \in Node
      /\ \A p \in Procs : src[p] \in Node /\ csrc[p] \in Node
  BY DEF TypeOK, RowOK, RunOK, TaskOK, Node
<1> USE <1>a, Actors, EffectTypes
<1>1. ASSUME NEW p \in Procs, RunForward(p) PROVE DaemonOK'
  BY <1>1 DEF RunForward, ReadRun, ResolveTargets, Call, Registered, RecordPhase, RecordStatus,
     DestinationExists, CreateDestination, CheckDestination
<1>2. ASSUME NEW p \in Procs, RunFinalize(p) PROVE DaemonOK'
  BY <1>2 DEF RunFinalize, FinalizeMigration, FinalCall, MarkClean
<1>3. ASSUME NEW p \in Procs, RunFail(p) PROVE DaemonOK'
  BY <1>3 DEF RunFail, RollbackCall, DeleteDestination, FailMigrationRun, MarkFailed
<1>4. ASSUME NEW p \in Procs, Cleanup(p) PROVE DaemonOK'
  BY <1>4 DEF Cleanup, BeginCleanup, CleanCall, EndCleanup
<1>5. CASE CancelMigration
  BY <1>5 DEF CancelMigration, BeginCancel, CancelTargets, CancelCall, CancelMigrationRun,
     MarkCancelled
<1>6. CASE PowerOn
  BY <1>6 DEF PowerOn
<1>7. CASE UNCHANGED daemonVars
  BY <1>7
<1> QED
  BY <1>1, <1>2, <1>3, <1>4, <1>5, <1>6, <1>7
     DEF Next, Prepare, Environment, BeginPrepare, EnsureMigrationRun, MarkPreparing, EndPrepare,
         LeaseExpires, AllocationTaken, Execute, Reclaim, ClaimMigrationRun, RunStep, BudgetEnds,
         Shutdown, Crash, vars

\* Every step leaves the rows well typed.
LEMMA RowTypes == TypeOK /\ [Next]_vars => RowOK'
<1> SUFFICES ASSUME TypeOK, [Next]_vars PROVE RowOK'
  OBVIOUS
<1>a. RowOK
  BY DEF TypeOK
<1>b. ASSUME UNCHANGED rowVars PROVE RowOK'
  BY <1>a, <1>b DEF RowOK, rowVars
<1>c. ASSUME NEW ph \in FinalPhase, CloseRun(ph) PROVE RowOK'
  BY <1>a, <1>c DEF CloseRun, RowOK, Phase
<1>d. ASSUME NEW p \in Procs, NEW at, NEW ph \in Phase, NEW next, RecordPhase(p, at, ph, next)
      PROVE  RowOK'
  BY <1>a, <1>d DEF RecordPhase, RowOK
<1>e. ASSUME NEW p \in Procs, NEW at, NEW st \in Status, NEW next, RecordStatus(p, at, st, next)
      PROVE  RowOK'
  BY <1>a, <1>e DEF RecordStatus, RowOK
<1>f. ASSUME ClearPending PROVE RowOK'
  BY <1>a, <1>f DEF ClearPending, RowOK
<1>g. ASSUME CommitOwnership PROVE RowOK'
  BY <1>a, <1>g DEF CommitOwnership, RowOK, Phase, FinalPhase, Status, Node
<1>1. ASSUME NEW p \in Procs, RunForward(p) PROVE RowOK'
  <2>1. /\ "credentials_registered" \in Phase /\ "source_archived" \in Phase
        /\ "destination_verified" \in Phase /\ "destination_restored" \in Phase
        /\ "destination_configured" \in Phase /\ "destination_created" \in Phase
        /\ "transferring" \in Status /\ "restoring" \in Status
    BY DEF Phase, Status
  <2> QED
    BY <1>1, <1>b, <1>d, <1>e, <2>1
       DEF RunForward, ReadRun, ResolveTargets, Call, Registered, DestinationExists,
           CreateDestination, CheckDestination
<1>2. ASSUME NEW p \in Procs, RunFinalize(p) PROVE RowOK'
  BY <1>2, <1>b, <1>f, <1>g DEF RunFinalize, FinalizeMigration, FinalCall, MarkClean
<1>3. ASSUME NEW p \in Procs, RunFail(p) PROVE RowOK'
  <2>1. CASE FailMigrationRun(p)
    BY <1>b, <1>c, <2>1 DEF FailMigrationRun, FinalPhase
  <2>2. CASE MarkFailed(p)
    BY <1>a, <2>2 DEF MarkFailed, RowOK, Status
  <2> QED
    BY <1>3, <1>b, <2>1, <2>2 DEF RunFail, RollbackCall, DeleteDestination
<1>4. ASSUME NEW p \in Procs, Cleanup(p) PROVE RowOK'
  BY <1>4, <1>b, <1>f DEF Cleanup, BeginCleanup, CleanCall, EndCleanup
<1>5. CASE CancelMigration
  <2>1. CASE CancelMigrationRun
    BY <1>b, <1>c, <2>1 DEF CancelMigrationRun, FinalPhase
  <2>2. CASE MarkCancelled
    BY <1>a, <2>2 DEF MarkCancelled, RowOK, Status
  <2> QED
    BY <1>5, <1>b, <2>1, <2>2 DEF CancelMigration, BeginCancel, CancelTargets, CancelCall
<1>6. CASE Prepare
  BY <1>6, <1>a, <1>b DEF Prepare, BeginPrepare, EnsureMigrationRun, MarkPreparing, EndPrepare,
     RowOK, Phase, Status
<1>7. CASE Environment
  BY <1>7, <1>a, <1>b DEF Environment, LeaseExpires, AllocationTaken, PowerOn, RowOK
<1>8. ASSUME NEW p \in Procs, Execute(p) \/ Reclaim(p) \/ BudgetEnds(p) \/ Shutdown(p) \/ Crash(p)
      PROVE  RowOK'
  BY <1>8, <1>a, <1>b DEF Execute, Reclaim, ClaimMigrationRun, BudgetEnds, Shutdown, Crash, RowOK
<1>9. CASE UNCHANGED vars
  BY <1>9, <1>b DEF vars
<1> QED
  BY <1>1, <1>2, <1>3, <1>4, <1>5, <1>6, <1>7, <1>8, <1>9 DEF Next, RunStep

\* Goto, with a context that is done or a run that was reclaimed left behind.
LEMMA GotoTypes ==
    ASSUME RunOK, NEW p \in Procs, NEW next \in PC, Goto(p, next), made' \in [Procs -> BOOLEAN],
           pc[p] \in Failing => next \in Failing \cup {"idle"}
    PROVE  RunOK'
<1>1. pc' \in [Procs -> PC] /\ snap' \in [Procs -> Phase]
  BY DEF RunOK, Goto, Phase
<1>2. src' \in [Procs -> Node]
  BY DEF RunOK, Goto, Node
<1>3. reclaimed' \cup ctxDone' \subseteq {q \in Procs : pc'[q] \notin Detached}
  BY DEF RunOK, Goto
<1>4. spent' \subseteq {q \in Procs : pc'[q] \in Failing}
  BY DEF RunOK, Goto
<1> QED
  BY <1>1, <1>2, <1>3, <1>4 DEF RunOK

\* A rollback keeps its thirty seconds to itself.
LEMMA StepTypes ==
    ASSUME RunOK, NEW p \in Procs, NEW next \in PC, Step(p, next),
           pc[p] \in Failing => next \in Failing \cup {"idle"}
    PROVE  RunOK'
<1>1. made \in [Procs -> BOOLEAN]
  BY DEF RunOK
<1>2. made' \in [Procs -> BOOLEAN]
  BY <1>1 DEF Step
<1> QED
  BY <1>2, GotoTypes DEF Step

LEMMA FailTypes ==
    ASSUME RunOK, NEW p \in Procs, NEW d \in BOOLEAN, Fail(p, d)
    PROVE  RunOK'
<1>1. made \in [Procs -> BOOLEAN]
  BY DEF RunOK
<1>2. made' \in [Procs -> BOOLEAN]
  BY <1>1 DEF Fail
<1>3. "failCancelDest" \in PC /\ "failCancelDest" \in Failing
  BY DEF PC, Failing
<1> QED
  BY <1>2, <1>3, GotoTypes DEF Fail

\* Every step leaves the run goroutines well typed.
LEMMA RunTypes == TypeOK /\ [Next]_vars => RunOK'
<1> SUFFICES ASSUME TypeOK, [Next]_vars PROVE RunOK'
  OBVIOUS
<1>a. RunOK /\ node \in Node /\ phase \in Phase
  BY DEF TypeOK, RowOK
<1>b. ASSUME UNCHANGED runVars PROVE RunOK'
  BY <1>a, <1>b DEF RunOK, runVars
<1>c. TRUE \in BOOLEAN /\ FALSE \in BOOLEAN
      /\ \A at \in {"idle"} \cup Forward \cup Finalizing \cup Failing : at \in PC
  BY DEF PC
<1>1. ASSUME NEW p \in Procs, RunForward(p) PROVE RunOK'
  <2>0. pc[p] \notin Failing
    BY <1>1 DEF RunForward, ReadRun, ResolveTargets, Call, Registered, RecordPhase, RecordStatus,
       DestinationExists, CreateDestination, CheckDestination, Failing
  <2>1. CASE ReadRun(p)
    <3>1. CASE Step(p, "idle")
      BY <1>a, <1>c, <2>0, <3>1, StepTypes
    <3>2. CASE /\ pc[p] = "read" /\ pc' = [pc EXCEPT ![p] = "targets"]
               /\ snap' = [snap EXCEPT ![p] = phase]
               /\ UNCHANGED <<src, made, reclaimed, ctxDone, spent>>
      BY <1>a, <3>2 DEF RunOK, PC, Forward, Detached, Failing
    <3> QED
      BY <2>1, <3>1, <3>2 DEF ReadRun
  <2>2. CASE ResolveTargets(p)
    <3>1. CASE Step(p, "failRun")
      BY <1>a, <1>c, <2>0, <3>1, StepTypes DEF Failing
    <3>2. CASE /\ pc[p] = "targets" /\ pc' = [pc EXCEPT ![p] = "registerSource"]
               /\ src' = [src EXCEPT ![p] = node]
               /\ UNCHANGED <<snap, made, reclaimed, ctxDone, spent>>
      BY <1>a, <3>2 DEF RunOK, PC, Forward, Detached, Failing
    <3> QED
      BY <2>2, <3>1, <3>2 DEF ResolveTargets
  <2>3. CASE Registered(p)
    <3>1. FirstStage(snap[p]) \in PC
      BY <1>a, FirstStageIsForward DEF RunOK
    <3>2. Step(p, FirstStage(snap[p]))
      BY <2>3 DEF Registered, RecordPhase
    <3> QED
      BY <1>a, <2>0, <3>1, <3>2, StepTypes
  <2>4. CASE \E next \in Forward \cup {"finalize"} : Step(p, next)
    BY <1>a, <1>c, <2>0, <2>4, StepTypes DEF Finalizing
  <2>5. CASE Fail(p, TRUE) \/ Fail(p, FALSE)
    BY <1>a, <1>c, <2>5, FailTypes
  <2> QED
    BY <1>1, <2>1, <2>2, <2>3, <2>4, <2>5
       DEF RunForward, Call, RecordPhase, RecordStatus, DestinationExists, CreateDestination,
           CheckDestination, Forward
<1>2. ASSUME NEW p \in Procs, RunFinalize(p) PROVE RunOK'
  <2>0. pc[p] \notin Failing
    BY <1>2 DEF RunFinalize, FinalizeMigration, FinalCall, MarkClean, Failing
  <2>1. CASE \E next \in Finalizing \cup {"idle"} : Step(p, next)
    BY <1>a, <1>c, <2>0, <2>1, StepTypes
  <2>2. CASE Fail(p, TRUE)
    BY <1>a, <1>c, <2>2, FailTypes
  <2> QED
    BY <1>2, <2>1, <2>2 DEF RunFinalize, FinalizeMigration, FinalCall, MarkClean, Finalizing
<1>3. ASSUME NEW p \in Procs, RunFail(p) PROVE RunOK'
  <2>1. \E next \in Failing \cup {"idle"} : Step(p, next)
    BY <1>3 DEF RunFail, RollbackCall, DeleteDestination, FailMigrationRun, MarkFailed, Failing
  <2> QED
    BY <1>a, <1>c, <2>1, StepTypes
<1>4. ASSUME NEW p \in Procs, Cleanup(p) PROVE RunOK'
  BY <1>4, <1>b DEF Cleanup, BeginCleanup, CleanCall, EndCleanup, CleanTo
<1>5. CASE CancelMigration
  <2>1. ASSUME NEW p \in Procs, BeginCancel(p) PROVE RunOK'
    BY <1>a, <2>1 DEF BeginCancel, RunOK
  <2> QED
    BY <1>5, <1>b, <2>1
       DEF CancelMigration, CancelTargets, CancelCall, CancelTo, CancelMigrationRun, MarkCancelled
<1>6. CASE Prepare \/ Environment
  BY <1>6, <1>b DEF Prepare, BeginPrepare, EnsureMigrationRun, MarkPreparing, EndPrepare,
     Environment, LeaseExpires, AllocationTaken, PowerOn
<1>7. ASSUME NEW p \in Procs, Execute(p) \/ Reclaim(p) PROVE RunOK'
  <2>1. /\ pc' = [pc EXCEPT ![p] = "read"] /\ UNCHANGED <<snap, src, made, ctxDone, spent>>
        /\ reclaimed' \subseteq reclaimed \cup {p} /\ pc[p] = "idle"
    BY <1>7 DEF Execute, Reclaim, ClaimMigrationRun
  <2> QED
    BY <1>a, <2>1 DEF RunOK, PC, Forward, Detached, Failing
<1>8. ASSUME NEW p \in Procs, Shutdown(p) PROVE RunOK'
  BY <1>8, <1>a DEF Shutdown, RunOK
<1>9. ASSUME NEW p \in Procs, Crash(p) PROVE RunOK'
  BY <1>9, <1>a, <1>c, StepTypes DEF Crash
<1>10. ASSUME NEW p \in Procs, BudgetEnds(p) PROVE RunOK'
  BY <1>10, <1>a DEF BudgetEnds, RunOK, Failing
<1>11. CASE UNCHANGED vars
  BY <1>11, <1>b DEF vars
<1> QED
  BY <1>1, <1>2, <1>3, <1>4, <1>5, <1>6, <1>7, <1>8, <1>9, <1>10, <1>11 DEF Next, RunStep

\* Every step leaves the cleanup tasks, the requests and the bounds well typed.
LEMMA TaskTypes == TypeOK /\ [Next]_vars => TaskOK'
<1> SUFFICES ASSUME TypeOK, [Next]_vars PROVE TaskOK'
  OBVIOUS
<1>a. TaskOK /\ node \in Node
  BY DEF TypeOK, RowOK
<1>b. ASSUME UNCHANGED otherVars PROVE TaskOK'
  BY <1>a, <1>b DEF TaskOK, otherVars, cleanVars, requestVars, boundVars
<1>1. ASSUME NEW p \in Procs, RunStep(p) PROVE TaskOK'
  BY <1>1, <1>a, <1>b DEF RunStep, RunForward, ReadRun, ResolveTargets, Call, Registered, RecordPhase,
     RecordStatus, DestinationExists, CreateDestination, CheckDestination, RunFinalize,
     FinalizeMigration, FinalCall, MarkClean, RunFail, RollbackCall, DeleteDestination,
     FailMigrationRun, MarkFailed, TaskOK, cleanVars, requestVars
<1>2. ASSUME NEW p \in Procs, Cleanup(p) PROVE TaskOK'
  <2>1. CASE BeginCleanup(p)
    BY <1>a, <2>1 DEF BeginCleanup, TaskOK, CleanPC, requestVars, boundVars
  <2>2. ASSUME NEW next \in CleanPC, CleanTo(p, next) PROVE TaskOK'
    BY <1>a, <2>2 DEF CleanTo, TaskOK, requestVars, boundVars, Node
  <2> QED
    BY <1>2, <2>1, <2>2 DEF Cleanup, CleanCall, EndCleanup, CleanPC
<1>3. CASE CancelMigration
  <2>1. ASSUME NEW p \in Procs, BeginCancel(p) PROVE TaskOK'
    BY <1>a, <2>1, MigrationAssumption DEF BeginCancel, TaskOK, CancelPC, cleanVars
  <2>2. ASSUME NEW next \in CancelPC, CancelTo(next), ksrc' \in Node PROVE TaskOK'
    BY <1>a, <2>2 DEF CancelTo, TaskOK, cleanVars, boundVars
  <2>3. ksrc \in Node /\ "src" \in Node
    BY <1>a DEF TaskOK, Node
  <2> QED
    BY <1>3, <1>a, <2>1, <2>2, <2>3
       DEF CancelMigration, CancelTargets, CancelCall, CancelMigrationRun, MarkCancelled, CancelPC
<1>4. CASE Prepare
  BY <1>4, <1>a DEF Prepare, BeginPrepare, EnsureMigrationRun, MarkPreparing, EndPrepare, TaskOK,
     cleanVars, boundVars
<1>5. CASE Environment
  BY <1>5, <1>b DEF Environment, LeaseExpires, AllocationTaken, PowerOn
<1>6. ASSUME NEW p \in Procs, Execute(p) \/ Reclaim(p) PROVE TaskOK'
  BY <1>6, <1>a DEF Execute, Reclaim, ClaimMigrationRun, TaskOK, cleanVars, boundVars
<1>7. ASSUME NEW p \in Procs, BudgetEnds(p) \/ Shutdown(p) PROVE TaskOK'
  BY <1>7, <1>a, <1>b, MigrationAssumption DEF BudgetEnds, Shutdown, TaskOK, cleanVars, requestVars
<1>8. ASSUME NEW p \in Procs, Crash(p) PROVE TaskOK'
  BY <1>8, <1>a, MigrationAssumption DEF Crash, TaskOK, CleanPC, CancelPC, Node
<1>9. CASE UNCHANGED vars
  BY <1>9, <1>b DEF vars
<1> QED
  BY <1>1, <1>2, <1>3, <1>4, <1>5, <1>6, <1>7, <1>8, <1>9 DEF Next

\* Every reachable state is well typed, for any number of processes and with every
\* failure of the database and the daemons; in particular the context of a run never
\* outlives its goroutine.
THEOREM TypeCorrect == Spec => []TypeOK
<1>1. Init => TypeOK
  <2>1. Init => RowOK
    BY DEF Init, RowOK, Status, Phase, FinalPhase, Node
  <2>2. Init => TaskOK
    <3>1. Init => undone \in BOOLEAN
      BY DEF Init
    <3> QED
      BY <3>1, MigrationAssumption DEF Init, TaskOK, Node, CleanPC, CancelPC
  <2>3. Init => DaemonOK
    BY Actors DEF Init, DaemonOK, Node
  <2>4. Init => RunOK
    BY DEF Init, RunOK, PC, Phase, Node
  <2> QED
    BY <2>1, <2>2, <2>3, <2>4 DEF TypeOK
<1>2. TypeOK /\ [Next]_vars => TypeOK'
  BY RowTypes, DaemonTypes, RunTypes, TaskTypes DEF TypeOK
<1> QED
  BY <1>1, <1>2, PTL DEF Spec

-----------------------------------------------------------------------------
(* One process *)

\* Two processes that run the migration together may lose its files: the one rolls back
\* what the other has recorded.  One process does not, whatever fails under it, but for
\* what `undone' stands for: a rollback that deleted the destination and was then kept
\* from closing the run, by a crash, an error of the database or the end of its time.
Solo == \A p, q \in Procs : p = q

UnpackedPhase == {"destination_restored", "destination_configured", "destination_created"}
Unpacked == {"restored", "sync", "configured", "exists", "create", "check", "created"}
\* A run that is here goes by the phase it has read.
Choosing == {"targets", "registerSource", "registerDest", "registered"}

\* The row is closed and nobody will claim the run.
Closed(p) == pc[p] \in {"failStatus", "idle"} /\ phase \in {"failed", "cancelled"}

\* What the row, the transfer and the goroutine say of the destination is so; and a run
\* that finds destination_created does not take up an earlier stage.
Told(p) ==
    /\ phase \in UnpackedPhase => "dst" \in data
    /\ phase = "destination_created" => container["dst"] # "none"
    /\ dmeta = "restored" => "dst" \in data
    /\ pc[p] \in Unpacked => "dst" \in data
    /\ pc[p] = "created" => container["dst"] # "none"
    /\ pc[p] \in Choosing /\ snap[p] \in UnpackedPhase => "dst" \in data
    /\ phase = "destination_created" /\ pc[p] \in Forward \ {"read"} =>
         pc[p] \in Choosing /\ snap[p] = "destination_created"

\* Before the commit.
Before ==
    node = "src" => \A p \in Procs :
        /\ pc[p] # "idle" => phase # "none"
        /\ undone \/ Closed(p) \/ Told(p)

\* After the commit no run begins.  Either none of them will remove the source's files,
\* as when the commit reported an error; or the destination is finalized once, by the
\* run or by the cleanup task.  The one removes the files of the source, the other those
\* of its source target, which is by then the destination; never do both.
Spared == "src" \in data /\ \A p \in Procs : pc[p] \notin Committed
Handed ==
    /\ dmeta = "restored" => /\ "src" \in data /\ "dst" \in data
                             /\ \A p \in Procs : pc[p] # "cleanSource" /\ cpc[p] # "cleanSource"
    /\ \A p \in Procs : pc[p] = "cleanSource" => "dst" \in data /\ cpc[p] # "cleanSource"
    /\ "src" \notin data => "dst" \in data /\ \A p \in Procs : cpc[p] # "cleanSource"
After ==
    node = "dst" =>
        /\ phase = "completed"
        /\ \A p \in Procs : pc[p] \in Committed \cup Failing \cup {"idle"}
        /\ \A p \in Procs : pc[p] \in Failing => "src" \in data
        /\ undone \/ Spared \/ Handed

\* The source targets.
Targets == \A p \in Procs : src[p] = "src" /\ (cpc[p] # "idle" => csrc[p] = "dst")

SoloInv == Before /\ After /\ Targets

\* What steps of others do to a phase: nothing, insert the row, or close it.
PhaseKept ==
    \/ phase' = phase
    \/ phase = "none" /\ phase' = "planned"
    \/ phase \notin {"none", "completed"} /\ phase' = "cancelled"

\* Requests, the clock and the user touch neither goroutines nor files.
LEMMA OthersSolo ==
    ASSUME TypeOK, SoloInv, PhaseKept,
           UNCHANGED <<pc, snap, src, cpc, csrc, node, data, undone>>,
           dmeta' = "restored" => dmeta = "restored",
           container["dst"] # "none" => container'["dst"] # "none"
    PROVE  SoloInv'
<1>1. Targets'
  BY DEF Targets, SoloInv
<1>2. After'
  BY DEF After, Spared, Handed, PhaseKept, SoloInv
<1>3. Before'
  <2> SUFFICES ASSUME node = "src", NEW p \in Procs
               PROVE  /\ pc[p] # "idle" => phase' # "none"
                      /\ undone \/ Closed(p)' \/ Told(p)'
    BY DEF Before
  <2>1. pc[p] # "idle" => phase' # "none"
    BY DEF Before, PhaseKept, SoloInv
  <2>2. Closed(p) => Closed(p)'
    BY DEF Closed, PhaseKept
  <2>3. Told(p) => Told(p)'
    BY DEF Told, PhaseKept, UnpackedPhase
  <2> QED
    BY <2>1, <2>2, <2>3 DEF Before, SoloInv
<1> QED
  BY <1>1, <1>2, <1>3 DEF SoloInv

\* The run moves to next before the commit, losing nothing on the destination.
Advance(p, next) ==
    /\ pc' = [pc EXCEPT ![p] = next]
    /\ UNCHANGED <<src, node, cpc, csrc, undone>>
    /\ data \subseteq data'
    /\ container["dst"] # "none" => container'["dst"] # "none"

\* A step of run that goes on: the new place, the new phase and the new metadata say
\* nothing of the destination that is not so.
LEMMA AdvanceSolo ==
    ASSUME TypeOK, Solo, SoloInv, node = "src",
           NEW p \in Procs, NEW next \in PC, Advance(p, next), Told(p),
           phase' # "none",
           phase' # phase /\ phase' \in UnpackedPhase => "dst" \in data',
           phase' # phase /\ phase' = "destination_created" => container'["dst"] # "none",
           dmeta' = "restored" => dmeta = "restored" \/ "dst" \in data',
           next \in Unpacked => "dst" \in data',
           next = "created" => container'["dst"] # "none",
           next \in Choosing /\ snap'[p] \in UnpackedPhase => "dst" \in data',
           phase' = "destination_created" /\ next \in Forward \ {"read"} =>
             next \in Choosing /\ snap'[p] = "destination_created"
    PROVE  SoloInv'
<1>1. Targets' /\ After'
  BY DEF Targets, After, Advance, SoloInv
<1>2. \A q \in Procs : q = p
  BY DEF Solo
<1>3. pc'[p] = next
  BY DEF Advance, TypeOK, RunOK
<1>4. Told(p)'
  BY <1>3 DEF Told, Advance
<1> QED
  BY <1>1, <1>2, <1>4 DEF Before, SoloInv

\* Before the commit, while a rollback is not closed, nothing is claimed.
LEMMA UndoneSolo ==
    ASSUME TypeOK, Solo, SoloInv, node = "src", undone', phase' # "none",
           UNCHANGED <<src, node, cpc, csrc>>
    PROVE  SoloInv'
BY DEF SoloInv, Before, After, Targets

\* A step of run that begins to fail, or of fail that is not its last.
LEMMA FailingSolo ==
    ASSUME TypeOK, Solo, SoloInv, node = "src",
           NEW p \in Procs, NEW next \in Failing, pc' = [pc EXCEPT ![p] = next],
           UNCHANGED <<src, node, cpc, csrc, undone>>, Told(p), phase' = phase, phase # "none",
           data \subseteq data', phase = "destination_created" => container'["dst"] # "none",
           dmeta' = "restored" => dmeta = "restored" \/ "dst" \in data'
    PROVE  SoloInv'
<1>1. Targets' /\ After'
  BY DEF Targets, After, SoloInv
<1>2. \A q \in Procs : q = p
  BY DEF Solo
<1>3. pc'[p] = next
  BY DEF TypeOK, RunOK
<1>4. Told(p)'
  BY <1>3 DEF Told, Failing, Unpacked, Choosing, Forward
<1> QED
  BY <1>1, <1>2, <1>4 DEF Before, SoloInv

\* A run that takes up the work behind the restore has read a phase that says so.
LEMMA FirstStageUnpacked ==
    ASSUME NEW ph \in Phase
    PROVE  /\ FirstStage(ph) \in {"prepare", "push", "restore", "sync", "exists", "finalize"}
           /\ FirstStage(ph) \in Unpacked => ph \in UnpackedPhase
           /\ ph = "destination_created" => FirstStage(ph) = "finalize" /\ AtLeast(ph, "source_archived")
<1>1. Order[ph] \in 0..7 /\ (ph \notin UnpackedPhase => Order[ph] \notin {4, 5})
  BY DEF Order, UnpackedPhase, Phase, FinalPhase
<1>2. FirstStage(ph) \in {"prepare", "push", "restore", "sync", "exists", "finalize"}
  BY <1>1 DEF FirstStage
<1>3. Order[ph] \notin {4, 5} => FirstStage(ph) \in {"prepare", "push", "restore", "finalize"}
  BY <1>1 DEF FirstStage
<1>4. ph = "destination_created" => Order[ph] = 6
  BY DEF Order, Phase
<1>5. Order["source_archived"] = 2
  BY DEF Order, Phase
<1>6. ph = "destination_created" => FirstStage(ph) = "finalize" /\ AtLeast(ph, "source_archived")
  BY <1>4, <1>5 DEF FirstStage, AtLeast
<1> QED
  BY <1>1, <1>2, <1>3, <1>6 DEF Unpacked

\* The steps of run: none of them happens after the commit, and none deletes.
LEMMA ForwardSolo ==
    ASSUME TypeOK, Solo, OwnershipInv, SoloInv, NEW p \in Procs, RunForward(p)
    PROVE  SoloInv'
<1>a. pc[p] \in Forward
  BY DEF RunForward, ReadRun, ResolveTargets, Call, Registered, RecordPhase, RecordStatus,
         DestinationExists, CreateDestination, CheckDestination, Forward
<1>b. node = "src"
  BY <1>a DEF SoloInv, After, Committed, Failing, Forward, TypeOK, RowOK, Node
<1>c. /\ src \in [Procs -> Node] /\ src[p] = "src" /\ phase # "none" /\ (undone \/ Told(p))
      /\ pc \in [Procs -> PC] /\ container \in [Node -> {"none", "stopped", "running"}]
      /\ snap \in [Procs -> Phase]
  BY <1>a, <1>b DEF SoloInv, Targets, Before, Closed, Forward, TypeOK, RunOK, DaemonOK
<1>d. ASSUME NEW next, Step(p, next)
      PROVE  /\ pc' = [pc EXCEPT ![p] = next] /\ src' = src
             /\ snap' = IF next \in {"registerDest", "registered"} THEN snap ELSE [snap EXCEPT ![p] = "planned"]
  BY <1>c, <1>d DEF Step, Goto
<1>f. \A at \in Forward \cup {"finalize"} : at \in PC /\ at # "idle"
  BY DEF PC, Forward, Finalizing
<1>u. UNCHANGED <<node, cpc, csrc, undone, src>> /\ phase' # "none"
  <2>1. UNCHANGED <<node, cpc, csrc, undone>>
    BY DEF RunForward, ReadRun, ResolveTargets, Call, Registered, RecordPhase, RecordStatus,
       DestinationExists, CreateDestination, CheckDestination, otherVars, cleanVars, boundVars, rowVars
  <2>2. phase' # "none"
    BY <1>c DEF RunForward, ReadRun, ResolveTargets, Call, Registered, RecordPhase, RecordStatus,
       DestinationExists, CreateDestination, CheckDestination, rowVars
  <2>3. ASSUME NEW next, Goto(p, next) PROVE src' = src
    BY <1>c, <2>3 DEF Goto
  <2>4. src' = src
    BY <1>b, <1>c, <2>3 DEF RunForward, ReadRun, ResolveTargets, Call, Registered, RecordPhase,
       RecordStatus, DestinationExists, CreateDestination, CheckDestination, Step, Fail
  <2> QED
    BY <2>1, <2>2, <2>4
<1>v. CASE undone
  BY <1>b, <1>u, <1>v, UndoneSolo
<1>w. CASE ~undone
  <2>a. Told(p)
    BY <1>c, <1>w
  <2>b. /\ pc[p] \in Unpacked => "dst" \in data
        /\ pc[p] \notin Choosing \cup {"read"} => phase # "destination_created"
    BY <1>a, <2>a DEF Told
\* The beginning of a rollback.
  <2>e. ASSUME NEW d, Fail(p, d), phase' = phase, data \subseteq data',
               phase = "destination_created" => container'["dst"] # "none",
               dmeta' = "restored" => dmeta = "restored" \/ "dst" \in data'
        PROVE  SoloInv'
    <3>1. pc' = [pc EXCEPT ![p] = "failCancelDest"] /\ "failCancelDest" \in Failing
      BY <2>e DEF Fail, Goto, Failing
    <3> QED
      BY <1>b, <1>c, <1>u, <2>a, <2>e, <3>1, FailingSolo
\* A step that leaves the rows alone and goes on to a place that reads no phase.
  <2>g. ASSUME NEW next \in Forward \ (Choosing \cup {"read"}), Step(p, next),
               phase' = phase, phase # "destination_created",
               data \subseteq data', container["dst"] # "none" => container'["dst"] # "none",
               dmeta' = "restored" => dmeta = "restored" \/ "dst" \in data',
               next \in Unpacked => "dst" \in data',
               next = "created" => container'["dst"] # "none"
        PROVE  SoloInv'
    <3>1. Advance(p, next)
      BY <1>d, <1>u, <2>g DEF Advance
    <3> QED
      BY <1>b, <1>c, <1>f, <1>u, <2>a, <2>g, <3>1, AdvanceSolo
\* A record of progress.
  <2>h. ASSUME NEW at, NEW ph \in Phase, NEW next \in (Forward \ (Choosing \cup {"read"})) \cup {"finalize"},
               RecordPhase(p, at, ph, next),
               ph \in UnpackedPhase => "dst" \in data,
               ph = "destination_created" => container["dst"] # "none" /\ next = "finalize",
               phase = "destination_created" => next = "finalize",
               next \in Unpacked => "dst" \in data, next # "created"
        PROVE  SoloInv'
    <3>1. Advance(p, next) /\ UNCHANGED <<data, dmeta, container>>
      BY <1>d, <1>u, <2>h DEF RecordPhase, Advance, daemonVars, metaVars
    <3>2. phase' = phase \/ phase' = ph
      BY <2>h DEF RecordPhase
    <3>3. next \in Forward => next # "finalize"
      BY DEF Forward
    <3> QED
      BY <1>b, <1>c, <1>f, <1>u, <2>a, <2>h, <3>1, <3>2, <3>3, AdvanceSolo DEF Choosing
\* A record of the status.
  <2>i. ASSUME NEW at, NEW st, NEW next \in (Forward \ Unpacked) \ (Choosing \cup {"read"}),
               RecordStatus(p, at, st, next), phase # "destination_created"
        PROVE  SoloInv'
    BY <2>g, <2>i DEF RecordStatus, daemonVars, metaVars, Unpacked
\* A daemon call, whatever comes of it.
  <2>j. ASSUME NEW next \in Forward \ (Choosing \cup {"read"}),
               UNCHANGED <<rowVars, otherVars>>, phase # "destination_created",
               Step(p, next) \/ Fail(p, FALSE),
               data \subseteq data', container["dst"] # "none" => container'["dst"] # "none",
               dmeta' = "restored" => dmeta = "restored" \/ "dst" \in data',
               next \in Unpacked => "dst" \in data', next # "created"
        PROVE  SoloInv'
    BY <2>e, <2>g, <2>j DEF rowVars
\* One on the way to the choice of the first stage.
  <2>k. ASSUME NEW next \in Choosing, NEW at \in Choosing, pc[p] = at,
               UNCHANGED <<rowVars, otherVars>>,
               (Step(p, next) /\ next \in {"registerDest", "registered"}) \/ Fail(p, FALSE),
               UNCHANGED <<data, container>>, dmeta' = "restored" => dmeta = "restored"
        PROVE  SoloInv'
    <3>1. CASE Fail(p, FALSE)
      BY <2>a, <2>e, <2>k, <3>1 DEF rowVars, Told
    <3>2. CASE Step(p, next) /\ next \in {"registerDest", "registered"}
      <4>1. Advance(p, next) /\ snap' = snap /\ phase' = phase
        BY <1>d, <1>u, <2>k, <3>2 DEF Advance, rowVars
      <4>2. next \in Forward /\ next \notin Unpacked /\ next # "created" /\ at \in Forward \ {"read"}
        BY <2>k DEF Forward, Choosing, Unpacked
      <4>3. /\ snap[p] \in UnpackedPhase => "dst" \in data
            /\ phase = "destination_created" => snap[p] = "destination_created"
        BY <2>a, <2>k, <4>2 DEF Told
      <4> QED
        BY <1>b, <1>c, <1>f, <2>a, <2>k, <4>1, <4>2, <4>3, AdvanceSolo
    <3> QED
      BY <2>k, <3>1, <3>2
  <2>1. CASE ReadRun(p)
    <3>1. UNCHANGED <<phase, data, container, dmeta>> /\ pc[p] = "read"
      BY <2>1 DEF ReadRun, rowVars, daemonVars, metaVars
    <3>2. CASE pc' = [pc EXCEPT ![p] = "targets"] /\ snap' = [snap EXCEPT ![p] = phase]
      <4>1. Advance(p, "targets") /\ snap'[p] = phase
        BY <1>c, <1>u, <3>1, <3>2 DEF Advance
      <4>2. "targets" \in Forward /\ "targets" \notin Unpacked /\ "targets" \in Choosing
        BY DEF Forward, Unpacked, Choosing
      <4>3. phase \in UnpackedPhase => "dst" \in data
        BY <2>a DEF Told
      <4> QED
        BY <1>b, <1>c, <1>f, <2>a, <3>1, <4>1, <4>2, <4>3, AdvanceSolo
    <3>3. CASE Step(p, "idle")
      <4>1. Advance(p, "idle") /\ "idle" \in PC
        BY <1>d, <1>u, <3>1, <3>3 DEF Advance, PC
      <4>2. "idle" \notin Forward /\ "idle" \notin Unpacked /\ "idle" \notin Choosing
        BY DEF Forward, Unpacked, Choosing
      <4> QED
        BY <1>b, <1>c, <2>a, <3>1, <4>1, <4>2, AdvanceSolo
    <3> QED
      BY <2>1, <3>2, <3>3 DEF ReadRun
  <2>2. CASE ResolveTargets(p)
    <3>1. UNCHANGED <<phase, data, container, dmeta>> /\ pc[p] = "targets"
      BY <2>2 DEF ResolveTargets, rowVars, daemonVars, metaVars
    <3>2. CASE pc' = [pc EXCEPT ![p] = "registerSource"] /\ snap' = snap
      <4>1. Advance(p, "registerSource")
        BY <1>u, <3>1, <3>2 DEF Advance
      <4>2. /\ "registerSource" \in Forward /\ "registerSource" \notin Unpacked
            /\ "registerSource" \in Choosing /\ "targets" \in Choosing
            /\ "targets" \in Forward \ {"read"}
        BY DEF Forward, Unpacked, Choosing
      <4>3. /\ snap[p] \in UnpackedPhase => "dst" \in data
            /\ phase = "destination_created" => snap[p] = "destination_created"
        BY <2>a, <3>1, <4>2 DEF Told
      <4> QED
        BY <1>b, <1>c, <1>f, <2>a, <3>1, <3>2, <4>1, <4>2, <4>3, AdvanceSolo
    <3>3. CASE Step(p, "failRun")
      <4>1. pc' = [pc EXCEPT ![p] = "failRun"] /\ "failRun" \in Failing
        BY <1>d, <3>3 DEF Failing
      <4> QED
        BY <1>b, <1>c, <1>u, <2>a, <3>1, <4>1, FailingSolo DEF Told
    <3> QED
      BY <2>2, <3>2, <3>3 DEF ResolveTargets
  <2>3. CASE Registered(p)
    <3> DEFINE next == FirstStage(snap[p])
    <3>1. /\ next \in {"prepare", "push", "restore", "sync", "exists", "finalize"}
          /\ next \in Unpacked => snap[p] \in UnpackedPhase
          /\ snap[p] = "destination_created" => next = "finalize" /\ AtLeast(snap[p], "source_archived")
      BY <1>c, FirstStageUnpacked
    <3> HIDE DEF next
    <3>2. pc[p] = "registered"
      BY <2>3 DEF Registered, RecordPhase
    <3>3. /\ snap[p] \in UnpackedPhase => "dst" \in data
          /\ phase = "destination_created" => snap[p] = "destination_created"
      BY <2>a, <3>2 DEF Told, Forward, Choosing
    <3>4. next \in (Forward \ (Choosing \cup {"read"})) \cup {"finalize"} /\ next # "created"
      BY <3>1 DEF Forward, Choosing
    <3>5. CASE RecordPhase(p, "registered", "credentials_registered", next)
      BY <2>h, <3>1, <3>3, <3>4, <3>5 DEF Phase, UnpackedPhase
    <3>6. CASE Step(p, next) /\ UNCHANGED <<rowVars, daemonVars, otherVars>>
      <4>1. Advance(p, next) /\ UNCHANGED <<phase, data, container, dmeta>>
        BY <1>d, <1>u, <3>6 DEF Advance, rowVars, daemonVars, metaVars
      <4>2. "finalize" \notin Forward
        BY DEF Forward
      <4> QED
        BY <1>b, <1>c, <1>f, <2>a, <3>1, <3>3, <3>4, <4>1, <4>2, AdvanceSolo DEF Choosing
    <3> QED
      BY <2>3, <3>5, <3>6 DEF Registered, next
  <2>4. CASE Call(p, "registerSource", RegisterSource(src[p], Run(p)), "registerDest", FALSE)
    <3>1. UNCHANGED <<data, container, dmeta>>
      BY <2>4 DEF Call, RegisterSource, daemonVars, metaVars
    <3> QED
      BY <2>4, <2>k, <3>1 DEF Call, Choosing
  <2>5. CASE Call(p, "registerDest", RegisterDest(Run(p)), "registered", FALSE)
    <3>1. UNCHANGED <<data, container>> /\ (dmeta' = "restored" => dmeta = "restored")
      BY <2>5 DEF Call, RegisterDest, daemonVars, metaVars
    <3> QED
      BY <2>5, <2>k, <3>1 DEF Call, Choosing
  <2>6. CASE Call(p, "prepare", PrepareSource(src[p], Run(p)), "transferring", FALSE)
    <3>1. UNCHANGED <<data, dmeta>> /\ (container["dst"] # "none" => container'["dst"] # "none")
      BY <2>6, <1>c DEF Call, PrepareSource, StopContainer, daemonVars, metaVars, Node
    <3>2. pc[p] = "prepare"
      BY <2>6 DEF Call
    <3> QED
      BY <2>6, <2>b, <2>j, <3>1, <3>2 DEF Call, Forward, Unpacked, Choosing
  <2>7. CASE /\ pc[p] = "prepare" /\ PrepareHalf(src[p], Run(p)) /\ Fail(p, FALSE)
             /\ UNCHANGED <<rowVars, otherVars>>
    <3>1. UNCHANGED <<data, dmeta, phase>>
      BY <2>7 DEF PrepareHalf, metaVars, rowVars
    <3> QED
      BY <2>7, <2>b, <2>e, <3>1 DEF Choosing
  <2>8. CASE RecordStatus(p, "transferring", "transferring", "archived")
    <3>1. pc[p] = "transferring"
      BY <2>8 DEF RecordStatus
    <3> QED
      BY <2>8, <2>b, <2>i, <3>1 DEF Forward, Unpacked, Choosing
  <2>9. CASE RecordPhase(p, "archived", "source_archived", "push")
    <3>1. pc[p] = "archived"
      BY <2>9 DEF RecordPhase
    <3> QED
      BY <2>9, <2>b, <2>h, <3>1 DEF Phase, Forward, Unpacked, UnpackedPhase, Choosing
  <2>10. CASE Call(p, "push", Push(src[p], Run(p)), "verified", FALSE)
    <3>1. UNCHANGED <<data, container>> /\ (dmeta' = "restored" => dmeta = "restored")
      BY <2>10 DEF Call, Push, daemonVars, metaVars
    <3>2. pc[p] = "push"
      BY <2>10 DEF Call
    <3> QED
      BY <2>10, <2>b, <2>j, <3>1, <3>2 DEF Call, Forward, Unpacked, Choosing
  <2>11. CASE RecordPhase(p, "verified", "destination_verified", "restoring")
    <3>1. pc[p] = "verified"
      BY <2>11 DEF RecordPhase
    <3> QED
      BY <2>11, <2>b, <2>h, <3>1 DEF Phase, Forward, Unpacked, UnpackedPhase, Choosing
  <2>12. CASE RecordStatus(p, "restoring", "restoring", "restore")
    <3>1. pc[p] = "restoring"
      BY <2>12 DEF RecordStatus
    <3> QED
      BY <2>12, <2>b, <2>i, <3>1 DEF Forward, Unpacked, Choosing
  <2>13. CASE Call(p, "restore", Restore(Run(p)), "restored", FALSE)
    <3>1. pc[p] = "restore" /\ UNCHANGED <<rowVars, otherVars>>
      BY <2>13 DEF Call
    <3>2. CASE Restore(Run(p)) /\ (Step(p, "restored") \/ Fail(p, FALSE))
      <4>1. container' = container /\ data \subseteq data' /\ "dst" \in data'
        BY <2>a, <3>2 DEF Restore, Told
      <4> QED
        BY <2>b, <2>j, <3>1, <3>2, <4>1 DEF Forward, Choosing
    <3>3. CASE UNCHANGED daemonVars /\ Fail(p, FALSE)
      BY <2>b, <2>e, <3>1, <3>3 DEF daemonVars, metaVars, rowVars, Choosing
    <3> QED
      BY <2>13, <3>2, <3>3 DEF Call
  <2>14. CASE RecordPhase(p, "restored", "destination_restored", "sync")
    <3>1. pc[p] = "restored"
      BY <2>14 DEF RecordPhase
    <3> QED
      BY <2>14, <2>b, <2>h, <3>1 DEF Phase, Forward, Choosing, Unpacked
  <2>15. CASE Call(p, "sync", SyncConfiguration \/ UNCHANGED daemonVars, "configured", FALSE)
    <3>1. pc[p] = "sync"
      BY <2>15 DEF Call
    <3>2. UNCHANGED <<data, dmeta>> /\ (container["dst"] # "none" => container'["dst"] # "none")
      BY <1>c, <2>15 DEF Call, SyncConfiguration, SetDestination, daemonVars, metaVars
    <3> QED
      BY <2>15, <2>b, <2>j, <3>1, <3>2 DEF Call, Forward, Choosing, Unpacked
  <2>16. CASE RecordPhase(p, "configured", "destination_configured", "exists")
    <3>1. pc[p] = "configured"
      BY <2>16 DEF RecordPhase
    <3> QED
      BY <2>16, <2>b, <2>h, <3>1 DEF Phase, Forward, Choosing, Unpacked
  <2>17. CASE DestinationExists(p)
    <3>1. pc[p] = "exists" /\ UNCHANGED <<data, container, dmeta, phase>>
      BY <2>17 DEF DestinationExists, daemonVars, metaVars, rowVars
    <3>2. CASE container["dst"] # "none" /\ Step(p, "created")
      BY <2>b, <2>g, <3>1, <3>2 DEF Forward, Choosing, Unpacked
    <3>3. CASE Step(p, "create")
      BY <2>b, <2>g, <3>1, <3>3 DEF Forward, Choosing, Unpacked
    <3> QED
      BY <2>17, <3>2, <3>3 DEF DestinationExists
  <2>18. CASE CreateDestination(p)
    <3>1. pc[p] = "create" /\ phase' = phase /\ "dst" \in data /\ phase # "destination_created"
      BY <2>18, <2>b DEF CreateDestination, rowVars, Unpacked, Choosing
    <3>2. UNCHANGED <<data, dmeta>> /\ (container["dst"] # "none" => container'["dst"] # "none")
      BY <1>c, <2>18 DEF CreateDestination, CreateServer, CreateHalf, SetDestination, daemonVars, metaVars
    <3>3. CASE Step(p, "check")
      BY <2>g, <3>1, <3>2, <3>3 DEF Forward, Choosing
    <3>4. CASE Fail(p, TRUE) \/ Fail(p, FALSE)
      BY <2>e, <3>1, <3>2, <3>4
    <3> QED
      BY <2>18, <3>3, <3>4 DEF CreateDestination
  <2>19. CASE CheckDestination(p)
    <3>1. /\ pc[p] = "check" /\ UNCHANGED <<data, container, dmeta, phase>> /\ "dst" \in data
          /\ phase # "destination_created"
      BY <2>19, <2>b DEF CheckDestination, daemonVars, metaVars, rowVars, Unpacked, Choosing
    <3>2. CASE container["dst"] # "none" /\ Step(p, "created")
      BY <2>g, <3>1, <3>2 DEF Forward, Choosing
    <3>3. CASE Fail(p, TRUE)
      BY <2>e, <3>1, <3>3
    <3> QED
      BY <2>19, <3>2, <3>3 DEF CheckDestination
  <2>20. CASE RecordPhase(p, "created", "destination_created", "finalize")
    <3>1. pc[p] = "created" /\ "dst" \in data /\ container["dst"] # "none"
      BY <2>20, <2>a DEF RecordPhase, Told, Unpacked
    <3> QED
      BY <2>20, <2>h, <3>1 DEF Phase, Unpacked
  <2>21. CASE /\ pc[p] = "sync" /\ SyncHalf /\ Fail(p, FALSE)
              /\ UNCHANGED <<rowVars, otherVars>>
    <3>1. UNCHANGED <<data, dmeta, phase>>
      BY <2>21 DEF SyncHalf, SetDestination, metaVars, rowVars
    <3> QED
      BY <2>21, <2>b, <2>e, <3>1 DEF Choosing
  <2> QED
    BY <2>1, <2>2, <2>3, <2>4, <2>5, <2>6, <2>7, <2>8, <2>9, <2>10, <2>11, <2>12, <2>13, <2>14,
       <2>15, <2>16, <2>17, <2>18, <2>19, <2>20, <2>21 DEF RunForward
<1> QED
  BY <1>v, <1>w

\* The commit and the calls after it.  The goroutine that finalized the destination
\* removes the files of the source only.
LEMMA FinalizeSolo ==
    ASSUME TypeOK, Solo, OwnershipInv, SoloInv, NEW p \in Procs, RunFinalize(p)
    PROVE  SoloInv'
<1>a. /\ src \in [Procs -> Node] /\ src[p] = "src" /\ pc \in [Procs -> PC]
      /\ node \in Node /\ data \in SUBSET Node /\ \A q \in Procs : q = p
  BY DEF SoloInv, Targets, TypeOK, RunOK, RowOK, DaemonOK, Solo
<1>b. ASSUME NEW next, Step(p, next)
      PROVE  pc' = [pc EXCEPT ![p] = next] /\ src' = src
  BY <1>a, <1>b DEF Step, Goto
<1>c. UNCHANGED <<cpc, csrc, undone>>
  BY DEF RunFinalize, FinalizeMigration, FinalCall, MarkClean, otherVars, cleanVars, boundVars
\* After the commit: a step that keeps the row, and the files but for the last call.
<1>d. ASSUME NEW next \in Committed \cup {"idle"}, Step(p, next), pc[p] \in Committed,
             node = "dst", node' = node, phase' = phase,
             undone \/ (/\ dmeta' = "restored" => dmeta = "restored" /\ data' = data
                        /\ next = "cleanSource" => "dst" \in data' /\ cpc[p] # "cleanSource" /\ dmeta' # "restored"
                        /\ \/ data' = data
                           \/ "dst" \in data' /\ cpc[p] # "cleanSource")
      PROVE  SoloInv'
  <2>1. pc'[p] = next /\ src' = src /\ next \notin Failing
    BY <1>a, <1>b, <1>d DEF Committed, Failing
  <2>2. Before' /\ Targets'
    BY <1>c, <1>d, <2>1 DEF Before, Targets, SoloInv
  <2>3. phase = "completed" /\ (undone \/ Handed)
    BY <1>d DEF After, Spared, SoloInv
  <2>4. undone' \/ Handed'
    BY <1>a, <1>c, <1>d, <2>1, <2>3 DEF Handed
  <2>5. After'
    BY <1>a, <1>d, <2>1, <2>3, <2>4 DEF After
  <2> QED
    BY <2>2, <2>5 DEF SoloInv
<1>1. CASE FinalizeMigration(p)
  <2>1. pc[p] = "finalize" /\ node = "src" /\ phase \notin {"none", "completed"} /\ (undone \/ Told(p))
    <3>1. pc[p] = "finalize"
      BY <1>1 DEF FinalizeMigration
    <3>2. node = "src"
      BY <1>a, <3>1 DEF SoloInv, After, Committed, Failing, Node
    <3> QED
      BY <3>1, <3>2 DEF OwnershipInv, SoloInv, Before, Closed
  <2>2. UNCHANGED <<data, container, dmeta>>
    BY <1>1 DEF FinalizeMigration, daemonVars, metaVars
  <2>3. ASSUME CommitOwnership
        PROVE  /\ node' = "dst" /\ phase' = "completed" /\ cpc[p] = "idle" /\ "src" \in data
               /\ undone \/ "dst" \in data
    BY <2>1, <2>3 DEF CommitOwnership, Told, UnpackedPhase, OwnershipInv, SourceSurvives
  <2>4. CASE CommitOwnership /\ Step(p, "finalizeDest")
    <3>1. pc'[p] = "finalizeDest" /\ src' = src
      BY <1>a, <1>b, <2>4
    <3>2. Before' /\ Targets'
      BY <1>c, <2>3, <2>4, <3>1 DEF Before, Targets, SoloInv
    <3>3. undone' \/ Handed'
      BY <1>a, <1>c, <2>2, <2>3, <2>4, <3>1 DEF Handed
    <3>4. After'
      BY <1>a, <2>3, <2>4, <3>1, <3>3 DEF After, Committed, Failing
    <3> QED
      BY <3>2, <3>4 DEF SoloInv
  <2>5. CASE CommitOwnership /\ Fail(p, TRUE)
    <3>1. pc'[p] = "failCancelDest" /\ src' = src
      BY <1>a, <2>5 DEF Fail, Goto
    <3>2. Before' /\ Targets'
      BY <1>c, <2>3, <2>5, <3>1 DEF Before, Targets, SoloInv
    <3>3. Spared'
      BY <1>a, <2>2, <2>3, <2>5, <3>1 DEF Spared, Committed
    <3>4. After'
      BY <1>a, <2>2, <2>3, <2>5, <3>1, <3>3 DEF After, Failing
    <3> QED
      BY <3>2, <3>4 DEF SoloInv
  <2>6. CASE Fail(p, TRUE) /\ UNCHANGED rowVars
    <3>1. pc' = [pc EXCEPT ![p] = "failCancelDest"] /\ src' = src
      BY <1>a, <2>6 DEF Fail, Goto
    <3>2. "failCancelDest" \in Failing /\ UNCHANGED <<node, phase>>
      BY <2>6 DEF Failing, rowVars
    <3>3. CASE undone
      BY <1>c, <2>1, <3>1, <3>2, <3>3, UndoneSolo
    <3>4. CASE Told(p)
      BY <1>c, <2>1, <2>2, <3>1, <3>2, <3>4, FailingSolo DEF Told
    <3> QED
      BY <2>1, <3>3, <3>4
  <2> QED
    BY <1>1, <2>1, <2>4, <2>5, <2>6 DEF FinalizeMigration
<1>2. CASE FinalCall(p, "finalizeDest", FinalizeDest(Run(p)), "cleanSource")
  <2>1. node = "dst" /\ node' = node /\ phase' = phase /\ pc[p] \in Committed
    BY <1>2 DEF FinalCall, OwnershipInv, Committed, rowVars
  <2>2. CASE FinalizeDest(Run(p)) /\ (Step(p, "cleanSource") \/ Step(p, "idle"))
    <3>1. dmeta = "restored" /\ dmeta' = "activated" /\ data' = data
      BY <2>2 DEF FinalizeDest
    <3>2. undone \/ ("dst" \in data /\ cpc[p] # "cleanSource")
      BY <2>1, <3>1 DEF SoloInv, After, Spared, Handed
    <3> QED
      BY <1>d, <2>1, <2>2, <3>1, <3>2 DEF Committed
  <2>3. CASE UNCHANGED daemonVars /\ Step(p, "idle")
    BY <1>d, <2>1, <2>3 DEF daemonVars, metaVars
  <2> QED
    BY <1>2, <2>2, <2>3 DEF FinalCall
<1>3. CASE FinalCall(p, "cleanSource", CleanSource(src[p], Run(p)), "markClean")
  <2>1. node = "dst" /\ node' = node /\ phase' = phase /\ pc[p] = "cleanSource" /\ pc[p] \in Committed
    BY <1>3 DEF FinalCall, OwnershipInv, Committed, rowVars
  <2>2. undone \/ (dmeta # "restored" /\ "dst" \in data /\ cpc[p] # "cleanSource")
    BY <2>1 DEF SoloInv, After, Spared, Handed
  <2>3. CASE CleanSource(src[p], Run(p)) /\ (Step(p, "markClean") \/ Step(p, "idle"))
    <3>1. dmeta' = dmeta /\ ("dst" \in data => "dst" \in data')
      BY <1>a, <2>3 DEF CleanSource
    <3> QED
      BY <1>d, <2>1, <2>2, <2>3, <3>1 DEF Committed
  <2>4. CASE UNCHANGED daemonVars /\ Step(p, "idle")
    BY <1>d, <2>1, <2>4 DEF daemonVars, metaVars
  <2> QED
    BY <1>3, <2>3, <2>4 DEF FinalCall
<1>4. CASE MarkClean(p)
  <2>1. /\ node = "dst" /\ node' = node /\ phase' = phase /\ Step(p, "idle")
        /\ UNCHANGED <<data, dmeta>> /\ pc[p] \in Committed
    BY <1>4 DEF MarkClean, ClearPending, OwnershipInv, Committed, rowVars, daemonVars, metaVars
  <2> QED
    BY <1>d, <2>1
<1> QED
  BY <1>1, <1>2, <1>3, <1>4 DEF RunFinalize

\* fail.  Before the commit it leaves the destination as the row tells, or `undone', or a
\* row that is closed; after a commit whose reply was lost it spares the source.
LEMMA FailSolo ==
    ASSUME TypeOK, Solo, OwnershipInv, SoloInv, NEW p \in Procs, RunFail(p)
    PROVE  SoloInv'
<1>a. pc[p] \in Failing /\ pc[p] # "idle"
  BY DEF RunFail, RollbackCall, DeleteDestination, FailMigrationRun, MarkFailed, Failing
<1>b. /\ src \in [Procs -> Node] /\ src[p] = "src" /\ pc \in [Procs -> PC] /\ node \in Node
      /\ data \in SUBSET Node /\ \A q \in Procs : q = p
  BY DEF SoloInv, Targets, TypeOK, RunOK, RowOK, DaemonOK, Solo
<1>c. ASSUME NEW next, Step(p, next)
      PROVE  pc' = [pc EXCEPT ![p] = next] /\ src' = src /\ pc'[p] = next
  BY <1>b, <1>c DEF Step, Goto
<1>d. PICK next \in Failing \cup {"idle"} : Step(p, next)
  BY DEF RunFail, RollbackCall, DeleteDestination, FailMigrationRun, MarkFailed, Failing
<1>e. UNCHANGED <<node, cpc, csrc>>
  BY DEF RunFail, RollbackCall, DeleteDestination, FailMigrationRun, MarkFailed, CloseRun, rowVars,
     otherVars, cleanVars
<1>f. "src" \in data => "src" \in data'
  BY DEF RunFail, RollbackCall, DeleteDestination, FailMigrationRun, MarkFailed, CancelTransfer,
     DeleteServer, DeleteHalf, SetDestination, StartServer, daemonVars
<1>1. CASE node = "dst"
  <2>1. phase = "completed" /\ "src" \in data
    BY <1>1, <1>a DEF SoloInv, After
  <2>2. phase' = phase
    BY <2>1 DEF RunFail, RollbackCall, DeleteDestination, FailMigrationRun, MarkFailed, CloseRun, rowVars
  <2>3. Before' /\ Targets'
    BY <1>1, <1>c, <1>d, <1>e DEF SoloInv, Before, Targets
  <2>4. Spared'
    BY <1>b, <1>c, <1>d, <1>f, <2>1 DEF Spared, Committed, Failing
  <2>5. After'
    BY <1>b, <1>c, <1>d, <1>e, <1>f, <2>1, <2>2, <2>4 DEF After
  <2> QED
    BY <2>3, <2>5 DEF SoloInv
<1>2. CASE node = "src"
  <2>a. phase \notin {"none", "completed"}
    BY <1>2, <1>a DEF SoloInv, Before, OwnershipInv
  <2>b. src' = src /\ phase' # "none"
    <3>1. src' = src
      BY <1>c, <1>d
    <3>2. phase' # "none"
      BY <2>a DEF RunFail, RollbackCall, DeleteDestination, FailMigrationRun, MarkFailed, CloseRun, rowVars
    <3> QED
      BY <3>1, <3>2
  <2>c. CASE undone'
    BY <1>2, <1>e, <2>b, <2>c, UndoneSolo
  \* The row is closed.
  <2>d. ASSUME Closed(p)' PROVE SoloInv'
    BY <1>2, <1>b, <1>e, <2>b, <2>d DEF SoloInv, Before, After, Targets
  \* A step that leaves the rows alone and deletes nothing.
  <2>e. ASSUME phase' = phase, undone' = undone, ~undone, UNCHANGED data,
               container["dst"] # "none" => container'["dst"] # "none",
               dmeta' = "restored" => dmeta = "restored"
        PROVE  SoloInv'
    <3>1. CASE Told(p)
      <4>1. Told(p)'
        BY <1>b, <1>c, <1>d, <2>e, <3>1 DEF Told, Failing, Unpacked, Choosing, Forward
      <4> QED
        BY <1>2, <1>b, <1>e, <2>b, <4>1 DEF SoloInv, Before, After, Targets
    <3>2. CASE Closed(p)
      <4>1. pc[p] = "failStatus"
        BY <1>a, <3>2 DEF Closed
      <4>2. next = "idle"
        BY <4>1, <1>b, <1>c, <1>d DEF RunFail, RollbackCall, DeleteDestination, FailMigrationRun, MarkFailed
      <4> QED
        BY <1>c, <1>d, <2>d, <2>e, <3>2, <4>2 DEF Closed
    <3> QED
      BY <1>2, <2>e, <3>1, <3>2 DEF SoloInv, Before
  <2>1. CASE FailMigrationRun(p)
    <3>1. CASE CloseRun("failed")
      BY <1>c, <2>1, <2>a, <2>d, <3>1 DEF FailMigrationRun, CloseRun, Closed
    <3>2. CASE UNCHANGED <<rowVars, undone>>
      BY <2>1, <2>c, <2>e, <3>2 DEF FailMigrationRun, rowVars, daemonVars, metaVars
    <3> QED
      BY <2>1, <3>1, <3>2 DEF FailMigrationRun
  <2>2. CASE MarkFailed(p)
    BY <2>2, <2>c, <2>e DEF MarkFailed, otherVars, boundVars, daemonVars, metaVars
  <2>3. CASE DeleteDestination(p)
    BY <2>3, <2>c, <2>e DEF DeleteDestination, rowVars, daemonVars, metaVars
  <2>4. CASE RollbackCall(p, "failCancelDest", CancelTransfer("dst", Run(p)), next)
    <3>1. UNCHANGED <<data, container, phase, undone>> /\ (dmeta' = "restored" => dmeta = "restored")
      BY <2>4 DEF RollbackCall, CancelTransfer, rowVars, otherVars, boundVars, daemonVars, metaVars
    <3> QED
      BY <2>c, <2>e, <3>1
  <2>5. CASE RollbackCall(p, "failCancelSource", CancelTransfer(src[p], Run(p)), "failStart")
    <3>1. UNCHANGED <<data, container, phase, undone>> /\ (dmeta' = "restored" => dmeta = "restored")
      BY <2>5 DEF RollbackCall, CancelTransfer, rowVars, otherVars, boundVars, daemonVars, metaVars
    <3> QED
      BY <2>c, <2>e, <3>1
  <2>6. CASE RollbackCall(p, "failStart", StartServer(src[p]), "failRun")
    <3>1. UNCHANGED <<data, dmeta, phase, undone>> /\ (container["dst"] # "none" => container'["dst"] # "none")
      BY <1>b, <2>6 DEF RollbackCall, StartServer, rowVars, otherVars, boundVars, daemonVars, metaVars,
         TypeOK, DaemonOK, Node
    <3> QED
      BY <2>c, <2>e, <3>1
  <2>7. next = IF pc[p] = "failCancelDest" THEN IF made[p] THEN "failDelete" ELSE "failCancelSource" ELSE next
    <3>1. ASSUME pc[p] = "failCancelDest"
          PROVE  Step(p, IF made[p] THEN "failDelete" ELSE "failCancelSource")
      BY <3>1 DEF RunFail, RollbackCall, DeleteDestination, FailMigrationRun, MarkFailed
    <3> QED
      BY <1>c, <1>d, <3>1
  <2> QED
    BY <2>1, <2>2, <2>3, <2>4, <2>5, <2>6, <2>7 DEF RunFail, RollbackCall
<1> QED
  BY <1>1, <1>2, <1>b DEF Node

\* The cleanup task, after the commit: it comes to remove files only if it finalized
\* the destination itself, and then the run does not.
LEMMA CleanupSolo ==
    ASSUME TypeOK, Solo, OwnershipInv, SoloInv, NEW p \in Procs, Cleanup(p)
    PROVE  SoloInv'
<1>a. /\ node = "dst" /\ node' = node /\ phase' = phase /\ UNCHANGED <<pc, src, undone>>
      /\ cpc \in [Procs -> CleanPC] /\ csrc \in [Procs -> Node] /\ \A q \in Procs : q = p
  <2>1. node = "dst" /\ node' = node /\ phase' = phase
    BY DEF Cleanup, BeginCleanup, CleanCall, EndCleanup, ClearPending, rowVars, OwnershipInv
  <2>2. UNCHANGED <<pc, src, undone>>
    BY DEF Cleanup, BeginCleanup, CleanCall, EndCleanup, CleanTo, runVars, boundVars
  <2> QED
    BY <2>1, <2>2 DEF TypeOK, TaskOK, Solo
<1>b. ASSUME cpc' \in [Procs -> CleanPC], cpc'[p] # "idle" => csrc'[p] = "dst",
             "src" \in data => "src" \in data',
             Handed => Handed' \/ Spared'
      PROVE  SoloInv'
  <2>1. Before' /\ Targets'
    BY <1>a, <1>b DEF SoloInv, Before, Targets
  <2>2. Spared => Spared'
    BY <1>a, <1>b DEF Spared
  <2>3. After'
    BY <1>a, <1>b, <2>2 DEF SoloInv, After
  <2> QED
    BY <2>1, <2>3 DEF SoloInv
<1>c. \A at \in {"idle", "registerDest", "finalizeDest", "cleanSource", "markClean"} : at \in CleanPC
  BY DEF CleanPC
\* Moving on, to anywhere but the last call.
<1>d. ASSUME NEW next \in CleanPC \ {"cleanSource"}, CleanTo(p, next), cpc[p] # "idle", data' = data,
             dmeta' = "restored" => dmeta = "restored"
      PROVE  SoloInv'
  <2>1. cpc'[p] = next /\ cpc' \in [Procs -> CleanPC] /\ (next # "idle" => csrc'[p] = "dst")
    BY <1>a, <1>d DEF CleanTo, SoloInv, Targets
  <2>2. Handed => Handed'
    BY <1>a, <1>d, <2>1 DEF Handed
  <2> QED
    BY <1>b, <1>d, <2>1, <2>2
<1>1. CASE BeginCleanup(p)
  <2>1. /\ cpc'[p] = "registerSource" /\ csrc'[p] = "dst" /\ UNCHANGED <<data, dmeta>>
        /\ cpc' \in [Procs -> CleanPC]
    BY <1>1, <1>a DEF BeginCleanup, daemonVars, metaVars, CleanPC
  <2>2. Handed => Handed'
    BY <1>a, <2>1 DEF Handed
  <2> QED
    BY <1>b, <2>1, <2>2
<1>2. CASE \/ CleanCall(p, "registerSource", RegisterSource(csrc[p], Cleaner(p)), "registerDest")
           \/ CleanCall(p, "registerDest", RegisterDest(Cleaner(p)), "finalizeDest")
  <2>1. data' = data /\ (dmeta' = "restored" => dmeta = "restored") /\ cpc[p] # "idle"
    BY <1>2 DEF CleanCall, RegisterSource, RegisterDest, daemonVars, metaVars
  <2>2. CleanTo(p, "registerDest") \/ CleanTo(p, "finalizeDest") \/ CleanTo(p, "idle")
    BY <1>2 DEF CleanCall
  <2> QED
    BY <1>c, <1>d, <2>1, <2>2
<1>3. CASE CleanCall(p, "finalizeDest", FinalizeDest(Cleaner(p)), "cleanSource")
  <2>1. CASE FinalizeDest(Cleaner(p)) /\ CleanTo(p, "cleanSource")
    <3>1. dmeta = "restored" /\ dmeta' = "activated" /\ data' = data
      BY <2>1 DEF FinalizeDest
    <3>2. /\ cpc' \in [Procs -> CleanPC] /\ cpc'[p] = "cleanSource"
          /\ csrc'[p] = "dst"
      BY <1>3, <1>a, <1>c, <2>1 DEF CleanTo, CleanCall, SoloInv, Targets
    <3>3. Handed => Handed'
      BY <1>a, <3>1, <3>2 DEF Handed
    <3> QED
      BY <1>b, <3>1, <3>2, <3>3
  <2>2. CASE FinalizeDest(Cleaner(p)) /\ CleanTo(p, "idle")
    BY <1>c, <1>d, <1>3, <2>2 DEF FinalizeDest, CleanCall
  <2>3. CASE UNCHANGED daemonVars /\ CleanTo(p, "idle")
    BY <1>c, <1>d, <1>3, <2>3 DEF CleanCall, daemonVars, metaVars
  <2> QED
    BY <1>3, <2>1, <2>2, <2>3 DEF CleanCall
<1>4. CASE CleanCall(p, "cleanSource", CleanSource(csrc[p], Cleaner(p)), "markClean")
  <2>1. cpc[p] = "cleanSource" /\ csrc[p] = "dst"
    BY <1>4 DEF CleanCall, SoloInv, Targets
  <2>2. CASE CleanSource(csrc[p], Cleaner(p)) /\ (CleanTo(p, "markClean") \/ CleanTo(p, "idle"))
    <3>1. dmeta' = dmeta /\ data' = data \ {"dst"}
      BY <2>1, <2>2 DEF CleanSource
    <3>2. /\ cpc' \in [Procs -> CleanPC] /\ cpc'[p] # "cleanSource"
          /\ cpc'[p] # "idle" => csrc'[p] = "dst"
      BY <1>a, <1>c, <2>1, <2>2 DEF CleanTo
    <3>3. Handed => "src" \in data /\ pc[p] # "cleanSource" /\ dmeta # "restored"
      BY <2>1 DEF Handed
    <3>4. Handed => Handed'
      BY <1>a, <3>1, <3>2, <3>3 DEF Handed
    <3> QED
      BY <1>b, <3>1, <3>2, <3>4
  <2>3. CASE UNCHANGED daemonVars /\ CleanTo(p, "idle")
    BY <1>c, <1>d, <2>1, <2>3 DEF daemonVars, metaVars
  <2> QED
    BY <1>4, <2>2, <2>3 DEF CleanCall
<1>5. CASE EndCleanup(p)
  BY <1>5, <1>c, <1>d DEF EndCleanup, daemonVars, metaVars
<1> QED
  BY <1>1, <1>2, <1>3, <1>4, <1>5 DEF Cleanup

\* A run is claimed before the commit, from a row that is not closed.
LEMMA ClaimSolo ==
    ASSUME TypeOK, Solo, OwnershipInv, SoloInv, NEW p \in Procs, ClaimMigrationRun(p)
    PROVE  SoloInv'
<1>1. /\ pc[p] = "idle" /\ phase \notin FinalPhase \cup {"none"}
      /\ pc' = [pc EXCEPT ![p] = "read"]
      /\ UNCHANGED <<phase, node, data, container, dmeta, snap, src, cpc, csrc, undone>>
  BY DEF ClaimMigrationRun, daemonVars, metaVars, cleanVars, boundVars
<1>2. node = "src"
  BY <1>1 DEF SoloInv, After, FinalPhase, TypeOK, RowOK, Node
<1>3. undone \/ Told(p)
  BY <1>1, <1>2 DEF SoloInv, Before, Closed, FinalPhase
<1>4. pc'[p] = "read" /\ \A q \in Procs : q = p
  BY <1>1 DEF OwnershipInv, Solo
<1>5. Told(p) => Told(p)'
  BY <1>1, <1>4 DEF Told, Unpacked, Choosing
<1> QED
  BY <1>1, <1>2, <1>3, <1>4, <1>5 DEF SoloInv, Before, After, Targets

\* A crash forgets the goroutines and leaves the rows and the daemons as they are.
LEMMA CrashSolo ==
    ASSUME TypeOK, Solo, OwnershipInv, SoloInv, NEW p \in Procs, Crash(p)
    PROVE  SoloInv'
<1>1. /\ pc' = [pc EXCEPT ![p] = "idle"] /\ cpc' = [cpc EXCEPT ![p] = "idle"]
      /\ src' = [src EXCEPT ![p] = "src"]
      /\ UNCHANGED <<phase, node, data, container, dmeta, undone>>
  BY DEF Crash, Step, Goto, daemonVars, metaVars
<1>2. pc'[p] = "idle" /\ cpc'[p] = "idle" /\ src' = src /\ \A q \in Procs : q = p
  BY <1>1 DEF OwnershipInv, Solo, SoloInv, Targets, TypeOK, RunOK
<1>3. Targets'
  BY <1>2 DEF SoloInv, Targets
<1>4. (Told(p) => Told(p)') /\ (Closed(p) => Closed(p)')
  BY <1>1, <1>2 DEF Told, Closed, Unpacked, Choosing, Forward
<1>5. Before'
  BY <1>1, <1>2, <1>4 DEF SoloInv, Before
<1>6. (Handed => Handed') /\ (Spared => Spared')
  BY <1>1, <1>2 DEF Handed, Spared, Committed
<1>7. After'
  BY <1>1, <1>2, <1>6 DEF SoloInv, After, Failing
<1> QED
  BY <1>3, <1>5, <1>7 DEF SoloInv

\* Every step keeps SoloInv.
LEMMA SoloStep == TypeOK /\ Solo /\ OwnershipInv /\ SoloInv /\ [Next]_vars => SoloInv'
<1> SUFFICES ASSUME TypeOK, Solo, OwnershipInv, SoloInv, [Next]_vars
             PROVE  SoloInv'
  OBVIOUS
<1>1. ASSUME NEW p \in Procs, Crash(p) PROVE SoloInv'
  BY <1>1, CrashSolo
<1>2. ASSUME NEW p \in Procs, RunStep(p) PROVE SoloInv'
  BY <1>2, ForwardSolo, FinalizeSolo, FailSolo DEF RunStep
<1>3. ASSUME NEW p \in Procs, Cleanup(p) PROVE SoloInv'
  BY <1>3, CleanupSolo
<1>4. ASSUME NEW p \in Procs, Execute(p) \/ Reclaim(p) PROVE SoloInv'
  BY <1>4, ClaimSolo DEF Execute, Reclaim
<1>5. CASE CancelMigration
  <2>1. UNCHANGED <<pc, snap, src, cpc, csrc, node, data, container, undone>>
    BY <1>5 DEF CancelMigration, BeginCancel, CancelTargets, CancelCall, CancelTo,
       CancelMigrationRun, MarkCancelled, CloseRun, RegisterSource, RegisterDest, CancelTransfer,
       rowVars, daemonVars, runVars, cleanVars, boundVars
  <2>2. PhaseKept
    BY <1>5 DEF CancelMigration, BeginCancel, CancelTargets, CancelCall, CancelMigrationRun,
       MarkCancelled, CloseRun, rowVars, PhaseKept
  <2>3. dmeta' = "restored" => dmeta = "restored"
    BY <1>5 DEF CancelMigration, BeginCancel, CancelTargets, CancelCall, CancelMigrationRun,
       MarkCancelled, RegisterSource, RegisterDest, CancelTransfer, daemonVars, metaVars
  <2> QED
    BY <2>1, <2>2, <2>3, OthersSolo
<1>6. CASE Prepare \/ Environment \/ UNCHANGED vars \/ \E p \in Procs : BudgetEnds(p) \/ Shutdown(p)
  <2>1. UNCHANGED <<pc, snap, src, cpc, csrc, node, data, dmeta, undone>>
    BY <1>6 DEF Prepare, Environment, BeginPrepare, EnsureMigrationRun, MarkPreparing, EndPrepare,
       LeaseExpires, AllocationTaken, PowerOn, StartServer, BudgetEnds, Shutdown, vars, rowVars,
       daemonVars, metaVars, runVars, otherVars, cleanVars, boundVars
  <2>2. PhaseKept
    BY <1>6 DEF Prepare, Environment, BeginPrepare, EnsureMigrationRun, MarkPreparing, EndPrepare,
       LeaseExpires, AllocationTaken, PowerOn, BudgetEnds, Shutdown, vars, rowVars, PhaseKept
  <2>3. container["dst"] # "none" => container'["dst"] # "none"
    <3>1. CASE PowerOn
      <4>1. container' = [container EXCEPT ![node] = "running"] /\ node \in Node
        BY <3>1 DEF PowerOn, StartServer, TypeOK, RowOK
      <4> QED
        BY <4>1 DEF TypeOK, DaemonOK, Node
    <3>2. CASE ~PowerOn
      BY <1>6, <3>2 DEF Prepare, Environment, BeginPrepare, EnsureMigrationRun, MarkPreparing,
         EndPrepare, LeaseExpires, AllocationTaken, BudgetEnds, Shutdown, vars, daemonVars
    <3> QED
      BY <3>1, <3>2
  <2> QED
    BY <2>1, <2>2, <2>3, OthersSolo
<1> QED
  BY <1>1, <1>2, <1>3, <1>4, <1>5, <1>6 DEF Next

\* The invariant of a single process, with every failure of the database and the daemons,
\* crash, shutdown and cancellation.
THEOREM SoloHolds == Solo /\ Spec => []SoloInv
<1> SUFFICES ASSUME Solo PROVE Spec => []SoloInv
  OBVIOUS
<1>1. Init => SoloInv
  BY DEF Init, SoloInv, Before, After, Targets, Told, UnpackedPhase, Unpacked, Choosing, Forward, Node
<1>2. (TypeOK /\ OwnershipInv /\ SoloInv) /\ [Next]_vars => SoloInv'
  BY SoloStep
<1> QED
  BY <1>1, <1>2, TypeCorrect, OwnershipHolds, PTL DEF Spec

\* One process never loses the server's files, however its runs crash, are cancelled, shut
\* down, reclaimed and retried, and whatever statement or call fails, unless a rollback
\* has deleted the destination and could not close the run (fail, FailMigrationRun).
THEOREM FilesSurvive == Solo /\ Spec => []DataSurvives
<1> SUFFICES ASSUME Solo PROVE Spec => []DataSurvives
  OBVIOUS
<1>1. TypeOK /\ OwnershipInv /\ SoloInv => DataSurvives
  BY DEF SoloInv, After, Spared, Handed, DataSurvives, OwnershipInv, SourceSurvives, TypeOK, RowOK, Node
<1>2. Spec => []SoloInv
  BY SoloHolds
<1> QED
  BY <1>1, <1>2, TypeCorrect, OwnershipHolds, PTL

\* Only FinalizeMigration changes the owner of the server.
LEMMA OnlyTheCommitMoves ==
    ASSUME [Next]_vars, node' # node
    PROVE  \E p \in Procs : pc[p] = "finalize" /\ CommitOwnership
<1>1. Prepare \/ Environment => node' = node
  BY DEF Prepare, Environment, BeginPrepare, EnsureMigrationRun, MarkPreparing, EndPrepare,
     LeaseExpires, AllocationTaken, PowerOn, rowVars
<1>2. CancelMigration => node' = node
  BY DEF CancelMigration, BeginCancel, CancelTargets, CancelCall, CancelMigrationRun, CloseRun,
     MarkCancelled, rowVars
<1>3. \A p \in Procs : Execute(p) \/ Reclaim(p) \/ BudgetEnds(p) \/ Shutdown(p) \/ Crash(p) => node' = node
  BY DEF Execute, Reclaim, ClaimMigrationRun, BudgetEnds, Shutdown, Crash, rowVars
<1>4. \A p \in Procs : Cleanup(p) => node' = node
  BY DEF Cleanup, BeginCleanup, CleanCall, EndCleanup, ClearPending, rowVars
<1>5. \A p \in Procs : RunForward(p) => node' = node
  BY DEF RunForward, ReadRun, ResolveTargets, Call, Registered, RecordPhase, RecordStatus,
     DestinationExists, CreateDestination, CheckDestination, rowVars
<1>6. \A p \in Procs : RunFinalize(p) => node' = node \/ (pc[p] = "finalize" /\ CommitOwnership)
  BY DEF RunFinalize, FinalizeMigration, FinalCall, MarkClean, ClearPending, rowVars
<1>7. \A p \in Procs : RunFail(p) => node' = node
  BY DEF RunFail, RollbackCall, DeleteDestination, FailMigrationRun, CloseRun, MarkFailed, rowVars
<1>8. UNCHANGED vars => node' = node
  BY DEF vars, rowVars
<1> QED
  BY <1>1, <1>2, <1>3, <1>4, <1>5, <1>6, <1>7, <1>8 DEF Next, RunStep

\* One process commits only to a destination with the files and a container: unless a
\* rollback has been left half done, the phase destination_created that FinalizeMigration
\* asks for is never stale.
THEOREM CommitsToDestination == Solo /\ Spec => CommitNeedsDestination
<1> SUFFICES ASSUME Solo PROVE Spec => CommitNeedsDestination
  OBVIOUS
<1>1. SoloInv /\ [Next]_vars =>
        [node' # node => undone \/ ("dst" \in data /\ container["dst"] # "none")]_vars
  <2> SUFFICES ASSUME SoloInv, [Next]_vars, node' # node, ~undone
               PROVE  "dst" \in data /\ container["dst"] # "none"
    OBVIOUS
  <2>1. PICK p \in Procs : pc[p] = "finalize" /\ CommitOwnership
    BY OnlyTheCommitMoves
  <2>2. node = "src" /\ phase = "destination_created"
    BY <2>1 DEF CommitOwnership
  <2>3. ~Closed(p)
    BY <2>1 DEF Closed
  <2>4. Told(p)
    BY <2>2, <2>3 DEF SoloInv, Before
  <2> QED
    BY <2>2, <2>4 DEF Told, UnpackedPhase
<1>2. Spec => []SoloInv
  BY SoloHolds
<1> QED
  BY <1>1, <1>2, PTL DEF Spec, CommitNeedsDestination

=============================================================================
