----------------------------- MODULE Migration -----------------------------
(***************************************************************************)
(* The migration of one server from node "src" to node "dst"               *)
(* (forge/api/internal/services/migration): the migrations and             *)
(* migration_runs rows, the run goroutines that API processes start under  *)
(* a two-minute lease, the reconcile loop that reclaims runs and retries   *)
(* cleanups, the requests that prepare and cancel, and what their calls do *)
(* on the two Beacon daemons.                                              *)
(*                                                                         *)
(* One SQL transaction or one daemon call is one step.  A daemon call may  *)
(* succeed, fail without effect, or take effect and lose its reply.  The   *)
(* transfer engine of a daemon is seen here through the effect of its      *)
(* calls; a credential is the actor that registered it last, for every     *)
(* registration rotates the hash.                                          *)
(***************************************************************************)
EXTENDS Integers, FiniteSets

CONSTANTS
    Procs,          \* API processes, each with its own workerID
    DBErrors,       \* TRUE: a statement may fail, and the reply of the commit be lost
    Hangs,          \* TRUE: a daemon may keep a rollback waiting for all of its time
    MaxCrashes,     \* bound: crashes of API processes
    MaxShutdowns,   \* bound: orderly shutdowns of API processes
    MaxCancels,     \* bound: calls of CancelMigration
    None

ASSUME MigrationAssumption ==
    /\ DBErrors \in BOOLEAN /\ Hangs \in BOOLEAN
    /\ MaxCrashes \in Nat
    /\ MaxShutdowns \in Nat
    /\ MaxCancels \in Nat
    /\ None \notin Procs

VARIABLES
    status,         \* migrations.status
    phase,          \* migration_runs.phase, "none" before the row exists
    leaseOwner,     \* migration_runs.lease_owner
    leased,         \* lease_expires_at is in the future
    cleanupPending, \* migration_runs.cleanup_pending
    node,           \* servers.node_id
    alloc,          \* the allocation on the target node
    container,      \* the server's container on each node
    data,           \* nodes whose data directory holds the server's files
    smeta, scred,   \* source-control transfer metadata of each node
    dmeta, dcred,   \* destination-upload transfer metadata of node "dst"
    pc,             \* the run goroutine of each process
    snap,           \* run.Phase as ClaimMigrationRun returned it
    src,            \* the node its source target resolved to
    made,           \* destinationCreated, the argument of fail
    reclaimed,      \* processes whose run was started by the reconcile loop
    ctxDone,        \* processes whose run has a cancelled context
    spent,          \* processes whose rollback has used up its thirty seconds
    cpc, csrc,      \* the cleanup task of each process, its source target
    ppc,            \* the request that prepares the migration
    kpc, ksrc,      \* the request that cancels it, its source target
    undone,         \* history: a rollback removed the destination, the run is not closed
    crashes, shutdowns, cancels

rowVars == <<status, phase, leaseOwner, leased, cleanupPending, node, alloc>>
metaVars == <<smeta, scred, dmeta, dcred>>
daemonVars == <<container, data, metaVars>>
runVars == <<pc, snap, src, made, reclaimed, ctxDone, spent>>
cleanVars == <<cpc, csrc>>
requestVars == <<ppc, kpc, ksrc>>
boundVars == <<undone, crashes, shutdowns, cancels>>
otherVars == <<cleanVars, requestVars, boundVars>>
vars == <<rowVars, daemonVars, runVars, otherVars>>

Node == {"src", "dst"}
Status == {"planned", "preparing", "transferring", "restoring",
           "completed", "failed", "cancelled"}
TerminalStatus == {"completed", "failed", "cancelled"}
FinalPhase == {"completed", "failed", "cancelled"}
Phase == {"none", "planned", "credentials_registered", "source_archived",
          "destination_verified", "destination_restored",
          "destination_configured", "destination_created"} \cup FinalPhase

\* phaseAtLeast: the map has no entry for failed and cancelled, which read as 0.
Order == [ph \in Phase |->
    IF ph = "credentials_registered" THEN 1 ELSE IF ph = "source_archived" THEN 2
    ELSE IF ph = "destination_verified" THEN 3 ELSE IF ph = "destination_restored" THEN 4
    ELSE IF ph = "destination_configured" THEN 5 ELSE IF ph = "destination_created" THEN 6
    ELSE IF ph = "completed" THEN 7 ELSE 0]
AtLeast(current, expected) == Order[current] >= Order[expected]

\* The steps of run, in order; the rest is finalize and fail.
Forward == {"read", "targets", "registerSource", "registerDest", "registered",
            "prepare", "transferring", "archived", "push", "verified", "restoring",
            "restore", "restored", "sync", "configured", "exists", "create", "check",
            "created"}
Finalizing == {"finalize", "finalizeDest", "cleanSource", "markClean"}
Failing == {"failCancelDest", "failDelete", "failCancelSource", "failStart",
            "failRun", "failStatus"}
\* A goroutine here no longer looks at its own context.
Detached == {"idle"} \cup Failing
PC == {"idle"} \cup Forward \cup Finalizing \cup Failing
CleanPC == {"idle", "registerSource", "registerDest", "finalizeDest", "cleanSource", "markClean"}
CancelPC == {"idle", "targets", "registerSource", "cancelSource", "registerDest", "cancelDest",
             "run", "status"}

\* Who may hold a transfer credential.
Run(p) == <<p, "run">>
Cleaner(p) == <<p, "cleanup">>
Canceller == <<None, "cancel">>
Actor == (Procs \X {"run", "cleanup"}) \cup {Canceller, None}

RowOK ==
    /\ status \in Status
    /\ phase \in Phase
    /\ leaseOwner \in Procs \cup {None}
    /\ leased \in BOOLEAN
    /\ cleanupPending \in BOOLEAN
    /\ node \in Node
    /\ alloc \in {"free", "reserved", "ours", "theirs"}
DaemonOK ==
    /\ container \in [Node -> {"none", "stopped", "running"}]
    /\ data \in SUBSET Node
    /\ smeta \in [Node -> {"absent", "authorized", "archived", "cleaned"}]
    /\ scred \in [Node -> Actor]
    /\ dmeta \in {"absent", "authorized", "verified", "restored", "activated"}
    /\ dcred \in Actor
RunOK ==
    /\ pc \in [Procs -> PC]
    /\ snap \in [Procs -> Phase]
    /\ src \in [Procs -> Node]
    /\ made \in [Procs -> BOOLEAN]
    /\ reclaimed \cup ctxDone \subseteq {p \in Procs : pc[p] \notin Detached}
    /\ spent \subseteq {p \in Procs : pc[p] \in Failing}
TaskOK ==
    /\ cpc \in [Procs -> CleanPC]
    /\ csrc \in [Procs -> Node]
    /\ ppc \in {"idle", "ensureFirst", "ensure", "mark", "start"}
    /\ kpc \in CancelPC
    /\ ksrc \in Node
    /\ undone \in BOOLEAN
    /\ crashes \in 0..MaxCrashes
    /\ shutdowns \in 0..MaxShutdowns
    /\ cancels \in 0..MaxCancels

TypeOK == RowOK /\ DaemonOK /\ RunOK /\ TaskOK

\* CreateMigration has inserted the row; the server runs on its source node.
Init ==
    /\ status = "planned"
    /\ phase = "none"
    /\ leaseOwner = None
    /\ leased = FALSE
    /\ cleanupPending = FALSE
    /\ node = "src"
    /\ alloc = "free"
    /\ container = [n \in Node |-> IF n = "src" THEN "running" ELSE "none"]
    /\ data = {"src"}
    /\ smeta = [n \in Node |-> "absent"]
    /\ scred = [n \in Node |-> None]
    /\ dmeta = "absent"
    /\ dcred = None
    /\ pc = [p \in Procs |-> "idle"]
    /\ snap = [p \in Procs |-> "planned"]
    /\ src = [p \in Procs |-> "src"]
    /\ made = [p \in Procs |-> FALSE]
    /\ reclaimed = {}
    /\ ctxDone = {}
    /\ spent = {}
    /\ cpc = [p \in Procs |-> "idle"]
    /\ csrc = [p \in Procs |-> "src"]
    /\ ppc = "idle"
    /\ kpc = "idle"
    /\ ksrc = "src"
    /\ undone = FALSE
    /\ crashes = 0
    /\ shutdowns = 0
    /\ cancels = 0

-----------------------------------------------------------------------------
(* What the calls do on a daemon *)

\* Engine.Register: a new hash, the phase of an earlier registration kept.
RegisterSource(n, a) ==
    /\ smeta' = [smeta EXCEPT ![n] = IF @ = "absent" THEN "authorized" ELSE @]
    /\ scred' = [scred EXCEPT ![n] = a]
    /\ UNCHANGED <<container, data, dmeta, dcred>>

RegisterDest(a) ==
    /\ dmeta' = IF dmeta = "absent" THEN "authorized" ELSE dmeta
    /\ dcred' = a
    /\ UNCHANGED <<container, data, smeta, scred>>

\* prepareTransferSource: stop the container if it runs, archive the data.
StopContainer(n) ==
    container' = [container EXCEPT ![n] = IF @ = "running" THEN "stopped" ELSE @]

PrepareSource(n, a) ==
    /\ scred[n] = a
    /\ smeta[n] = "archived" \/ n \in data
    /\ StopContainer(n)
    /\ smeta' = [smeta EXCEPT ![n] = "archived"]
    /\ UNCHANGED <<data, scred, dmeta, dcred>>

\* It stops the container and then fails to archive.
PrepareHalf(n, a) ==
    /\ scred[n] = a
    /\ StopContainer(n)
    /\ UNCHANGED <<data, metaVars>>

\* pushTransferSource: the whole archive, verified by the destination.
Push(n, a) ==
    /\ scred[n] = a /\ smeta[n] = "archived"
    /\ dcred = a /\ dmeta \in {"authorized", "verified"}
    /\ dmeta' = "verified"
    /\ UNCHANGED <<container, data, smeta, scred, dcred>>

\* RestoreDestination: done already, or unpack the verified archive.
Restore(a) ==
    /\ dcred = a /\ dmeta \in {"verified", "restored"}
    /\ data' = IF dmeta = "verified" THEN data \cup {"dst"} ELSE data
    /\ dmeta' = "restored"
    /\ UNCHANGED <<container, smeta, scred, dcred>>

\* FinalizeDestination: only from restored, and it consumes the credential.
FinalizeDest(a) ==
    /\ dcred = a /\ dmeta = "restored"
    /\ dmeta' = "activated"
    /\ dcred' = None
    /\ UNCHANGED <<container, data, smeta, scred>>

\* cleanupTransferSource: container, metadata and data of the server, on
\* whatever node receives the call; the phase of the transfer is not looked at.
CleanSource(n, a) ==
    /\ scred[n] = a
    /\ container' = [container EXCEPT ![n] = "none"]
    /\ data' = data \ {n}
    /\ smeta' = [smeta EXCEPT ![n] = "cleaned"]
    /\ scred' = [scred EXCEPT ![n] = None]
    /\ UNCHANGED <<dmeta, dcred>>

\* cancelProtocolTransfer: either credential will do; both metadata files go.
\* The restored data stays: a previous directory is put back only where an
\* earlier restore of the same server had left one.
CancelTransfer(n, a) ==
    /\ scred[n] = a \/ (n = "dst" /\ dcred = a)
    /\ smeta' = [smeta EXCEPT ![n] = "absent"]
    /\ scred' = [scred EXCEPT ![n] = None]
    /\ dmeta' = IF n = "dst" THEN "absent" ELSE dmeta
    /\ dcred' = IF n = "dst" THEN None ELSE dcred
    /\ UNCHANGED <<container, data>>

\* POST /servers: a container that is there is reused; a new one is started at once.
SetDestination(c) ==
    /\ container' = [container EXCEPT !["dst"] = c]
    /\ UNCHANGED <<data, metaVars>>

CreateServer ==
    SetDestination(IF container["dst"] = "none" THEN "running" ELSE container["dst"])

\* The new container does not start, and removing it again fails too.
CreateHalf == container["dst"] = "none" /\ SetDestination("stopped")

\* PUT /servers/{id}/configuration reconciles the workload if the restored files hold
\* the runtime request that the source had saved: a container that is missing is
\* created and started, one that differs is replaced.
SyncConfiguration ==
    SetDestination(IF container["dst"] = "none" /\ "dst" \in data THEN "running" ELSE container["dst"])

\* It fails on the way from the old container to the new one.
SyncHalf == "dst" \in data /\ \E c \in {"none", "stopped"} : SetDestination(c)

\* DELETE /servers/{id}: the container, if there is one, and then the data.
DeleteServer ==
    /\ container' = [container EXCEPT !["dst"] = "none"]
    /\ data' = data \ {"dst"}
    /\ UNCHANGED metaVars

\* It fails to remove the backups or the data.
DeleteHalf == SetDestination("none")

StartServer(n) ==
    /\ container[n] # "none"
    /\ container' = [container EXCEPT ![n] = "running"]
    /\ UNCHANGED <<data, metaVars>>

-----------------------------------------------------------------------------
(* Requests that prepare the migration; the clock *)

\* PrepareMigration, alone or called by ExecuteMigration: read the status.
BeginPrepare ==
    /\ ppc = "idle"
    /\ status \in {"planned", "preparing"}
    /\ ppc' = IF status = "planned" THEN "ensureFirst" ELSE "ensure"
    /\ UNCHANGED <<rowVars, daemonVars, runVars, cleanVars, kpc, ksrc, boundVars>>

\* EnsureMigrationRun: the run row and the reservation of an allocation, in one
\* transaction; an existing row is left alone; no allocation is an error.
EnsureMigrationRun ==
    /\ ppc \in {"ensureFirst", "ensure"}
    /\ IF phase = "none"
         THEN /\ alloc = "free"
              /\ phase' = "planned"
              /\ alloc' = "reserved"
         ELSE UNCHANGED <<phase, alloc>>
    /\ ppc' = IF ppc = "ensureFirst" THEN "mark" ELSE "start"
    /\ UNCHANGED <<status, leaseOwner, leased, cleanupPending, node, daemonVars,
                   runVars, cleanVars, kpc, ksrc, boundVars>>

\* UpdateMigrationStatus(preparing), if the status read above was planned.
MarkPreparing ==
    /\ ppc = "mark"
    /\ ppc' = "start"
    /\ status' = "preparing"
    /\ UNCHANGED <<phase, leaseOwner, leased, cleanupPending, node, alloc, daemonVars,
                   runVars, cleanVars, kpc, ksrc, boundVars>>

\* The request ends with an error, or was a call of PrepareMigration alone.
EndPrepare ==
    /\ ppc # "idle"
    /\ ppc' = "idle"
    /\ UNCHANGED <<rowVars, daemonVars, runVars, cleanVars, kpc, ksrc, boundVars>>

\* lease_expires_at passes.  A push may take fifteen minutes, the lease two.
LeaseExpires ==
    /\ leased
    /\ leased' = FALSE
    /\ UNCHANGED <<status, phase, leaseOwner, cleanupPending, node, alloc, daemonVars,
                   runVars, otherVars>>

\* Another server is given the allocation once nothing reserves it.
AllocationTaken ==
    /\ alloc = "free"
    /\ alloc' = "theirs"
    /\ UNCHANGED <<status, phase, leaseOwner, leased, cleanupPending, node, daemonVars,
                   runVars, otherVars>>

\* RequestServerPower(start) goes to the node that owns the server, migrating
\* or not.
PowerOn ==
    /\ StartServer(node)
    /\ UNCHANGED <<rowVars, runVars, otherVars>>

-----------------------------------------------------------------------------
(* The run goroutine *)

\* Mutant: the cancelled context outlives the goroutine it belonged to.
GotoKeepsContext(p, next) ==
    /\ pc' = [pc EXCEPT ![p] = next]
    /\ UNCHANGED <<reclaimed, ctxDone, spent, snap, src>>

\* Leaving run forgets its locals, and the phase it found serves to choose the first
\* stage only.
Goto(p, next) ==
    /\ pc' = [pc EXCEPT ![p] = next]
    /\ reclaimed' = IF next \in Detached THEN reclaimed \ {p} ELSE reclaimed
    /\ ctxDone' = IF next \in Detached THEN ctxDone \ {p} ELSE ctxDone
    /\ spent' = IF next = "idle" THEN spent \ {p} ELSE spent
    /\ snap' = IF next \in {"registerDest", "registered"} THEN snap ELSE [snap EXCEPT ![p] = "planned"]
    /\ src' = IF next = "idle" THEN [src EXCEPT ![p] = "src"] ELSE src

Step(p, next) == Goto(p, next) /\ made' = IF next = "idle" THEN [made EXCEPT ![p] = FALSE] ELSE made

\* fail, told whether the destination container was created.
Fail(p, destinationCreated) ==
    Goto(p, "failCancelDest") /\ made' = [made EXCEPT ![p] = destinationCreated]

\* startRun and ClaimMigrationRun: the active map admits one run per process.
ClaimMigrationRun(p) ==
    /\ pc[p] = "idle"
    /\ phase \notin FinalPhase \cup {"none"}
    /\ ~leased \/ leaseOwner = p
    /\ leaseOwner' = p
    /\ leased' = TRUE
    /\ pc' = [pc EXCEPT ![p] = "read"]
    /\ UNCHANGED <<status, phase, cleanupPending, node, alloc, daemonVars,
                   snap, src, made, ctxDone, spent, cleanVars, kpc, ksrc, boundVars>>

\* ExecuteMigration, under context.Background().
Execute(p) ==
    /\ ppc = "start"
    /\ ClaimMigrationRun(p)
    /\ ppc' = "idle"
    /\ UNCHANGED reclaimed

\* Mutant: reclaim takes back only what its own process had claimed.
ReclaimOwn(p) ==
    /\ leaseOwner = p
    /\ ClaimMigrationRun(p)
    /\ reclaimed' = reclaimed \cup {p}
    /\ UNCHANGED ppc

\* reclaim, under the context of the reconcile loop.
Reclaim(p) ==
    /\ ~leased
    /\ ClaimMigrationRun(p)
    /\ reclaimed' = reclaimed \cup {p}
    /\ UNCHANGED ppc

\* ClaimMigrationRun ends by reading the row; an error there ends the run.
ReadRun(p) ==
    /\ pc[p] = "read"
    /\ \/ /\ p \notin ctxDone
          /\ pc' = [pc EXCEPT ![p] = "targets"]
          /\ snap' = [snap EXCEPT ![p] = phase]
          /\ UNCHANGED <<src, made, reclaimed, ctxDone, spent>>
       \/ /\ DBErrors \/ p \in ctxDone
          /\ Step(p, "idle")
    /\ UNCHANGED <<rowVars, daemonVars, otherVars>>

\* MigrationProvisionTargets: the source target is the node that owns the server
\* now.  It fails if the target allocation went to another server; fail then has
\* no daemon to call.
ResolveTargets(p) ==
    /\ pc[p] = "targets"
    /\ \/ /\ p \notin ctxDone
          /\ alloc # "theirs"
          /\ pc' = [pc EXCEPT ![p] = "registerSource"]
          /\ src' = [src EXCEPT ![p] = node]
          /\ UNCHANGED <<snap, made, reclaimed, ctxDone, spent>>
       \/ /\ DBErrors \/ alloc = "theirs" \/ p \in ctxDone
          /\ Step(p, "failRun")
    /\ UNCHANGED <<rowVars, daemonVars, otherVars>>

\* A daemon call of run.  It fails when the context is done, though a call in
\* flight at that moment may still take effect.
Call(p, at, Effect, next, destinationCreated) ==
    /\ pc[p] = at
    /\ \/ Effect /\ p \notin ctxDone /\ Step(p, next)
       \/ (Effect \/ UNCHANGED daemonVars) /\ Fail(p, destinationCreated)
    /\ UNCHANGED <<rowVars, otherVars>>

\* UpdateMigrationRun looks neither at the phase it replaces nor at the lease it
\* extends; its error is ignored.
RecordPhase(p, at, ph, next) ==
    /\ pc[p] = at
    /\ \/ /\ p \notin ctxDone
          /\ phase' = ph
          /\ leased' = TRUE
       \/ /\ DBErrors \/ p \in ctxDone
          /\ UNCHANGED <<phase, leased>>
    /\ Step(p, next)
    /\ UNCHANGED <<status, leaseOwner, cleanupPending, node, alloc, daemonVars, otherVars>>

\* UpdateMigrationStatus, of which the same holds.
RecordStatus(p, at, st, next) ==
    /\ pc[p] = at
    /\ \/ p \notin ctxDone /\ status' = st
       \/ (DBErrors \/ p \in ctxDone) /\ UNCHANGED status
    /\ Step(p, next)
    /\ UNCHANGED <<phase, leaseOwner, leased, cleanupPending, node, alloc, daemonVars, otherVars>>

\* Where a run that found phase ph takes up the work.
FirstStage(ph) ==
    <<"prepare", "prepare", "push", "restore", "sync", "exists", "finalize", "finalize">>
        [Order[ph] + 1]

\* After the two registrations: nothing is recorded if the archive was made.
Registered(p) ==
    LET next == FirstStage(snap[p]) IN
    \/ /\ ~AtLeast(snap[p], "source_archived")
       /\ RecordPhase(p, "registered", "credentials_registered", next)
    \/ /\ AtLeast(snap[p], "source_archived")
       /\ pc[p] = "registered"
       /\ Step(p, next)
       /\ UNCHANGED <<rowVars, daemonVars, otherVars>>

\* Mutant: an unreadable destination reads as present.
DestinationExistsOptimistic(p) ==
    /\ pc[p] = "exists"
    /\ Step(p, "created")
    /\ UNCHANGED <<rowVars, daemonVars, otherVars>>

\* destinationExists: an unreadable destination reads as absent.
DestinationExists(p) ==
    /\ pc[p] = "exists"
    /\ \/ container["dst"] # "none" /\ p \notin ctxDone /\ Step(p, "created")
       \/ Step(p, "create")
    /\ UNCHANGED <<rowVars, daemonVars, otherVars>>

\* CreateServer; after an error destinationCreatedObserved looks at the
\* destination, and an unreadable one reads as created.
CreateDestination(p) ==
    /\ pc[p] = "create"
    /\ \/ CreateServer /\ p \notin ctxDone /\ Step(p, "check")
       \/ /\ CreateServer \/ CreateHalf \/ UNCHANGED daemonVars
          /\ Fail(p, TRUE) \/ (container'["dst"] = "none" /\ p \notin ctxDone /\ Fail(p, FALSE))
    /\ UNCHANGED <<rowVars, otherVars>>

\* The health check after the creation.
CheckDestination(p) ==
    /\ pc[p] = "check"
    /\ \/ container["dst"] # "none" /\ p \notin ctxDone /\ Step(p, "created")
       \/ Fail(p, TRUE)
    /\ UNCHANGED <<rowVars, daemonVars, otherVars>>

RunForward(p) ==
    \/ ReadRun(p)
    \/ ResolveTargets(p)
    \/ Call(p, "registerSource", RegisterSource(src[p], Run(p)), "registerDest", FALSE)
    \/ Call(p, "registerDest", RegisterDest(Run(p)), "registered", FALSE)
    \/ Registered(p)
    \/ Call(p, "prepare", PrepareSource(src[p], Run(p)), "transferring", FALSE)
    \/ /\ pc[p] = "prepare" /\ PrepareHalf(src[p], Run(p)) /\ Fail(p, FALSE)
       /\ UNCHANGED <<rowVars, otherVars>>
    \/ RecordStatus(p, "transferring", "transferring", "archived")
    \/ RecordPhase(p, "archived", "source_archived", "push")
    \/ Call(p, "push", Push(src[p], Run(p)), "verified", FALSE)
    \/ RecordPhase(p, "verified", "destination_verified", "restoring")
    \/ RecordStatus(p, "restoring", "restoring", "restore")
    \/ Call(p, "restore", Restore(Run(p)), "restored", FALSE)
    \/ RecordPhase(p, "restored", "destination_restored", "sync")
    \/ Call(p, "sync", SyncConfiguration \/ UNCHANGED daemonVars, "configured", FALSE)
    \/ /\ pc[p] = "sync" /\ SyncHalf /\ Fail(p, FALSE)
       /\ UNCHANGED <<rowVars, otherVars>>
    \/ RecordPhase(p, "configured", "destination_configured", "exists")
    \/ DestinationExists(p)
    \/ CreateDestination(p)
    \/ CheckDestination(p)
    \/ RecordPhase(p, "created", "destination_created", "finalize")

-----------------------------------------------------------------------------
(* finalize and fail *)

\* FinalizeMigration, one transaction: ownership, allocation, both rows.  It does
\* not look at the status, and has nothing to do when the phase is completed.
CommitOwnership ==
    /\ phase = "destination_created"
    /\ node = "src"
    /\ alloc \in {"free", "reserved"}
    /\ alloc' = "ours"
    /\ node' = "dst"
    /\ status' = "completed"
    /\ phase' = "completed"
    /\ cleanupPending' = TRUE
    /\ leaseOwner' = None
    /\ leased' = FALSE

CommitRefused ==
    /\ phase # "completed"
    /\ phase # "destination_created" \/ node # "src" \/ alloc \notin {"free", "reserved"}

\* Mutant: finalize goes on when the commit is refused.
FinalizeIgnoresError(p) ==
    /\ pc[p] = "finalize"
    /\ CommitOwnership \/ (CommitRefused /\ UNCHANGED rowVars)
    /\ Step(p, "finalizeDest")
    /\ UNCHANGED <<daemonVars, otherVars>>

\* The reply of COMMIT may be lost, or the context end under it: the run then fails
\* what has been committed.
FinalizeMigration(p) ==
    /\ pc[p] = "finalize"
    /\ \/ p \notin ctxDone /\ CommitOwnership /\ Step(p, "finalizeDest")
       \/ p \notin ctxDone /\ phase = "completed" /\ Step(p, "finalizeDest") /\ UNCHANGED rowVars
       \/ (DBErrors \/ p \in ctxDone) /\ CommitOwnership /\ Fail(p, TRUE)
       \/ (CommitRefused \/ DBErrors \/ p \in ctxDone) /\ Fail(p, TRUE) /\ UNCHANGED rowVars
    /\ UNCHANGED <<daemonVars, otherVars>>

\* Mutant: a failure after the commit is rolled back like one before it.
FinalCallRollsBack(p, at, Effect, next) ==
    /\ pc[p] = at
    /\ \/ Effect /\ p \notin ctxDone /\ Step(p, next)
       \/ (Effect \/ UNCHANGED daemonVars) /\ Fail(p, TRUE)
    /\ UNCHANGED <<rowVars, otherVars>>

\* A daemon call of finalize: its failure leaves the rest to the cleanup task.
FinalCall(p, at, Effect, next) ==
    /\ pc[p] = at
    /\ \/ Effect /\ p \notin ctxDone /\ Step(p, next)
       \/ (Effect \/ UNCHANGED daemonVars) /\ Step(p, "idle")
    /\ UNCHANGED <<rowVars, otherVars>>

\* MarkMigrationCleanupComplete
ClearPending ==
    /\ cleanupPending' = IF phase = "completed" THEN FALSE ELSE cleanupPending
    /\ UNCHANGED <<status, phase, leaseOwner, leased, node, alloc>>

MarkClean(p) ==
    /\ pc[p] = "markClean"
    /\ \/ p \notin ctxDone /\ ClearPending
       \/ (DBErrors \/ p \in ctxDone) /\ UNCHANGED rowVars
    /\ Step(p, "idle")
    /\ UNCHANGED <<daemonVars, otherVars>>

RunFinalize(p) ==
    \/ FinalizeMigration(p)
    \/ FinalCall(p, "finalizeDest", FinalizeDest(Run(p)), "cleanSource")
    \/ FinalCall(p, "cleanSource", CleanSource(src[p], Run(p)), "markClean")
    \/ MarkClean(p)

\* fail gives its four calls and two statements one context of thirty seconds.  They may
\* be over at any moment, and what it still tries then has no effect; of a daemon call
\* that is possible anyway, so the moment matters once the statements are left.
BudgetEnds(p) ==
    /\ Hangs
    /\ pc[p] \in {"failRun", "failStatus"} /\ p \notin spent
    /\ spent' = spent \cup {p}
    /\ UNCHANGED <<rowVars, daemonVars, pc, snap, src, made, reclaimed, ctxDone, otherVars>>

\* A daemon call of fail; the outcome is ignored.
RollbackCall(p, at, Effect, next) ==
    /\ pc[p] = at
    /\ Effect \/ UNCHANGED daemonVars
    /\ Step(p, next)
    /\ UNCHANGED <<rowVars, otherVars>>

\* DeleteServer, if the destination was created.
DeleteDestination(p) ==
    /\ pc[p] = "failDelete"
    /\ \/ (DeleteServer \/ DeleteHalf) /\ undone' = TRUE
       \/ UNCHANGED <<daemonVars, undone>>
    /\ Step(p, "failCancelSource")
    /\ UNCHANGED <<rowVars, cleanVars, requestVars, crashes, shutdowns, cancels>>

\* FailMigrationRun and CancelMigrationRun: the reservation goes, and the run row
\* is closed unless it is completed.
CloseRun(ph) ==
    /\ alloc' = IF alloc = "reserved" THEN "free" ELSE alloc
    /\ IF phase \in {"none", "completed"}
         THEN UNCHANGED <<phase, cleanupPending, leaseOwner, leased>>
         ELSE /\ phase' = ph
              /\ cleanupPending' = FALSE
              /\ leaseOwner' = None
              /\ leased' = FALSE
    /\ UNCHANGED <<status, node>>

FailMigrationRun(p) ==
    /\ pc[p] = "failRun"
    /\ \/ p \notin spent /\ CloseRun("failed") /\ undone' = FALSE
       \/ (DBErrors \/ p \in spent) /\ UNCHANGED <<rowVars, undone>>
    /\ Step(p, "failStatus")
    /\ UNCHANGED <<daemonVars, cleanVars, requestVars, crashes, shutdowns, cancels>>

\* MarkFailed writes the status whatever it was.
MarkFailed(p) ==
    /\ pc[p] = "failStatus"
    /\ \/ p \notin spent /\ status' = "failed"
       \/ (DBErrors \/ p \in spent) /\ UNCHANGED status
    /\ Step(p, "idle")
    /\ UNCHANGED <<phase, leaseOwner, leased, cleanupPending, node, alloc, daemonVars, otherVars>>

RunFail(p) ==
    \/ RollbackCall(p, "failCancelDest", CancelTransfer("dst", Run(p)),
                    IF made[p] THEN "failDelete" ELSE "failCancelSource")
    \/ DeleteDestination(p)
    \/ RollbackCall(p, "failCancelSource", CancelTransfer(src[p], Run(p)), "failStart")
    \/ RollbackCall(p, "failStart", StartServer(src[p]), "failRun")
    \/ FailMigrationRun(p)
    \/ MarkFailed(p)

-----------------------------------------------------------------------------
(* The cleanup half of RunOnce *)

\* cleanupMigration asks for the targets anew: its source target is the node that
\* owns the server after the commit.
BeginCleanup(p) ==
    /\ cpc[p] = "idle"
    /\ phase = "completed" /\ cleanupPending
    /\ status = "completed"
    /\ cpc' = [cpc EXCEPT ![p] = "registerSource"]
    /\ csrc' = [csrc EXCEPT ![p] = node]
    /\ UNCHANGED <<rowVars, daemonVars, runVars, requestVars, boundVars>>

CleanTo(p, next) ==
    /\ cpc' = [cpc EXCEPT ![p] = next]
    /\ csrc' = IF next = "idle" THEN [csrc EXCEPT ![p] = "src"] ELSE csrc
    /\ UNCHANGED <<runVars, requestVars, boundVars>>

\* Any failure ends the task; the next pass begins it again.
CleanCall(p, at, Effect, next) ==
    /\ cpc[p] = at
    /\ \/ Effect /\ CleanTo(p, next)
       \/ (Effect \/ UNCHANGED daemonVars) /\ CleanTo(p, "idle")
    /\ UNCHANGED rowVars

EndCleanup(p) ==
    /\ cpc[p] = "markClean"
    /\ ClearPending \/ (DBErrors /\ UNCHANGED rowVars)
    /\ CleanTo(p, "idle")
    /\ UNCHANGED daemonVars

Cleanup(p) ==
    \/ BeginCleanup(p)
    \/ CleanCall(p, "registerSource", RegisterSource(csrc[p], Cleaner(p)), "registerDest")
    \/ CleanCall(p, "registerDest", RegisterDest(Cleaner(p)), "finalizeDest")
    \/ CleanCall(p, "finalizeDest", FinalizeDest(Cleaner(p)), "cleanSource")
    \/ CleanCall(p, "cleanSource", CleanSource(csrc[p], Cleaner(p)), "markClean")
    \/ EndCleanup(p)

-----------------------------------------------------------------------------
(* CancelMigration *)

\* Process p reads the status and cancels the context of its own run, if any.
BeginCancel(p) ==
    /\ kpc = "idle" /\ cancels < MaxCancels
    /\ status \notin TerminalStatus
    /\ kpc' = "targets"
    /\ ctxDone' = IF pc[p] \in Detached THEN ctxDone ELSE ctxDone \cup {p}
    /\ cancels' = cancels + 1
    /\ UNCHANGED <<rowVars, daemonVars, pc, snap, src, made, reclaimed, spent, cleanVars,
                   ppc, ksrc, undone, crashes, shutdowns>>

CancelTo(next) ==
    /\ kpc' = next
    /\ UNCHANGED <<runVars, cleanVars, ppc, boundVars>>

CancelTargets ==
    /\ kpc = "targets"
    /\ \/ /\ phase # "none" /\ alloc # "theirs"
          /\ ksrc' = node
          /\ CancelTo("registerSource")
       \/ /\ DBErrors \/ phase = "none" \/ alloc = "theirs"
          /\ CancelTo("run")
          /\ UNCHANGED ksrc
    /\ UNCHANGED <<rowVars, daemonVars>>

CancelCall(at, Effect, next, otherwise) ==
    /\ kpc = at
    /\ \/ Effect /\ CancelTo(next)
       \/ (Effect \/ UNCHANGED daemonVars) /\ CancelTo(otherwise)
    /\ UNCHANGED <<rowVars, ksrc>>

CancelMigrationRun ==
    /\ kpc = "run"
    /\ CloseRun("cancelled") \/ (DBErrors /\ UNCHANGED rowVars)
    /\ CancelTo("status")
    /\ UNCHANGED <<daemonVars, ksrc>>

\* UpdateMigrationStatus(cancelled) writes the status whatever it is by now.
MarkCancelled ==
    /\ kpc = "status"
    /\ status' = "cancelled" \/ (DBErrors /\ UNCHANGED status)
    /\ CancelTo("idle")
    /\ ksrc' = "src"
    /\ UNCHANGED <<phase, leaseOwner, leased, cleanupPending, node, alloc, daemonVars>>

CancelMigration ==
    \/ \E p \in Procs : BeginCancel(p)
    \/ CancelTargets
    \/ CancelCall("registerSource", RegisterSource(ksrc, Canceller), "cancelSource", "registerDest")
    \/ CancelCall("cancelSource", CancelTransfer(ksrc, Canceller), "registerDest", "registerDest")
    \/ CancelCall("registerDest", RegisterDest(Canceller), "cancelDest", "run")
    \/ CancelCall("cancelDest", CancelTransfer("dst", Canceller), "run", "run")
    \/ CancelMigrationRun
    \/ MarkCancelled

-----------------------------------------------------------------------------
(* Processes *)

\* Shutdown cancels the reconcile loop's context and with it the runs that
\* reclaim started; it does not wait for them.
Shutdown(p) ==
    /\ shutdowns < MaxShutdowns
    /\ p \in reclaimed
    /\ ctxDone' = ctxDone \cup {p}
    /\ shutdowns' = shutdowns + 1
    /\ UNCHANGED <<rowVars, daemonVars, pc, snap, src, made, reclaimed, spent, cleanVars,
                   requestVars, undone, crashes, cancels>>

\* The process ends, its goroutines and maybe the requests with it.  The lease
\* stays, but the process that replaces it has another workerID.
Crash(p) ==
    /\ crashes < MaxCrashes
    /\ Step(p, "idle")
    /\ cpc' = [cpc EXCEPT ![p] = "idle"]
    /\ csrc' = [csrc EXCEPT ![p] = "src"]
    /\ leaseOwner' = IF leaseOwner = p THEN None ELSE leaseOwner
    /\ ppc' \in {ppc, "idle"}
    /\ kpc' \in {kpc, "idle"}
    /\ crashes' = crashes + 1
    /\ UNCHANGED <<status, phase, leased, cleanupPending, node, alloc, daemonVars, ksrc,
                   undone, shutdowns, cancels>>

RunStep(p) == RunForward(p) \/ RunFinalize(p) \/ RunFail(p)

Prepare == BeginPrepare \/ EnsureMigrationRun \/ MarkPreparing \/ EndPrepare

Environment == LeaseExpires \/ AllocationTaken \/ PowerOn

Next ==
    \/ Prepare
    \/ CancelMigration
    \/ Environment
    \/ \E p \in Procs :
         \/ Execute(p) \/ Reclaim(p)
         \/ RunStep(p)
         \/ Cleanup(p)
         \/ BudgetEnds(p) \/ Shutdown(p) \/ Crash(p)

Spec == Init /\ [][Next]_vars

(***************************************************************************)
(* Every remote call has a timeout and every loop a ticker, so a goroutine *)
(* that has a next step takes it; the reconcile loop comes round again;    *)
(* time passes.  Nothing is assumed of what the steps achieve, nor of      *)
(* requests, crashes and shutdowns.                                        *)
(***************************************************************************)
Fairness ==
    /\ WF_vars(LeaseExpires)
    /\ \A p \in Procs : WF_vars(RunStep(p)) /\ WF_vars(Reclaim(p)) /\ WF_vars(Cleanup(p))

FairSpec == Spec /\ Fairness

-----------------------------------------------------------------------------
(* Properties *)

\* While the source node owns the server its files are there: the source is
\* destroyed only after FinalizeMigration has committed (finalize), whichever
\* process, reclaim or cleanup retry makes the call.
SourceSurvives == node = "src" => "src" \in data

\* Ownership moves only to a node that holds the files and a container, unless a
\* rollback has removed them and then failed to close the run, which is reclaimed at the
\* phase it had: FinalizeMigration relies on destination_created alone.
CommitNeedsDestination ==
    [][node' # node => undone \/ ("dst" \in data /\ container["dst"] # "none")]_vars

\* The files of the server exist somewhere, whatever run, fail, cleanup and cancel do to
\* the two nodes, unless a rollback failed to close the run (FailMigrationRun after
\* DeleteServer).
DataSurvives == undone \/ data # {}

\* Once migrated, the server's files stay on the node that owns it: the cleanup
\* of a completed migration removes transfer artifacts, not the server.
OwnerKeepsServer == [][node = "dst" /\ "dst" \in data => "dst" \in data']_vars

\* A run row that exists reaches a final phase, however often its process crashes, for
\* reclaim takes it up again; unless the rollback runs out of time again and again, as it
\* does while a node does not answer.
RunSettles == (phase # "none" ~> phase \in FinalPhase) \/ []<>(spent # {})
=============================================================================
