------------------------------ MODULE Recovery ------------------------------
(***************************************************************************)
(* Recovery of the servers of nodes that are offline                       *)
(* (forge/api/internal/services/recovery) on the placement reservations of *)
(* the store (store_reservations.go) and the ownership of servers          *)
(* (store_recovery.go).  A plan reserves room for each server on another   *)
(* node; executing it restores a backup there, points the server at the    *)
(* node, provisions it and gives up the old allocation.                    *)
(*                                                                         *)
(* One statement or transaction on the database or one call of a daemon is *)
(* one step.  Every server takes one unit of a node's capacity.  Plans are *)
(* made, executed, read and cancelled concurrently by administrators and   *)
(* by the failover service, and each of these calls may end anywhere.      *)
(***************************************************************************)
EXTENDS Integers, FiniteSets

CONSTANTS
    Sources,   \* offline nodes
    Servers,   \* their servers
    HomeOf,    \* the offline node each of them is on
    Targets,   \* nodes with room
    Capacity,  \* servers that a target has room for
    Plans,     \* calls of CreatePlan, each the plan it makes
    NodeOf,    \* the node that each of them is for
    Execs,     \* calls of ExecutePlan
    MaxStops,  \* bound: plans cancelled and calls that end before they are done
    None

ASSUME RecoveryAssumption ==
    /\ IsFiniteSet(Servers) /\ IsFiniteSet(Plans)
    /\ Sources \cap Targets = {}
    /\ HomeOf \in [Servers -> Sources]
    /\ NodeOf \in [Plans -> Sources]
    /\ Capacity \in Nat /\ MaxStops \in Nat
    /\ None \notin Servers \cup Plans \cup Targets

VARIABLES
    plan,      \* status of each recovery_plans row
    item,      \* status of the recovery_items row of a plan and a server
    live,      \* the reservations, by plan and server, that hold capacity: pending
               \* or active, with expires_at to come
    target,    \* the node of a reservation, target_node_id of the item
    home,      \* servers.node_id
    bound,     \* servers that still have an allocation on their offline node
    lock,      \* the plan whose transaction holds the row of a target
    planner,   \* progress of each call of CreatePlan
    exec,      \* progress of each call of ExecutePlan
    closing,   \* calls of failPlan and CancelPlan that have still to write
    stops,
    backed,    \* history: servers that moved while their reservation held
    contended  \* history: servers that two executions owned at the same time

planVars == <<plan, item>>
reservationVars == <<live, target, lock>>
ownerVars == <<home, bound>>
historyVars == <<stops, backed, contended>>
vars == <<planVars, reservationVars, ownerVars, planner, exec, closing, historyVars>>

\* "closed" is completed, failed or cancelled: no operation tells them apart.
PlanStatus == {"none", "planning", "planned", "executing", "closed"}
\* "dropped" is skipped or cancelled.
ItemStatus == {"none", "planned", "executing", "awaiting", "failed", "dropped"}
\* The daemon has provisioned the server, or refused to.
Owning == {"complete", "rollback"}
\* The servers still to plan or to restore, and the one that is being worked on.
PlannerRec == [pc : {"idle", "pick", "insert", "item", "done"},
               todo : SUBSET Servers, cur : Servers \cup {None}]
ExecRec == [pc : {"idle", "next", "mark", "done"} \cup Owning,
            plan : Plans \cup {None}, todo : SUBSET Servers, cur : Servers \cup {None}]

TypeOK ==
    /\ plan \in [Plans -> PlanStatus]
    /\ item \in [Plans \X Servers -> ItemStatus]
    /\ live \subseteq Plans \X Servers
    /\ target \in [Plans \X Servers -> Targets \cup {None}]
    /\ home \in [Servers -> Targets \cup Sources]
    /\ bound \subseteq Servers
    /\ lock \in [Targets -> Plans \cup {None}]
    /\ planner \in [Plans -> PlannerRec]
    /\ exec \in [Execs -> ExecRec]
    /\ closing \subseteq Plans
    /\ stops \in 0..MaxStops
    /\ backed \subseteq Servers
    /\ contended \subseteq Servers

Init ==
    /\ plan = [p \in Plans |-> "none"]
    /\ item = [x \in Plans \X Servers |-> "none"]
    /\ live = {}
    /\ target = [x \in Plans \X Servers |-> None]
    /\ home = HomeOf
    /\ bound = Servers
    /\ lock = [n \in Targets |-> None]
    /\ planner = [p \in Plans |-> [pc |-> "idle", todo |-> {}, cur |-> None]]
    /\ exec = [e \in Execs |-> [pc |-> "idle", plan |-> None, todo |-> {}, cur |-> None]]
    /\ closing = {}
    /\ stops = 0 /\ backed = {} /\ contended = {}

-----------------------------------------------------------------------------
(* Reservations *)

\* What activeReservedCapacity counts, and the servers placed on a node.
Live(n) == {x \in live : target[x] = n}
Housed(n) == {s \in Servers : home[s] = n}

\* The checks of CreatePlacementReservation under the lock of the node's row.
Admits(n, s) ==
    /\ \A p \in Plans : <<p, s>> \notin live
    /\ Cardinality(Housed(n)) + Cardinality(Live(n)) < Capacity

\* SELECT ... FOR UPDATE of the row of a node waits for the transaction that has it.
\* Mutant: the row is read without FOR UPDATE.
UnlockedAlways(n) == TRUE
Unlocked(n) == lock[n] = None

\* A row leaves pending or active by a cancel or a confirmation, and stops to
\* count when its expires_at passes, before the sweep marks it.
Release(rows) == live' = live \ rows

Expire(x) ==
    /\ x \in live
    /\ Release({x})
    /\ UNCHANGED <<planVars, target, lock, ownerVars, planner, exec, closing, historyVars>>

-----------------------------------------------------------------------------
(* CreatePlan *)

\* An administrator cancels, or a call ends early with its request or process.
Stops == stops < MaxStops /\ stops' = stops + 1

Step(p, pc) == planner' = [planner EXCEPT ![p].pc = pc]
Ended(p) == planner' = [planner EXCEPT ![p] = [pc |-> "done", todo |-> {}, cur |-> None]]
\* The next server is up, with nothing or an item recorded for the last one.
Planned(p, s) ==
    planner' = [planner EXCEPT ![p] = [pc |-> "pick", todo |-> @.todo \ {s}, cur |-> None]]
SetItem(p, s, status) == item' = [item EXCEPT ![<<p, s>>] = status]
\* planServer returns an error: the item that records it names no target.
Unplanned(p, s, status) ==
    /\ SetItem(p, s, status)
    /\ target' = [target EXCEPT ![<<p, s>>] = None]
    /\ Planned(p, s)

CreatePlan(p) ==
    /\ planner[p].pc = "idle"
    /\ plan' = [plan EXCEPT ![p] = "planning"]
    /\ planner' = [planner EXCEPT ![p] = [pc |-> "pick", todo |-> Housed(NodeOf[p]), cur |-> None]]
    /\ UNCHANGED <<item, reservationVars, ownerVars, exec, closing, historyVars>>

\* planServer without a reservation: no backup, or no target.
SkipServer(p, s) ==
    /\ planner[p].pc = "pick"
    /\ s \in planner[p].todo
    /\ \E status \in {"dropped", "failed"} : SetItem(p, s, status)
    /\ Planned(p, s)
    /\ UNCHANGED <<plan, reservationVars, ownerVars, exec, closing, historyVars>>

\* planServer with the target that the scheduler names: CreatePlacementReservation
\* takes the node's row, checks, and is refused or goes on to insert.
CheckReservation(p, s, n) ==
    /\ planner[p].pc = "pick"
    /\ s \in planner[p].todo
    /\ Unlocked(n)
    /\ \/ /\ Admits(n, s)
          /\ lock' = [lock EXCEPT ![n] = p]
          /\ target' = [target EXCEPT ![<<p, s>>] = n]
          /\ planner' = [planner EXCEPT ![p] = [pc |-> "insert", todo |-> @.todo, cur |-> s]]
          /\ UNCHANGED item
       \/ /\ ~Admits(n, s)
          /\ SetItem(p, s, "failed")
          /\ Planned(p, s)
          /\ UNCHANGED <<lock, target>>
    /\ UNCHANGED <<plan, live, ownerVars, exec, closing, historyVars>>

InsertReservation(p) ==
    LET s == planner[p].cur  n == target[<<p, s>>] IN
    /\ planner[p].pc = "insert"
    /\ lock' = [lock EXCEPT ![n] = None]
    /\ \/ live' = live \cup {<<p, s>>} /\ Step(p, "item") /\ UNCHANGED <<item, target>>
       \/ Unplanned(p, s, "failed") /\ UNCHANGED live
    /\ UNCHANGED <<plan, ownerVars, exec, closing, historyVars>>

\* The item, or the reservation taken back and a failed item, if it can be written.
CreateRecoveryItem(p) ==
    LET s == planner[p].cur IN
    /\ planner[p].pc = "item"
    /\ \/ SetItem(p, s, "planned") /\ Planned(p, s) /\ UNCHANGED <<live, target>>
       \/ /\ Release({<<p, s>>})
          /\ \E status \in {"none", "failed"} : Unplanned(p, s, status)
    /\ UNCHANGED <<plan, lock, ownerVars, exec, closing, historyVars>>

\* The last call of CreatePlan, ExecutePlan and ReconcilePlan.
CallFailPlan(p) == closing' = closing \cup {p}

FinishPlanning(p) ==
    /\ planner[p].pc = "pick" /\ planner[p].todo = {}
    /\ Ended(p)
    /\ IF \E s \in Servers : item[<<p, s>>] = "failed"
       THEN CallFailPlan(p) /\ UNCHANGED plan
       ELSE plan' = [plan EXCEPT ![p] = "planned"] /\ UNCHANGED closing
    /\ UNCHANGED <<item, reservationVars, ownerVars, exec, historyVars>>

\* A transaction that is open rolls back.
AbandonPlanning(p) ==
    /\ planner[p].pc \notin {"idle", "done"}
    /\ Stops
    /\ Ended(p)
    /\ lock' = [n \in Targets |-> IF lock[n] = p THEN None ELSE lock[n]]
    /\ UNCHANGED <<planVars, live, target, ownerVars, exec, closing, backed, contended>>

-----------------------------------------------------------------------------
(* failPlan, CancelPlan and ReconcilePlan *)

Rows(p, statuses) == {x \in {p} \X Servers : item[x] \in statuses}

\* UpdateRecoveryItemsForPlanStatus
Mark(p, status) ==
    item' = [x \in Plans \X Servers |->
                IF x \in Rows(p, {"planned", "executing"}) THEN status ELSE item[x]]

\* A plan reaches a final status, with the items that are open.
Close(p, status, released) ==
    /\ Release(Rows(p, released))
    /\ Mark(p, status)
    /\ plan' = [plan EXCEPT ![p] = "closed"]

\* failPlan passes over the reservations of items that have failed already.
FailPlan(p) ==
    /\ p \in closing
    /\ closing' = closing \ {p}
    /\ Close(p, "failed", ItemStatus \ {"none", "failed"})
    /\ UNCHANGED <<target, lock, ownerVars, planner, exec, historyVars>>

\* CancelPlan looks neither at the plan's status nor at who works on it.
CancelPlan(p) ==
    /\ plan[p] # "none"
    /\ Stops
    /\ Close(p, "dropped", ItemStatus \ {"none"})
    /\ UNCHANGED <<target, lock, ownerVars, planner, exec, closing, backed, contended>>

\* GetPlan and ListPlans reconcile a plan that is executing: an item that is
\* executing has no migration and is failed.
ReconcilePlan(p, s) ==
    /\ plan[p] = "executing"
    /\ item[<<p, s>>] = "executing"
    /\ Release({<<p, s>>})
    /\ SetItem(p, s, "failed")
    /\ CallFailPlan(p)
    /\ UNCHANGED <<plan, target, lock, ownerVars, planner, exec, historyVars>>

AbandonClosing(p) ==
    /\ p \in closing
    /\ Stops
    /\ closing' = closing \ {p}
    /\ UNCHANGED <<planVars, reservationVars, ownerVars, planner, exec, backed, contended>>

-----------------------------------------------------------------------------
(* ExecutePlan *)

At(e, pc) == exec' = [exec EXCEPT ![e].pc = pc]
Over(e) == exec' = [exec EXCEPT ![e] = [pc |-> "done", plan |-> None, todo |-> {}, cur |-> None]]
\* VerifyAndRestore has returned, and the next item is up.
Returned(e) ==
    exec' = [exec EXCEPT ![e] = [pc |-> "next", plan |-> @.plan, todo |-> @.todo \ {@.cur},
                                 cur |-> None]]
Row(e) == <<exec[e].plan, exec[e].cur>>
ItemFails(e) == item' = [item EXCEPT ![Row(e)] = "failed"] /\ Returned(e)

\* StartRecoveryPlan takes a plan that is planned, or executing already.
StartPlan(e, p) ==
    /\ exec[e].pc = "idle"
    /\ plan[p] \in {"planned", "executing"}
    /\ item' = [x \in Plans \X Servers |->
                   IF x \in Rows(p, {"planned"}) THEN "executing" ELSE item[x]]
    /\ IF \A s \in Servers : item[<<p, s>>] = "none"
       THEN /\ plan' = [plan EXCEPT ![p] = "closed"]
            /\ Over(e)
       ELSE /\ plan' = [plan EXCEPT ![p] = "executing"]
            /\ exec' = [exec EXCEPT ![e] =
                   [pc |-> "next", plan |-> p, cur |-> None,
                    todo |-> {s \in Servers : item'[<<p, s>>] = "executing"}]]
    /\ UNCHANGED <<reservationVars, ownerVars, planner, closing, historyVars>>

Contend(e, s) ==
    contended' = IF \E d \in Execs \ {e} : exec[d].cur = s /\ exec[d].pc \in Owning
                 THEN contended \cup {s} ELSE contended

\* VerifyAndRestore restores the backup on the target and points the server at it
\* (BeginRecoveryOwnership), unless it is there or on a third node.  The foreign
\* key to the node's row waits for a transaction that holds it.  Then the daemon
\* provisions the server (ProvisionRecoveredServer), or refuses to.
BeginRecoveryOwnership(e, s) ==
    LET p == exec[e].plan  x == <<p, s>>  n == target[x] IN
    /\ exec[e].pc = "next"
    /\ s \in exec[e].todo
    /\ home[s] \in {n, NodeOf[p]}
    /\ home[s] # n => Unlocked(n)
    /\ home' = [home EXCEPT ![s] = n]
    /\ backed' = CASE home[s] = n -> backed
                 [] home[s] # n /\ x \in live -> backed \cup {s}
                 [] home[s] # n /\ x \notin live -> backed \ {s}
    /\ Contend(e, s)
    /\ \E pc \in Owning :
          exec' = [exec EXCEPT ![e] = [pc |-> pc, plan |-> @.plan, todo |-> @.todo, cur |-> s]]
    /\ UNCHANGED <<planVars, reservationVars, bound, planner, closing, stops>>

\* VerifyAndRestore fails before that: the backup, the third node, no allocation.
RestoreFails(e, s) ==
    /\ exec[e].pc = "next"
    /\ s \in exec[e].todo
    /\ item' = [item EXCEPT ![<<exec[e].plan, s>>] = "failed"]
    /\ exec' = [exec EXCEPT ![e].todo = @ \ {s}]
    /\ UNCHANGED <<plan, reservationVars, ownerVars, planner, closing, historyVars>>

\* Mutant: every allocation of the server is freed, not only the target's.
RollbackFreesAll(e) ==
    LET s == exec[e].cur IN
    /\ exec[e].pc = "rollback"
    /\ home' = [home EXCEPT ![s] = NodeOf[exec[e].plan]]
    /\ bound' = bound \ {s}
    /\ backed' = backed \ {s}
    /\ ItemFails(e)
    /\ UNCHANGED <<plan, reservationVars, planner, closing, stops, contended>>

\* Mutant: the server goes back though its old allocation is gone.
RollbackUnchecked(e) ==
    LET s == exec[e].cur IN
    /\ exec[e].pc = "rollback"
    /\ home' = [home EXCEPT ![s] = NodeOf[exec[e].plan]]
    /\ backed' = backed \ {s}
    /\ ItemFails(e)
    /\ UNCHANGED <<plan, reservationVars, bound, planner, closing, stops, contended>>

\* It needs the source allocation, and can fail.
RollbackRecoveryOwnership(e) ==
    LET s == exec[e].cur IN
    /\ exec[e].pc = "rollback"
    /\ \/ /\ s \in bound
          /\ home' = [home EXCEPT ![s] = NodeOf[exec[e].plan]]
          /\ backed' = backed \ {s}
       \/ UNCHANGED <<home, backed>>
    /\ ItemFails(e)
    /\ UNCHANGED <<plan, reservationVars, bound, planner, closing, stops, contended>>

CompleteRecoveryOwnership(e) ==
    LET s == exec[e].cur IN
    /\ exec[e].pc = "complete"
    /\ \/ /\ bound' = bound \ {s}
          /\ Release({Row(e)})
          /\ At(e, "mark")
          /\ UNCHANGED item
       \/ ItemFails(e) /\ UNCHANGED <<bound, live>>
    /\ UNCHANGED <<plan, target, lock, home, planner, closing, historyVars>>

MarkAwaiting(e) ==
    /\ exec[e].pc = "mark"
    /\ item' = [item EXCEPT ![Row(e)] = "awaiting"]
    /\ Returned(e)
    /\ UNCHANGED <<plan, reservationVars, ownerVars, planner, closing, historyVars>>

\* finishBackupRestorePlan goes through the items in the order of their rows and
\* stops at the first that has failed or is still open.
FinishExecution(e) ==
    LET p == exec[e].plan
        has(statuses) == Rows(p, statuses) # {} IN
    /\ exec[e].pc = "next" /\ exec[e].todo = {}
    /\ Over(e)
    /\ \/ has({"failed"}) /\ CallFailPlan(p) /\ UNCHANGED plan
       \/ has({"awaiting", "executing", "planned"}) /\ UNCHANGED <<plan, closing>>
       \/ /\ ~has({"failed", "awaiting", "executing", "planned"})
          /\ plan' = [plan EXCEPT ![p] = "closed"]
          /\ UNCHANGED closing
    /\ UNCHANGED <<item, reservationVars, ownerVars, planner, historyVars>>

AbandonExecution(e) ==
    /\ exec[e].pc \notin {"idle", "done"}
    /\ Stops
    /\ Over(e)
    /\ UNCHANGED <<planVars, reservationVars, ownerVars, planner, closing, backed, contended>>

-----------------------------------------------------------------------------
PlanningStep(p) ==
    \/ CreatePlan(p)
    \/ \E s \in Servers : SkipServer(p, s) \/ \E n \in Targets : CheckReservation(p, s, n)
    \/ InsertReservation(p) \/ CreateRecoveryItem(p)
    \/ FinishPlanning(p) \/ AbandonPlanning(p)

ClosingStep(p) ==
    \/ FailPlan(p) \/ CancelPlan(p)
    \/ \E s \in Servers : ReconcilePlan(p, s)

ExecutionStep(e) ==
    \/ \E p \in Plans : StartPlan(e, p)
    \/ \E s \in Servers : BeginRecoveryOwnership(e, s) \/ RestoreFails(e, s)
    \/ RollbackRecoveryOwnership(e) \/ CompleteRecoveryOwnership(e)
    \/ MarkAwaiting(e) \/ FinishExecution(e) \/ AbandonExecution(e)

Next ==
    \/ \E p \in Plans : PlanningStep(p) \/ ClosingStep(p)
    \/ \E e \in Execs : ExecutionStep(e)
    \/ \E x \in live : Expire(x)
    \/ \E p \in closing : AbandonClosing(p)

Spec == Init /\ [][Next]_vars

-----------------------------------------------------------------------------
(* Properties *)

\* The servers that hold a live reservation on a node and those that moved to it
\* under one: what CreatePlacementReservation is there to keep within capacity.
Claimed(n) == {x[2] : x \in Live(n)} \cup {s \in backed : home[s] = n}

\* A node is never promised to more servers than it has room for, however the
\* reservations of concurrent plans, their expiry, cancels, moves and rollbacks
\* interleave.  Servers whose reservation was cancelled or ran out before
\* BeginRecoveryOwnership, which does not look at it, are not counted.
CapacityKept == \A n \in Targets : Cardinality(Claimed(n)) <= Capacity

\* On one node a server never holds two live reservations: the row lock orders
\* the check for another one and the insert.  (On two nodes it can.)
ReservedOnce ==
    \A n \in Targets : \A x, y \in Live(n) : x[2] = y[2] => x = y

\* A server that no two executions owned at a time has an allocation on the node
\* it is recorded on: moves, rollbacks and abandoned executions in any order
\* never leave it on the offline node with its allocation there given up.
NeverHomeless ==
    \A s \in Servers \ contended : home[s] = HomeOf[s] => s \in bound

\* An item that waits for the beacon has moved its server for good, whatever
\* later executions of this or of another plan do.
AwaitingMeansMoved ==
    \A p \in Plans, s \in Servers \ contended :
        item[<<p, s>>] = "awaiting" => home[s] = target[<<p, s>>] /\ s \notin bound
=============================================================================
