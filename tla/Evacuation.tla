----------------------------- MODULE Evacuation -----------------------------
(***************************************************************************)
(* The evacuation of a node (forge/api/internal/services/evacuationplanner *)
(* with store_evacuation.go): one plan with an item per server, the        *)
(* request that executes it, the observers that the API processes run for  *)
(* every running plan, and the request that cancels it.  They all start    *)
(* migrations and write items by id, each from the copy of the plan it     *)
(* read.                                                                   *)
(*                                                                         *)
(* One statement is one step; a plan is read together with its items, and  *)
(* a run is recorded together with the status of its migration.  Once it   *)
(* has a run a migration goes on by itself (module Migration): its row     *)
(* ends, and a worker that was late may still write over the end.  Items   *)
(* are numbered in the order in which every reader gets them; one that is  *)
(* not eligible is failed from the start.                                  *)
(***************************************************************************)
EXTENDS Integers, FiniteSets

CONSTANTS
    N,           \* servers of the node
    MaxActive,   \* maxConcurrentEvacuationMigrations
    Tries,       \* bound: migrations of one server
    Request,     \* the call of ExecutePlan that claims the plan
    Observers,   \* the observer goroutine of each API process
    MaxUpsets    \* bound: calls of CancelPlan, statements that fail, drivers that end
                 \* half way, reservations that run out under their migration, late writes

ASSUME EvacuationAssumption ==
    /\ N \in Nat /\ Tries \in Nat
    /\ MaxActive \in Nat \ {0}
    /\ Request \notin Observers
    /\ IsFiniteSet(Observers)
    /\ MaxUpsets \in Nat

VARIABLES
    plan,        \* evacuation_plans.status
    item, link,  \* status and migration_id of each evacuation_items row
    mig,         \* status of the row of each migration of each server
    pc,          \* where a driver, the request or an observer, is
    todo,        \* what is left of the items it read: to reconcile, or to start
    active,      \* the slots it counts as taken
    own,         \* the migration it is starting
    cancelling,  \* a call of CancelPlan is under way
    ctodo,       \* the migrations it still has to cancel
    moved,       \* history: servers that a migration has moved
    lapsed,      \* migrations that went on without their reservation
    upsets

planVars == <<plan, item, link>>
migVars == <<mig, moved>>
driverVars == <<pc, todo, active, own>>
cancelVars == <<cancelling, ctodo>>
faultVars == <<lapsed, upsets>>
vars == <<planVars, migVars, driverVars, cancelVars, faultVars>>

Items == 1..N
Drivers == Observers \cup {Request}
NoMig == 0
Nothing == <<NoMig, NoMig>>
Migs == Items \X (1..Tries)
\* An item as a driver read it: its number and its migration.
Copies == Items \X (0..Tries)
Final == {"completed", "failed", "cancelled"}
Busy == {"preparing", "running"}
Open == Busy \cup {"pending"}
ItemStatus == Open \cup {"completed", "failed"}
\* Of a migration, "reserved" is planned with a reservation, "running" is preparing,
\* transferring or restoring, "failed" is failed or cancelled, which the planner treats
\* alike, and "stopped" is the same of one that has a run.
Holding == {"reserved", "running"}
Alive == Holding \cup {"planned"}
MigStatus == Alive \cup {"none", "completed", "failed", "stopped"}
Place == {"idle", "claimed", "read", "reconcile", "setCompleted", "setFailed", "create", "reserve",
          "discard", "link", "prepare", "record", "mark", "reject", "complete", "failPlan"}

TypeOK ==
    /\ plan \in {"none", "pending", "running"} \cup Final
    /\ item \in [Items -> ItemStatus]
    /\ link \in [Items -> 0..Tries]
    /\ mig \in [Migs -> MigStatus]
    /\ pc \in [Drivers -> Place]
    /\ todo \in [Drivers -> SUBSET Copies]
    /\ active \in [Drivers -> Nat]
    /\ own \in [Drivers -> Copies \cup {Nothing}]
    /\ cancelling \in BOOLEAN
    /\ ctodo \subseteq Copies
    /\ moved \subseteq Items /\ lapsed \subseteq Migs
    /\ upsets \in 0..MaxUpsets

Init ==
    /\ plan = "none"
    /\ item = [i \in Items |-> "pending"]
    /\ link = [i \in Items |-> NoMig]
    /\ mig = [m \in Migs |-> "none"]
    /\ pc = [d \in Drivers |-> "idle"]
    /\ todo = [d \in Drivers |-> {}]
    /\ active = [d \in Drivers |-> 0]
    /\ own = [d \in Drivers |-> Nothing]
    /\ cancelling = FALSE /\ ctodo = {}
    /\ moved = {} /\ lapsed = {}
    /\ upsets = 0

-----------------------------------------------------------------------------
(* Helpers *)

Goto(d, place) == pc' = [pc EXCEPT ![d] = place]

\* The driver goes to a place where it has nothing in hand.
Drop(d, place) ==
    /\ Goto(d, place)
    /\ todo' = [todo EXCEPT ![d] = {}]
    /\ active' = [active EXCEPT ![d] = 0]
    /\ own' = [own EXCEPT ![d] = Nothing]

\* The items of the plan with one of these statuses, as GetEvacuationPlan returns them.
Read(statuses) == {<<i, link[i]>> : i \in {j \in Items : item[j] \in statuses}}

\* Items are taken in order.
First(x, copies) == x \in copies /\ \A y \in copies : x[1] <= y[1]

\* UPDATE evacuation_items ... WHERE id, whatever the row holds by now.
SetItem(x, status) ==
    /\ item' = [item EXCEPT ![x[1]] = status]
    /\ link' = [link EXCEPT ![x[1]] = x[2]]

\* startAvailableItems begins: slots and pending items are those of the copy.
BeginStarting(d) ==
    /\ Goto(d, "create")
    /\ todo' = [todo EXCEPT ![d] = Read({"pending"})]
    /\ active' = [active EXCEPT ![d] = Cardinality(Read(Busy))]

\* The loop goes on to the next item.
NextItem(d) ==
    /\ Goto(d, "create")
    /\ own' = [own EXCEPT ![d] = Nothing]

\* Mutant of Free: the other reservations are not looked at.
FreeUnchecked(i) == TRUE

\* CreatePlacementReservation: the server has no other live reservation.  One is
\* released when its migration ends, and is over after thirty minutes.
Free(i) == \A k \in 1..Tries : mig[<<i, k>>] \in Holding => <<i, k>> \in lapsed

\* What upsets the course of the plan is bounded.
Upset == upsets < MaxUpsets /\ upsets' = upsets + 1
Smooth == UNCHANGED upsets

\* The next migration of server i.
Unused(i, k) == mig[<<i, k>>] = "none" /\ \A j \in 1..(k - 1) : mig[<<i, j>>] # "none"

-----------------------------------------------------------------------------
(* CreatePlan, ExecutePlan, the observers *)

\* evaluateNode and CreateEvacuationPlan: a plan with a server that has no target
\* is failed from the start.
CreatePlan ==
    /\ plan = "none"
    /\ \E fit \in SUBSET Items :
         /\ item' = [i \in Items |-> IF i \in fit THEN "pending" ELSE "failed"]
         /\ plan' = IF N = 0 THEN "completed" ELSE IF fit = Items THEN "pending" ELSE "failed"
    /\ UNCHANGED <<link, migVars, driverVars, cancelVars, faultVars>>

\* StartEvacuationPlan: the guarded update; the plan is read after it.
StartEvacuationPlan ==
    /\ pc[Request] = "idle"
    /\ plan = "pending"
    /\ plan' = "running"
    /\ Goto(Request, "claimed")
    /\ UNCHANGED <<item, link, migVars, todo, active, own, cancelVars, faultVars>>

ReadClaimed ==
    /\ pc[Request] = "claimed"
    /\ BeginStarting(Request)
    /\ UNCHANGED <<planVars, migVars, own, cancelVars, faultVars>>

\* startObserver, from resumeRunningPlans or at the end of ExecutePlan: one per
\* process and plan.
StartObserver(d) ==
    /\ pc[d] = "idle"
    /\ plan = "running"
    /\ Goto(d, "read")
    /\ UNCHANGED <<planVars, migVars, todo, active, own, cancelVars, faultVars>>

\* observePlan reads the plan and returns unless it is running.
ReadPlan(d) ==
    /\ pc[d] = "read"
    /\ \/ /\ plan = "running"
          /\ Goto(d, "reconcile")
          /\ todo' = [todo EXCEPT ![d] = {x \in Read(Busy) : x[2] # NoMig}]
       \/ /\ plan # "running"
          /\ Goto(d, "idle")
          /\ UNCHANGED todo
    /\ UNCHANGED <<planVars, migVars, active, own, cancelVars, faultVars>>

\* Mutant of Outcome: failed is not known as an end.
OutcomeOpen(s) == IF s = "completed" THEN s ELSE "pending"

\* Mutant of Outcome: what is under way counts as done.
OutcomeEarly(s) == IF s = "running" THEN "completed" ELSE OutcomeOpen(s)

\* evacuationMigrationOutcome.
Outcome(s) ==
    IF s = "completed" THEN s ELSE IF s \in {"failed", "stopped"} THEN "failed" ELSE "pending"

\* reconcileItems, one item at a time: the status of its migration is read.  One that
\* has not ended is passed over.
ReadOutcome(d) ==
    /\ pc[d] = "reconcile"
    /\ \E x \in todo[d] :
         /\ First(x, todo[d])
         /\ todo' = [todo EXCEPT ![d] = @ \ {x}]
         /\ \/ Outcome(mig[x]) = "pending" /\ UNCHANGED <<pc, own>>
            \/ /\ Outcome(mig[x]) # "pending"
               /\ Goto(d, IF Outcome(mig[x]) = "completed" THEN "setCompleted" ELSE "setFailed")
               /\ own' = [own EXCEPT ![d] = x]
    /\ UNCHANGED <<planVars, migVars, active, cancelVars, faultVars>>

\* The item gets what was read of its migration.
SettleItem(d, place, status) ==
    /\ pc[d] = place
    /\ SetItem(own[d], status)
    /\ Goto(d, "reconcile")
    /\ own' = [own EXCEPT ![d] = Nothing]
    /\ UNCHANGED <<plan, migVars, todo, active, cancelVars, faultVars>>

ReconcileItem(d) == SettleItem(d, "setCompleted", "completed") \/ SettleItem(d, "setFailed", "failed")

\* The plan is read again, without a look at its status.  When every item has ended,
\* completePlan writes completed, or failed if one of them is.
RereadPlan(d) ==
    /\ pc[d] = "reconcile"
    /\ todo[d] = {}
    /\ \/ /\ Read(Open) = {}
          /\ Goto(d, IF Read({"failed"}) = {} THEN "complete" ELSE "failPlan")
          /\ UNCHANGED <<todo, active>>
       \/ /\ Read(Open) # {}
          /\ BeginStarting(d)
    /\ UNCHANGED <<planVars, migVars, own, cancelVars, faultVars>>

\* UpdateEvacuationPlanStatus, by id.
EndPlan(d, place, status) ==
    /\ pc[d] = place
    /\ plan' = status
    /\ Goto(d, "idle")
    /\ UNCHANGED <<item, link, migVars, todo, active, own, cancelVars, faultVars>>

CompletePlan(d) == EndPlan(d, "complete", "completed")
FailPlan(d) == EndPlan(d, "failPlan", "failed")

-----------------------------------------------------------------------------
(* startAvailableItems *)

SlotsFull(d) == active[d] >= MaxActive

\* The slots are used up or the items are.  ExecutePlan returns, an observer waits for
\* its ticker.
LoopEnds(d) ==
    /\ pc[d] = "create"
    /\ SlotsFull(d) \/ todo[d] = {}
    /\ Drop(d, IF d = Request THEN "idle" ELSE "read")
    /\ UNCHANGED <<planVars, migVars, cancelVars, faultVars>>

\* CreateEvacuationMigration for the next item that was pending in the copy: the row is
\* inserted.  On an error before that the item is failed and loses its link, as it is
\* when the bound on its migrations is reached.
CreateMigration(d) ==
    /\ pc[d] = "create"
    /\ ~SlotsFull(d)
    /\ \E x \in todo[d] :
         /\ First(x, todo[d])
         /\ todo' = [todo EXCEPT ![d] = @ \ {x}]
         /\ \/ \E k \in 1..Tries :
                 /\ Unused(x[1], k)
                 /\ mig' = [mig EXCEPT ![<<x[1], k>>] = "planned"]
                 /\ own' = [own EXCEPT ![d] = <<x[1], k>>]
                 /\ Goto(d, "reserve")
                 /\ Smooth
                 /\ UNCHANGED <<item, link>>
            \/ /\ SetItem(<<x[1], NoMig>>, "failed")
               /\ Upset \/ (mig[<<x[1], Tries>>] # "none" /\ Smooth)
               /\ UNCHANGED <<mig, own, pc>>
    /\ UNCHANGED <<plan, moved, active, cancelVars, lapsed>>

\* The reservation for it, in a transaction of its own.  It is refused when the server
\* has another, and fails for any other reason at any moment.
ReserveTarget(d) ==
    /\ pc[d] = "reserve"
    /\ \/ /\ Free(own[d][1])
          /\ mig' = [mig EXCEPT ![own[d]] = "reserved"]
          /\ Goto(d, "link")
          /\ Smooth
       \/ /\ Goto(d, "discard")
          /\ Upset \/ (~Free(own[d][1]) /\ Smooth)
          /\ UNCHANGED mig
    /\ UNCHANGED <<planVars, moved, todo, active, own, cancelVars, lapsed>>

\* Without it the row is marked failed, and a failure to do so is ignored.
DiscardMigration(d) ==
    /\ pc[d] = "discard"
    /\ \/ mig' = [mig EXCEPT ![own[d]] = "failed"] /\ Smooth
       \/ Upset /\ UNCHANGED mig
    /\ own' = [own EXCEPT ![d] = <<@[1], NoMig>>]
    /\ Goto(d, "reject")
    /\ UNCHANGED <<planVars, moved, todo, active, cancelVars, lapsed>>

\* The item is preparing and has its migration.
LinkMigration(d) ==
    /\ pc[d] = "link"
    /\ SetItem(own[d], "preparing")
    /\ Goto(d, "prepare")
    /\ UNCHANGED <<plan, migVars, todo, active, own, cancelVars, faultVars>>

\* PrepareMigration reads the status; an error, or a migration cancelled meanwhile,
\* fails the item.
PrepareMigration(d) ==
    /\ pc[d] = "prepare"
    /\ \/ /\ mig[own[d]] = "reserved"
          /\ Goto(d, "record")
          /\ Smooth
          /\ UNCHANGED <<item, link, own>>
       \/ /\ SetItem(own[d], "failed")
          /\ NextItem(d)
          /\ Upset \/ (mig[own[d]] # "reserved" /\ Smooth)
    /\ UNCHANGED <<plan, migVars, todo, active, cancelVars, lapsed>>

\* It records the run and the status, although the migration may have been cancelled
\* after the read, and ExecuteMigration starts the run.  Either may fail after the run
\* is there, which then goes on by itself; an error before that fails the item.
RecordRun(d) ==
    /\ pc[d] = "record"
    /\ \/ /\ mig' = [mig EXCEPT ![own[d]] = "running"]
          /\ lapsed' = IF mig[own[d]] \in Holding THEN lapsed ELSE lapsed \cup {own[d]}
          /\ \/ Goto(d, "mark") /\ Smooth
             \/ Goto(d, "reject") /\ Upset
          /\ UNCHANGED <<item, link, own>>
       \/ /\ SetItem(own[d], "failed")
          /\ NextItem(d)
          /\ Upset
          /\ UNCHANGED <<mig, lapsed>>
    /\ UNCHANGED <<plan, moved, todo, active, cancelVars>>

\* The item is running and takes a slot.
MarkRunning(d) ==
    /\ pc[d] = "mark"
    /\ SetItem(own[d], "running")
    /\ active' = [active EXCEPT ![d] = @ + 1]
    /\ NextItem(d)
    /\ UNCHANGED <<plan, migVars, todo, cancelVars, faultVars>>

\* There is no migration, or its preparation failed although the run was recorded: the
\* item fails, and the loop goes on.
RejectItem(d) ==
    /\ pc[d] = "reject"
    /\ SetItem(own[d], "failed")
    /\ NextItem(d)
    /\ UNCHANGED <<plan, migVars, todo, active, cancelVars, faultVars>>

StartStep(d) ==
    \/ LoopEnds(d) \/ CreateMigration(d) \/ ReserveTarget(d) \/ DiscardMigration(d)
    \/ LinkMigration(d) \/ PrepareMigration(d) \/ RecordRun(d) \/ MarkRunning(d) \/ RejectItem(d)

-----------------------------------------------------------------------------
(* Faults *)

\* An update of an item fails, and the plan is failed for it.
UpdateFails(d) ==
    /\ Upset
    /\ \/ pc[d] \in {"setCompleted", "setFailed", "link", "prepare", "record", "mark", "reject"}
       \/ pc[d] = "create" /\ todo[d] # {} /\ ~SlotsFull(d)
    /\ Drop(d, "failPlan")
    /\ UNCHANGED <<planVars, migVars, cancelVars, lapsed>>

\* The status of a migration cannot be read: its item is passed over.
StatusUnread(d) ==
    /\ Upset
    /\ pc[d] = "reconcile"
    /\ \E x \in todo[d] : First(x, todo[d]) /\ todo' = [todo EXCEPT ![d] = @ \ {x}]
    /\ UNCHANGED <<planVars, migVars, pc, active, own, cancelVars, lapsed>>

\* The process dies, the plan cannot be read, or the context of the request (that of
\* ExecutePlan's observer too) is over: all that the driver still tries fails.
DriverEnds(d) ==
    /\ Upset
    /\ pc[d] # "idle"
    /\ Drop(d, "idle")
    /\ UNCHANGED <<planVars, migVars, cancelVars, lapsed>>

-----------------------------------------------------------------------------
(* CancelPlan *)

BeginCancel ==
    /\ Upset
    /\ ~cancelling
    /\ plan = "running"
    /\ cancelling' = TRUE
    /\ ctodo' = {x \in Read(Busy) : x[2] # NoMig}
    /\ UNCHANGED <<planVars, migVars, driverVars, lapsed>>

\* CancelMigration; a migration that has ended is an error, which ends CancelPlan.
CancelMigration ==
    /\ \E m \in ctodo :
         /\ First(m, ctodo)
         /\ \/ /\ mig[m] \in Alive
               /\ mig' = [mig EXCEPT ![m] = IF @ = "running" THEN "stopped" ELSE "failed"]
               /\ ctodo' = ctodo \ {m}
               /\ UNCHANGED cancelling
            \/ /\ mig[m] \notin Alive
               /\ ctodo' = {}
               /\ cancelling' = FALSE
               /\ UNCHANGED mig
    /\ UNCHANGED <<planVars, moved, driverVars, faultVars>>

\* CancelEvacuationPlan, guarded by the status.
CancelEvacuationPlan ==
    /\ cancelling
    /\ ctodo = {}
    /\ plan' = IF plan = "running" THEN "cancelled" ELSE plan
    /\ cancelling' = FALSE
    /\ UNCHANGED <<item, link, migVars, driverVars, ctodo, faultVars>>

-----------------------------------------------------------------------------
(* The migration service, as far as the planner sees it *)

\* A migration with a run is carried on by startRun or by the reconcile loop, and its
\* row says at last that it has ended.
MigrationEnds(m) ==
    /\ mig[m] = "running"
    /\ \/ mig' = [mig EXCEPT ![m] = "completed"] /\ moved' = moved \cup {m[1]}
       \/ mig' = [mig EXCEPT ![m] = "stopped"] /\ UNCHANGED moved
    /\ UNCHANGED <<planVars, driverVars, cancelVars, faultVars>>

\* UpdateMigrationStatus, by id, of a worker that goes on with the run of a migration
\* which has ended and given its reservation back.
LateStatus(m) ==
    /\ Upset
    /\ mig[m] \in {"completed", "stopped"}
    /\ \E s \in {"running", "stopped"} : mig' = [mig EXCEPT ![m] = s]
    /\ lapsed' = lapsed \cup {m}
    /\ UNCHANGED <<planVars, moved, driverVars, cancelVars>>

\* Thirty minutes are over and the migration is not.
ReservationLapses(m) ==
    /\ Upset
    /\ mig[m] \in Holding
    /\ lapsed' = lapsed \cup {m}
    /\ UNCHANGED <<planVars, migVars, driverVars, cancelVars>>

-----------------------------------------------------------------------------
ObserverStep(d) ==
    \/ StartObserver(d) \/ ReadPlan(d) \/ ReadOutcome(d) \/ ReconcileItem(d) \/ RereadPlan(d)
    \/ CompletePlan(d)

DriverStep(d) == StartStep(d) \/ FailPlan(d)

CancelStep == BeginCancel \/ CancelMigration \/ CancelEvacuationPlan

Next ==
    \/ CreatePlan \/ StartEvacuationPlan \/ ReadClaimed
    \/ \E d \in Observers : ObserverStep(d)
    \/ \E d \in Drivers : DriverStep(d) \/ UpdateFails(d) \/ StatusUnread(d) \/ DriverEnds(d)
    \/ CancelStep
    \/ \E m \in Migs : MigrationEnds(m) \/ LateStatus(m) \/ ReservationLapses(m)

Spec == Init /\ [][Next]_vars

\* Goroutines run, and the ticker of every process starts its observer again.  Nothing
\* is assumed of the migrations.
Fairness ==
    /\ WF_vars(ReadClaimed \/ DriverStep(Request))
    /\ \A d \in Observers : WF_vars(ObserverStep(d) \/ DriverStep(d))

FairSpec == Spec /\ Fairness

-----------------------------------------------------------------------------
(* Properties *)

\* A plan says completed only when a migration has moved every server of the node,
\* although items and plan are written by id from copies that other drivers have
\* overtaken (reconcileItems, completePlan, startAvailableItems).
CompletedMeansMoved == plan = "completed" => moved = Items

\* However many drivers start items from old copies of the plan, and whatever rows their
\* predecessors left behind, two migrations of a server run at a time only if one of them
\* went on without its reservation: it ran out, or was given back when the migration was
\* cancelled or had failed (CreateMigration, CreatePlacementReservation).
OneMigration ==
    \A i \in Items : \A j, k \in 1..Tries :
        mig[<<i, j>>] = "running" /\ mig[<<i, k>>] = "running" /\ j # k =>
            <<i, j>> \in lapsed \/ <<i, k>> \in lapsed

\* A driver ended between the link of a migration to its item and the record of its run:
\* the item waits for a migration that nobody carries on.
Stranded ==
    \E i \in Items :
        /\ item[i] \in Busy
        /\ <<i, link[i]>> \in Migs /\ mig[<<i, link[i]>>] = "reserved"
        /\ \A d \in Drivers : own[d] # <<i, link[i]>>

\* If every migration that has a run ends, a plan that is executed comes to an end,
\* whatever becomes of the request that started it, unless an item is stranded
\* (observePlan, resumeRunningPlans).
PlanSettles ==
    (\A m \in Migs : []<>(mig[m] # "running")) =>
        (plan = "running" ~> (plan \in Final \/ Stranded))
=============================================================================
