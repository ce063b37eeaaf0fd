-------------------------- MODULE EvacuationProofs --------------------------
(***************************************************************************)
(* The evacuation of a node: a completed plan means moved servers, and one *)
(* migration of a server at a time, for any number of servers, slots and   *)
(* observers.                                                              *)
(***************************************************************************)
EXTENDS Evacuation, FiniteSetTheorems, TLAPS

\* Where a driver has read the end of a migration, and where it has created one.
Settling == {"setCompleted", "setFailed"}
Starting == {"reserve", "discard", "link", "prepare", "record", "mark"}

\* A driver that reconciles has only items with a migration; one that starts an item has
\* its migration in hand once it is created, until it finds that it has none.
InHand ==
    \A d \in Drivers :
        /\ pc[d] \in Settling \cup {"reconcile"} => todo[d] \subseteq Migs
        /\ pc[d] \in Settling \cup Starting => own[d] \in Migs
        /\ pc[d] = "reject" => own[d] \in Copies

TInv == TypeOK /\ InHand /\ ctodo \subseteq Migs

\* What says completed is about a server that has moved: a migration, a driver that has
\* read it, an item, a driver that is about to complete the plan, the plan.
MigsTrue == \A m \in Migs : mig[m] = "completed" => m[1] \in moved
ReadTrue == \A d \in Drivers : pc[d] = "setCompleted" => own[d][1] \in moved
ItemsTrue == \A i \in Items : item[i] = "completed" => i \in moved
EndTrue == \A d \in Drivers : pc[d] = "complete" => moved = Items

MInv == MigsTrue /\ ReadTrue /\ ItemsTrue /\ EndTrue /\ CompletedMeansMoved

\* A migration has its reservation from before it is linked to its item, not only when it
\* runs; of two that have one by their status, one has lost it.
OneReservation ==
    \A i \in Items : \A j, k \in 1..Tries :
        mig[<<i, j>>] \in Holding /\ mig[<<i, k>>] \in Holding /\ j # k =>
            <<i, j>> \in lapsed \/ <<i, k>> \in lapsed

-----------------------------------------------------------------------------
\* A migration is an item with a number from 1 on.
LEMMA MigIsCopy ==
    /\ Migs \subseteq Copies
    /\ \A x \in Copies : x[2] # NoMig => x \in Migs
    /\ \A x \in Copies : x[1] \in Items /\ x[2] \in 0..Tries
    /\ \A x \in Copies : x = <<x[1], x[2]>>
    /\ \A m \in Migs : m[1] \in Items
BY EvacuationAssumption DEF Migs, Copies, Items, NoMig

\* What is read of the plan are copies of its items.
LEMMA ReadCopies ==
    ASSUME TypeOK, NEW S
    PROVE  /\ Read(S) \subseteq Copies
           /\ {x \in Read(S) : x[2] # NoMig} \subseteq Migs
<1>1. Read(S) \subseteq Copies
  BY DEF Read, Copies, TypeOK
<1> QED BY <1>1, MigIsCopy

\* The number of the items read is a natural number.
LEMMA ReadCount ==
    ASSUME TypeOK, NEW S
    PROVE  Cardinality(Read(S)) \in Nat
<1>1. IsFiniteSet(Items)
  BY FS_Interval, EvacuationAssumption DEF Items
<1> DEFINE J == {j \in Items : item[j] \in S}
<1>2. IsFiniteSet(J)
  BY <1>1, FS_Subset
<1>3. IsFiniteSet({<<i, link[i]>> : i \in J})
  <2> DEFINE f == [i \in J |-> <<i, link[i]>>]
             R == {<<i, link[i]>> : i \in J}
  <2>1. f \in Surjection(J, R)
    BY DEF Surjection
  <2> QED BY <2>1, <1>2, FS_Surjection
<1>4. IsFiniteSet(Read(S))
  BY <1>3 DEF Read
<1> QED BY <1>4, FS_CardinalityType

-----------------------------------------------------------------------------
(* Types *)

\* The invariants hold before there is a plan.
LEMMA InitInv == Init => TInv /\ MInv /\ OneReservation
<1> SUFFICES ASSUME Init PROVE TInv /\ MInv /\ OneReservation
  OBVIOUS
<1> USE EvacuationAssumption DEF Init
<1>1. TInv
  <2>1. /\ item \in [Items -> ItemStatus] /\ link \in [Items -> 0..Tries]
        /\ mig \in [Migs -> MigStatus]
    BY DEF ItemStatus, Open, NoMig, MigStatus
  <2>2. /\ pc \in [Drivers -> Place] /\ todo \in [Drivers -> SUBSET Copies]
        /\ active \in [Drivers -> Nat] /\ own \in [Drivers -> Copies \cup {Nothing}]
    BY DEF Place
  <2>3. cancelling \in BOOLEAN /\ ctodo \subseteq Copies /\ moved \subseteq Items /\ lapsed \subseteq Migs
    OBVIOUS
  <2>4. upsets \in 0..MaxUpsets /\ plan \in {"none", "pending", "running"} \cup Final
    OBVIOUS
  <2>5. TypeOK
    BY <2>1, <2>2, <2>3, <2>4, Zenon DEF TypeOK
  <2> QED BY <2>5 DEF TInv, InHand, Settling, Starting
<1>2. MInv
  BY DEF MInv, MigsTrue, ReadTrue, ItemsTrue, EndTrue, CompletedMeansMoved
<1>3. OneReservation
  <2>1. \A i \in Items, k \in 1..Tries : mig[<<i, k>>] = "none"
    BY DEF Migs
  <2> QED BY <2>1 DEF OneReservation, Holding
<1> QED BY <1>1, <1>2, <1>3

\* The plan's own steps: made, claimed, cancelled.
LEMMA PlanTypes ==
    ASSUME TInv,
           CreatePlan \/ StartEvacuationPlan \/ ReadClaimed \/ CancelStep
    PROVE  TInv'
<1> USE EvacuationAssumption DEF TInv, Settling, Starting, planVars, migVars, driverVars, cancelVars, faultVars
<1>1. CASE CreatePlan
  BY <1>1 DEF CreatePlan, TypeOK, InHand, Final, ItemStatus, Open, Busy, Drivers
<1>2. CASE StartEvacuationPlan
  BY <1>2 DEF StartEvacuationPlan, Goto, TypeOK, InHand, Place, Drivers
<1>3. CASE ReadClaimed
  <2>1. /\ pc' = [pc EXCEPT ![Request] = "create"]
        /\ todo' = [todo EXCEPT ![Request] = Read({"pending"})]
        /\ active' = [active EXCEPT ![Request] = Cardinality(Read(Busy))]
        /\ UNCHANGED <<plan, item, link, mig, moved, own, cancelling, ctodo, lapsed, upsets>>
    BY <1>3 DEF ReadClaimed, BeginStarting, Goto
  <2>2. Read({"pending"}) \in SUBSET Copies /\ Cardinality(Read(Busy)) \in Nat
    BY ReadCopies, ReadCount
  <2>3. TypeOK'
    BY <2>1, <2>2 DEF TypeOK, Place
  <2> QED BY <2>1, <2>3 DEF InHand, TypeOK
<1>4. CASE BeginCancel
  <2>1. {x \in Read(Busy) : x[2] # NoMig} \subseteq Migs
    BY ReadCopies
  <2> QED BY <1>4, <2>1, MigIsCopy DEF BeginCancel, Upset, TypeOK, InHand
<1>5. CASE CancelMigration
  <2>1. mig' \in [Migs -> MigStatus]
    BY <1>5 DEF CancelMigration, TypeOK, MigStatus
  <2>2. ctodo' \subseteq ctodo
    BY <1>5 DEF CancelMigration
  <2> QED BY <1>5, <2>1, <2>2 DEF CancelMigration, TypeOK, InHand
<1>6. CASE CancelEvacuationPlan
  BY <1>6 DEF CancelEvacuationPlan, TypeOK, InHand, Final
<1> QED BY <1>1, <1>2, <1>3, <1>4, <1>5, <1>6 DEF CancelStep

\* The observer's steps up to the point where it starts items.
LEMMA ObserverTypes ==
    ASSUME TInv, NEW d \in Drivers,
           StartObserver(d) \/ ReadPlan(d) \/ ReadOutcome(d) \/ ReconcileItem(d) \/ RereadPlan(d)
    PROVE  TInv'
<1> USE EvacuationAssumption DEF TInv, Settling, Starting, planVars, migVars, driverVars, cancelVars, faultVars
<1>1. CASE StartObserver(d)
  BY <1>1 DEF StartObserver, Goto, TypeOK, InHand, Place
<1>2. CASE ReadPlan(d)
  <2>1. {x \in Read(Busy) : x[2] # NoMig} \subseteq Migs
    BY ReadCopies
  <2>2. /\ \/ /\ pc' = [pc EXCEPT ![d] = "reconcile"]
              /\ todo' = [todo EXCEPT ![d] = {x \in Read(Busy) : x[2] # NoMig}]
           \/ /\ pc' = [pc EXCEPT ![d] = "idle"]
              /\ todo' = todo
        /\ UNCHANGED <<plan, item, link, mig, moved, active, own, cancelling, ctodo, lapsed, upsets>>
    BY <1>2 DEF ReadPlan, Goto
  <2>3. TypeOK'
    BY <2>1, <2>2, MigIsCopy DEF TypeOK, Place
  <2> QED BY <2>1, <2>2, <2>3 DEF InHand, TypeOK
<1>3. CASE ReadOutcome(d)
  <2>1. PICK x \in todo[d] :
          /\ todo' = [todo EXCEPT ![d] = @ \ {x}]
          /\ \/ UNCHANGED <<pc, own>>
             \/ /\ \/ pc' = [pc EXCEPT ![d] = "setCompleted"]
                   \/ pc' = [pc EXCEPT ![d] = "setFailed"]
                /\ own' = [own EXCEPT ![d] = x]
    BY <1>3 DEF ReadOutcome, Goto
  <2>2. x \in Migs /\ x \in Copies /\ todo[d] \subseteq Migs
    BY <1>3, MigIsCopy DEF ReadOutcome, InHand
  <2>3. UNCHANGED <<plan, item, link, mig, moved, active, cancelling, ctodo, lapsed, upsets>>
    BY <1>3 DEF ReadOutcome
  <2>4. TypeOK'
    BY <2>1, <2>2, <2>3 DEF TypeOK, Place
  <2>5. InHand'
    BY <1>3, <2>1, <2>2 DEF InHand, TypeOK, ReadOutcome
  <2> QED BY <2>3, <2>4, <2>5
<1>5. CASE ReconcileItem(d)
  <2>1. PICK status \in {"completed", "failed"} :
          /\ SetItem(own[d], status)
          /\ pc' = [pc EXCEPT ![d] = "reconcile"]
          /\ own' = [own EXCEPT ![d] = Nothing]
          /\ pc[d] \in Settling
          /\ UNCHANGED <<plan, mig, moved, todo, active, cancelling, ctodo, lapsed, upsets>>
    BY <1>5 DEF ReconcileItem, SettleItem, Goto
  <2>2. own[d] \in Migs /\ own[d] \in Copies /\ todo[d] \subseteq Migs
    BY <2>1, MigIsCopy DEF InHand
  <2>3. item' \in [Items -> ItemStatus] /\ link' \in [Items -> 0..Tries]
    BY <2>1, <2>2, MigIsCopy DEF SetItem, TypeOK, ItemStatus
  <2>4. TypeOK'
    BY <2>1, <2>3 DEF TypeOK, Place
  <2>5. InHand'
    BY <2>1, <2>2 DEF InHand, TypeOK
  <2> QED BY <2>1, <2>4, <2>5
<1>4. CASE RereadPlan(d)
  <2>1. /\ \/ /\ pc' = [pc EXCEPT ![d] = IF Read({"failed"}) = {} THEN "complete" ELSE "failPlan"]
              /\ UNCHANGED <<todo, active>>
           \/ /\ pc' = [pc EXCEPT ![d] = "create"]
              /\ todo' = [todo EXCEPT ![d] = Read({"pending"})]
              /\ active' = [active EXCEPT ![d] = Cardinality(Read(Busy))]
        /\ UNCHANGED <<plan, item, link, mig, moved, own, cancelling, ctodo, lapsed, upsets>>
    BY <1>4 DEF RereadPlan, BeginStarting, Goto
  <2>2. Read({"pending"}) \in SUBSET Copies /\ Cardinality(Read(Busy)) \in Nat
    BY ReadCopies, ReadCount
  <2>3. TypeOK'
    BY <2>1, <2>2 DEF TypeOK, Place
  <2> QED BY <2>1, <2>3 DEF InHand, TypeOK
<1> QED BY <1>1, <1>2, <1>3, <1>4, <1>5

\* The steps that start an item, and the end of the plan.
LEMMA StartTypes ==
    ASSUME TInv, NEW d \in Drivers, StartStep(d) \/ CompletePlan(d) \/ FailPlan(d)
    PROVE  TInv'
<1> USE EvacuationAssumption DEF TInv, Settling, Starting, planVars, migVars, driverVars, cancelVars, faultVars, Smooth, Upset
<1>1. CASE LoopEnds(d)
  BY <1>1 DEF LoopEnds, Drop, Goto, TypeOK, InHand, Place
<1>2. CASE CreateMigration(d)
  <2>1. PICK x \in todo[d] :
          /\ todo' = [todo EXCEPT ![d] = @ \ {x}]
          /\ \/ \E k \in 1..Tries :
                  /\ mig' = [mig EXCEPT ![<<x[1], k>>] = "planned"]
                  /\ own' = [own EXCEPT ![d] = <<x[1], k>>]
                  /\ pc' = [pc EXCEPT ![d] = "reserve"]
                  /\ UNCHANGED <<item, link>>
             \/ /\ SetItem(<<x[1], NoMig>>, "failed")
                /\ UNCHANGED <<mig, own, pc>>
    BY <1>2 DEF CreateMigration, Goto
  <2>2. x \in Copies /\ x[1] \in Items
    BY MigIsCopy DEF TypeOK
  <2>3. /\ \A k \in 1..Tries : <<x[1], k>> \in Migs /\ <<x[1], k>> \in Copies
        /\ NoMig \in 0..Tries
    BY <2>2 DEF Migs, Copies, NoMig
  <2>7. UNCHANGED <<plan, moved, active, cancelling, ctodo, lapsed>>
    BY <1>2 DEF CreateMigration
  <2>8. upsets' = upsets \/ Upset
    BY <1>2 DEF CreateMigration
  <2>9. upsets' \in 0..MaxUpsets
    BY <2>8 DEF TypeOK
  <2>4. UNCHANGED <<plan, moved, active, cancelling, ctodo, lapsed>> /\ upsets' \in 0..MaxUpsets
    BY <2>7, <2>9
  <2>5. ASSUME NEW k \in 1..Tries,
               mig' = [mig EXCEPT ![<<x[1], k>>] = "planned"],
               own' = [own EXCEPT ![d] = <<x[1], k>>],
               pc' = [pc EXCEPT ![d] = "reserve"],
               UNCHANGED <<item, link>>
        PROVE  TInv'
    <3>1. <<x[1], k>> \in Migs /\ <<x[1], k>> \in Copies
      BY <2>3
    <3>2. TypeOK'
      BY <2>1, <2>4, <2>5, <3>1 DEF TypeOK, Place, MigStatus, Alive
    <3>3. InHand'
      BY <2>1, <2>5, <3>1 DEF InHand, TypeOK
    <3> QED BY <2>4, <3>2, <3>3
  <2>6. CASE SetItem(<<x[1], NoMig>>, "failed") /\ UNCHANGED <<mig, own, pc>>
    <3>1. item' \in [Items -> ItemStatus] /\ link' \in [Items -> 0..Tries]
      BY <2>3, <2>6 DEF SetItem, TypeOK, ItemStatus
    <3>2. TypeOK'
      BY <2>1, <2>4, <2>6, <3>1 DEF TypeOK
    <3>3. InHand'
      BY <2>1, <2>6 DEF InHand, TypeOK
    <3> QED BY <2>4, <3>2, <3>3
  <2> QED BY <2>1, <2>5, <2>6
<1>8. CASE ReserveTarget(d)
  <2>1. own[d] \in Migs
    BY <1>8 DEF ReserveTarget, InHand
  <2>2. mig' \in [Migs -> MigStatus] /\ upsets' \in 0..MaxUpsets
    BY <1>8, <2>1 DEF ReserveTarget, TypeOK, MigStatus, Alive, Holding
  <2>3. TypeOK'
    BY <1>8, <2>2 DEF ReserveTarget, Goto, TypeOK, Place
  <2>4. InHand'
    BY <1>8, <2>1 DEF ReserveTarget, Goto, TypeOK, InHand
  <2> QED BY <1>8, <2>3, <2>4 DEF ReserveTarget
<1>9. CASE DiscardMigration(d)
  <2>1. own[d] \in Migs /\ <<own[d][1], NoMig>> \in Copies
    BY <1>9, MigIsCopy DEF DiscardMigration, InHand, Copies, NoMig
  <2>2. mig' \in [Migs -> MigStatus] /\ upsets' \in 0..MaxUpsets
    BY <1>9, <2>1 DEF DiscardMigration, TypeOK, MigStatus
  <2>3. /\ own' = [own EXCEPT ![d] = <<own[d][1], NoMig>>]
        /\ pc' = [pc EXCEPT ![d] = "reject"]
        /\ UNCHANGED <<plan, item, link, moved, todo, active, cancelling, ctodo, lapsed>>
    BY <1>9 DEF DiscardMigration, Goto
  <2>4. TypeOK'
    BY <2>1, <2>2, <2>3 DEF TypeOK, Place
  <2>5. InHand'
    BY <2>1, <2>3 DEF TypeOK, InHand
  <2> QED BY <2>3, <2>4, <2>5
<1>3. CASE LinkMigration(d)
  <2>1. own[d] \in Migs /\ own[d] \in Copies
    BY <1>3, MigIsCopy DEF LinkMigration, InHand
  <2> QED BY <1>3, <2>1, MigIsCopy
          DEF LinkMigration, SetItem, Goto, TypeOK, InHand, Place, ItemStatus, Open, Busy
<1>4. CASE PrepareMigration(d) \/ RecordRun(d)
  <2>1. own[d] \in Migs /\ own[d] \in Copies
    BY <1>4, MigIsCopy DEF PrepareMigration, RecordRun, InHand
  <2>2. item' \in [Items -> ItemStatus] /\ link' \in [Items -> 0..Tries]
    BY <1>4, <2>1, MigIsCopy DEF PrepareMigration, RecordRun, SetItem, TypeOK, ItemStatus
  <2>3. mig' \in [Migs -> MigStatus] /\ lapsed' \subseteq Migs /\ upsets' \in 0..MaxUpsets
    BY <1>4, <2>1 DEF PrepareMigration, RecordRun, TypeOK, MigStatus, Alive, Holding
  <2>4. /\ \/ /\ \/ pc' = [pc EXCEPT ![d] = "record"]
                 \/ pc' = [pc EXCEPT ![d] = "mark"]
                 \/ pc' = [pc EXCEPT ![d] = "reject"]
              /\ UNCHANGED own
           \/ /\ pc' = [pc EXCEPT ![d] = "create"]
              /\ own' = [own EXCEPT ![d] = Nothing]
        /\ UNCHANGED <<plan, moved, todo, active, cancelling, ctodo>>
    BY <1>4 DEF PrepareMigration, RecordRun, NextItem, Goto
  <2>5. TypeOK'
    BY <2>2, <2>3, <2>4 DEF TypeOK, Place
  <2>6. InHand'
    BY <2>1, <2>4 DEF TypeOK, InHand
  <2> QED BY <2>4, <2>5, <2>6
<1>5. CASE MarkRunning(d)
  <2>1. own[d] \in Migs /\ own[d] \in Copies
    BY <1>5, MigIsCopy DEF MarkRunning, InHand
  <2> QED BY <1>5, <2>1, MigIsCopy
          DEF MarkRunning, NextItem, SetItem, Goto, TypeOK, InHand, Place, ItemStatus, Open, Busy
<1>6. CASE RejectItem(d)
  <2>1. own[d] \in Copies
    BY <1>6 DEF RejectItem, InHand
  <2> QED BY <1>6, <2>1, MigIsCopy
          DEF RejectItem, NextItem, SetItem, Goto, TypeOK, InHand, Place, ItemStatus
<1>7. CASE CompletePlan(d) \/ FailPlan(d)
  BY <1>7 DEF CompletePlan, FailPlan, EndPlan, Goto, TypeOK, InHand, Place, Final
<1> QED BY <1>1, <1>2, <1>3, <1>4, <1>5, <1>6, <1>7, <1>8, <1>9 DEF StartStep

\* Failing statements, drivers that end, migrations that end, reservations that run out.
LEMMA OtherTypes ==
    ASSUME TInv
    PROVE  /\ \A d \in Drivers : UpdateFails(d) \/ StatusUnread(d) \/ DriverEnds(d) => TInv'
           /\ \A m \in Migs : MigrationEnds(m) \/ LateStatus(m) \/ ReservationLapses(m) => TInv'
<1> USE EvacuationAssumption DEF TInv, Settling, Starting, planVars, migVars, driverVars, cancelVars, faultVars, Upset
<1>1. ASSUME NEW d \in Drivers, UpdateFails(d) PROVE TInv'
  BY <1>1 DEF UpdateFails, Drop, Goto, TypeOK, InHand, Place
<1>2. ASSUME NEW d \in Drivers, StatusUnread(d) PROVE TInv'
  BY <1>2 DEF StatusUnread, TypeOK, InHand
<1>3. ASSUME NEW d \in Drivers, DriverEnds(d) PROVE TInv'
  BY <1>3 DEF DriverEnds, Drop, Goto, TypeOK, InHand, Place
<1>4. ASSUME NEW m \in Migs, MigrationEnds(m) PROVE TInv'
  BY <1>4, MigIsCopy DEF MigrationEnds, TypeOK, InHand, MigStatus
<1>5. ASSUME NEW m \in Migs, ReservationLapses(m) PROVE TInv'
  BY <1>5 DEF ReservationLapses, TypeOK, InHand
<1>6. ASSUME NEW m \in Migs, LateStatus(m) PROVE TInv'
  BY <1>6 DEF LateStatus, TypeOK, InHand, MigStatus, Alive, Holding
<1> QED BY <1>1, <1>2, <1>3, <1>4, <1>5, <1>6

\* Every step keeps the types.
LEMMA StepTypes == TInv /\ [Next]_vars => TInv'
<1> SUFFICES ASSUME TInv, [Next]_vars PROVE TInv'
  OBVIOUS
<1>1. CASE UNCHANGED vars
  BY <1>1 DEF vars, planVars, migVars, driverVars, cancelVars, faultVars, TInv, TypeOK, InHand
<1>2. CASE Next
  BY <1>2, PlanTypes, ObserverTypes, StartTypes, OtherTypes DEF Next, ObserverStep, DriverStep, Drivers
<1> QED BY <1>1, <1>2

-----------------------------------------------------------------------------
(* What a step does to the migrations *)

\* A migration gets a reservation, when no other of its server has one, or keeps it, or
\* has no need of one by its status, or is known to do without; only one that ends well
\* comes to say completed, and moves its server.
LEMMA MigrationSteps ==
    ASSUME TInv, [Next]_vars
    PROVE  /\ \/ mig' = mig
              \/ \E m \in Migs, s \in MigStatus :
                    /\ mig' = [mig EXCEPT ![m] = s]
                    /\ s = "completed" => m[1] \in moved'
                    /\ s \in Holding => mig[m] \in Holding \/ Free(m[1]) \/ m \in lapsed'
           /\ lapsed \subseteq lapsed'
           /\ moved \subseteq moved'
<1> USE DEF planVars, migVars, driverVars, cancelVars, faultVars
<1> DEFINE Same == mig' = mig /\ moved' = moved /\ lapsed' = lapsed
           Change(m, s) == /\ mig' = [mig EXCEPT ![m] = s]
                           /\ s = "completed" => m[1] \in moved'
                           /\ s \in Holding => mig[m] \in Holding \/ Free(m[1]) \/ m \in lapsed'
           Good == /\ mig' = mig \/ \E m \in Migs, s \in MigStatus : Change(m, s)
                   /\ lapsed \subseteq lapsed' /\ moved \subseteq moved'
<1>0. {"planned", "reserved", "running", "failed", "stopped", "completed"} \subseteq MigStatus
  BY DEF MigStatus, Alive, Holding
<1>1. ASSUME NEW d \in Drivers, CreateMigration(d) PROVE Good
  <2>1. \A x \in todo[d] : \A k \in 1..Tries : <<x[1], k>> \in Migs
    BY MigIsCopy DEF TInv, TypeOK, Migs
  <2>2. \/ mig' = mig
        \/ \E x \in todo[d], k \in 1..Tries : mig' = [mig EXCEPT ![<<x[1], k>>] = "planned"]
    BY <1>1 DEF CreateMigration
  <2>3. moved' = moved /\ lapsed' = lapsed
    BY <1>1 DEF CreateMigration
  <2>4. "planned" \notin Holding /\ "planned" # "completed"
    BY DEF Holding
  <2> QED BY <1>0, <2>1, <2>2, <2>3, <2>4
<1>2. ASSUME NEW d \in Drivers, ReserveTarget(d) PROVE Good
  <2>1. own[d] \in Migs
    BY <1>2 DEF ReserveTarget, TInv, InHand, Starting
  <2>2. mig' = mig \/ Change(own[d], "reserved")
    BY <1>2 DEF ReserveTarget
  <2> QED BY <1>0, <1>2, <2>1, <2>2 DEF ReserveTarget
<1>3. ASSUME NEW d \in Drivers, DiscardMigration(d) PROVE Good
  <2>1. own[d] \in Migs
    BY <1>3 DEF DiscardMigration, TInv, InHand, Starting
  <2>2. mig' = mig \/ Change(own[d], "failed")
    BY <1>3 DEF DiscardMigration, Holding
  <2> QED BY <1>0, <1>3, <2>1, <2>2 DEF DiscardMigration
<1>4. ASSUME NEW d \in Drivers, RecordRun(d) PROVE Good
  <2>1. own[d] \in Migs
    BY <1>4 DEF RecordRun, TInv, InHand, Starting
  <2>2. mig' = mig \/ Change(own[d], "running")
    BY <1>4 DEF RecordRun
  <2>3. lapsed \subseteq lapsed' /\ moved' = moved
    BY <1>4 DEF RecordRun
  <2> QED BY <1>0, <2>1, <2>2, <2>3
<1>5. ASSUME CancelMigration PROVE Good
  <2>1. mig' = mig \/ \E m \in Migs : Change(m, "stopped") \/ Change(m, "failed")
    BY <1>5 DEF CancelMigration, TInv, Holding
  <2> QED BY <1>0, <1>5, <2>1 DEF CancelMigration
<1>6. ASSUME NEW m \in Migs, MigrationEnds(m) PROVE Good
  <2>1. Change(m, "completed") \/ Change(m, "stopped")
    BY <1>6 DEF MigrationEnds, Holding
  <2> QED BY <1>0, <1>6, <2>1 DEF MigrationEnds
<1>7. ASSUME NEW m \in Migs, LateStatus(m) PROVE Good
  <2>1. Change(m, "running") \/ Change(m, "stopped")
    BY <1>7 DEF LateStatus
  <2> QED BY <1>0, <1>7, <2>1 DEF LateStatus
<1>8. ASSUME NEW m \in Migs, ReservationLapses(m) PROVE Good
  BY <1>8 DEF ReservationLapses
<1>9. ASSUME NEW d \in Drivers,
             \/ LoopEnds(d) \/ LinkMigration(d) \/ PrepareMigration(d) \/ MarkRunning(d)
             \/ RejectItem(d) \/ FailPlan(d) \/ UpdateFails(d) \/ StatusUnread(d) \/ DriverEnds(d)
      PROVE  Same
  BY <1>9 DEF LoopEnds, LinkMigration, PrepareMigration, MarkRunning, RejectItem, FailPlan,
              EndPlan, UpdateFails, StatusUnread, DriverEnds
<1>10. ASSUME NEW d \in Drivers, ObserverStep(d) PROVE Same
  BY <1>10 DEF ObserverStep, StartObserver, ReadPlan, ReadOutcome, ReconcileItem, SettleItem,
               RereadPlan, CompletePlan, EndPlan
<1>11. ASSUME CreatePlan \/ StartEvacuationPlan \/ ReadClaimed \/ BeginCancel \/ CancelEvacuationPlan
       PROVE  Same
  BY <1>11 DEF CreatePlan, StartEvacuationPlan, ReadClaimed, BeginCancel, CancelEvacuationPlan
<1>12. CASE UNCHANGED vars
  BY <1>12 DEF vars
<1>13. CASE \E d \in Drivers : DriverStep(d) \/ UpdateFails(d) \/ StatusUnread(d) \/ DriverEnds(d)
  BY <1>13, <1>1, <1>2, <1>3, <1>4, <1>9 DEF DriverStep, StartStep
<1>14. CASE \E m \in Migs : MigrationEnds(m) \/ LateStatus(m) \/ ReservationLapses(m)
  BY <1>14, <1>6, <1>7, <1>8
<1>15. CASE CancelStep
  BY <1>15, <1>5, <1>11 DEF CancelStep
<1> QED BY <1>10, <1>11, <1>12, <1>13, <1>14, <1>15 DEF Next, Drivers

-----------------------------------------------------------------------------
(* A completed plan *)

\* A driver is about to write completed only when it has read so of a migration.
LEMMA ReadSteps ==
    ASSUME TInv, [Next]_vars
    PROVE  \A d \in Drivers :
               pc'[d] = "setCompleted" =>
                   \/ pc[d] = "setCompleted" /\ own'[d] = own[d]
                   \/ own'[d] \in Migs /\ mig[own'[d]] = "completed"
<1> SUFFICES ASSUME NEW d \in Drivers, pc'[d] = "setCompleted"
             PROVE  \/ pc[d] = "setCompleted" /\ own'[d] = own[d]
                    \/ own'[d] \in Migs /\ mig[own'[d]] = "completed"
  OBVIOUS
<1> USE DEF planVars, migVars, driverVars, cancelVars, faultVars, TInv, TypeOK
<1> DEFINE Kept == pc[d] = "setCompleted" /\ own'[d] = own[d]
<1>1. ASSUME NEW e \in Drivers, ReadOutcome(e)
      PROVE  Kept \/ (own'[d] \in Migs /\ mig[own'[d]] = "completed")
  <2>1. PICK x \in todo[e] :
          \/ UNCHANGED <<pc, own>>
          \/ /\ Goto(e, IF Outcome(mig[x]) = "completed" THEN "setCompleted" ELSE "setFailed")
             /\ own' = [own EXCEPT ![e] = x]
    BY <1>1 DEF ReadOutcome
  <2>2. x \in Migs
    BY <1>1 DEF ReadOutcome, InHand
  <2>3. CASE e = d /\ own' = [own EXCEPT ![e] = x]
    BY <2>1, <2>2, <2>3 DEF Goto, Outcome
  <2> QED BY <2>1, <2>3 DEF Goto
<1>2. ASSUME NEW e \in Drivers,
             ReconcileItem(e) \/ StartObserver(e) \/ ReadPlan(e) \/ RereadPlan(e) \/ CompletePlan(e) \/ FailPlan(e)
      PROVE  Kept
  BY <1>2 DEF ReconcileItem, SettleItem, StartObserver, ReadPlan, RereadPlan, BeginStarting,
              CompletePlan, FailPlan, EndPlan, Goto
<1>3. ASSUME NEW e \in Drivers, StartStep(e) PROVE Kept
  BY <1>3 DEF StartStep, LoopEnds, CreateMigration, ReserveTarget, DiscardMigration, LinkMigration,
              PrepareMigration, RecordRun, MarkRunning, RejectItem, Drop, NextItem, Goto
<1>4. ASSUME NEW e \in Drivers, UpdateFails(e) \/ StatusUnread(e) \/ DriverEnds(e) PROVE Kept
  BY <1>4 DEF UpdateFails, StatusUnread, DriverEnds, Drop, Goto
<1>5. ASSUME CreatePlan \/ StartEvacuationPlan \/ ReadClaimed \/ CancelStep PROVE Kept
  BY <1>5, EvacuationAssumption DEF CreatePlan, StartEvacuationPlan, ReadClaimed, BeginStarting,
              Goto, CancelStep, BeginCancel, CancelMigration, CancelEvacuationPlan
<1>6. ASSUME NEW m \in Migs, MigrationEnds(m) \/ LateStatus(m) \/ ReservationLapses(m) PROVE Kept
  BY <1>6 DEF MigrationEnds, LateStatus, ReservationLapses
<1> QED BY <1>1, <1>2, <1>3, <1>4, <1>5, <1>6 DEF Next, ObserverStep, DriverStep, Drivers, vars

\* An item comes to read completed only from a driver that is about to write so.
LEMMA ItemSteps ==
    ASSUME TInv, [Next]_vars
    PROVE  \A i \in Items :
               item'[i] = "completed" =>
                   \/ item[i] = "completed"
                   \/ \E d \in Drivers : pc[d] = "setCompleted" /\ own[d][1] = i
<1> SUFFICES ASSUME NEW i \in Items, item'[i] = "completed", item[i] # "completed"
             PROVE  \E d \in Drivers : pc[d] = "setCompleted" /\ own[d][1] = i
  OBVIOUS
<1> USE DEF planVars, migVars, driverVars, cancelVars, faultVars
<1>0. item' # item
  OBVIOUS
<1>a. ASSUME NEW x, NEW s, SetItem(x, s) PROVE s = "completed" /\ x[1] = i
  BY <1>a DEF SetItem, TInv, TypeOK
<1>1. ASSUME NEW d \in Drivers, ReconcileItem(d) PROVE pc[d] = "setCompleted" /\ own[d][1] = i
  BY <1>1, <1>a DEF ReconcileItem, SettleItem
<1>2. ASSUME NEW d \in Drivers,
             ReadOutcome(d) \/ ReadPlan(d) \/ StartObserver(d) \/ RereadPlan(d) \/ CompletePlan(d) \/ FailPlan(d)
      PROVE  FALSE
  BY <1>0, <1>2 DEF ReadOutcome, ReadPlan, StartObserver, RereadPlan, CompletePlan, FailPlan, EndPlan
<1>3. ASSUME NEW d \in Drivers, StartStep(d) PROVE FALSE
  <2>1. ASSUME NEW x, NEW s, SetItem(x, s), s # "completed" PROVE FALSE
    BY <1>a, <2>1
  <2>2. ASSUME CreateMigration(d) PROVE FALSE
    BY <1>0, <2>1, <2>2 DEF CreateMigration
  <2>3. ASSUME PrepareMigration(d) \/ RecordRun(d) PROVE FALSE
    BY <1>0, <2>1, <2>3 DEF PrepareMigration, RecordRun
  <2>4. ASSUME LoopEnds(d) \/ ReserveTarget(d) \/ DiscardMigration(d) PROVE FALSE
    BY <1>0, <2>4 DEF LoopEnds, ReserveTarget, DiscardMigration
  <2>5. ASSUME LinkMigration(d) \/ MarkRunning(d) \/ RejectItem(d) PROVE FALSE
    BY <2>1, <2>5 DEF LinkMigration, MarkRunning, RejectItem
  <2> QED BY <1>3, <2>2, <2>3, <2>4, <2>5 DEF StartStep
<1>4. ASSUME NEW d \in Drivers, UpdateFails(d) \/ StatusUnread(d) \/ DriverEnds(d) PROVE FALSE
  BY <1>0, <1>4 DEF UpdateFails, StatusUnread, DriverEnds
<1>5. ASSUME CreatePlan PROVE FALSE
  BY <1>5 DEF CreatePlan
<1>6. ASSUME StartEvacuationPlan \/ ReadClaimed \/ CancelStep PROVE FALSE
  BY <1>0, <1>6 DEF StartEvacuationPlan, ReadClaimed, CancelStep, BeginCancel, CancelMigration, CancelEvacuationPlan
<1>7. ASSUME NEW m \in Migs, MigrationEnds(m) \/ LateStatus(m) \/ ReservationLapses(m) PROVE FALSE
  BY <1>0, <1>7 DEF MigrationEnds, LateStatus, ReservationLapses
<1> QED BY <1>0, <1>1, <1>2, <1>3, <1>4, <1>5, <1>6, <1>7 DEF Next, ObserverStep, DriverStep, Drivers, vars

\* A driver goes on to complete the plan only when it has read every item as completed, and
\* only such a driver writes completed, or the plan of a node without servers.
LEMMA EndSteps ==
    ASSUME TInv, [Next]_vars
    PROVE  /\ \A d \in Drivers :
                 pc'[d] = "complete" =>
                     pc[d] = "complete" \/ \A i \in Items : item[i] = "completed"
           /\ plan' = "completed" =>
                 \/ plan = "completed"
                 \/ \E d \in Drivers : pc[d] = "complete"
                 \/ Items = {}
<1> USE DEF planVars, migVars, driverVars, cancelVars, faultVars, TInv, TypeOK
<1> DEFINE P == \A d \in Drivers :
                 pc'[d] = "complete" =>
                     pc[d] = "complete" \/ \A i \in Items : item[i] = "completed"
<1> DEFINE Q == plan' = "completed" =>
                 \/ plan = "completed"
                 \/ \E d \in Drivers : pc[d] = "complete"
                 \/ Items = {}
<1> SUFFICES P /\ Q
  OBVIOUS
<1>1. ASSUME NEW d \in Drivers, RereadPlan(d) PROVE P /\ Q
  <2>1. Q
    BY <1>1 DEF RereadPlan
  <2>2. CASE Read(Open) = {} /\ Read({"failed"}) = {}
    <3>1. ASSUME NEW i \in Items PROVE item[i] = "completed"
      <4>1. ASSUME NEW S, Read(S) = {}, item[i] \in S PROVE FALSE
        BY <4>1 DEF Read
      <4>2. item[i] \notin Open /\ item[i] \notin {"failed"}
        BY <2>2, <4>1
      <4> QED BY <4>2 DEF ItemStatus
    <3> QED BY <2>1, <3>1
  <2>3. CASE ~(Read(Open) = {} /\ Read({"failed"}) = {})
    BY <1>1, <2>1, <2>3 DEF RereadPlan, BeginStarting, Goto
  <2> QED BY <2>2, <2>3
<1>2. ASSUME NEW d \in Drivers, StartObserver(d) \/ ReadPlan(d) \/ ReadOutcome(d) \/ ReconcileItem(d)
      PROVE  P /\ Q
  BY <1>2 DEF StartObserver, ReadPlan, ReadOutcome, ReconcileItem, SettleItem, Goto
<1>3. ASSUME NEW d \in Drivers, CompletePlan(d) \/ FailPlan(d) PROVE P /\ Q
  BY <1>3 DEF CompletePlan, FailPlan, EndPlan, Goto
<1>4. ASSUME NEW d \in Drivers, StartStep(d) PROVE P /\ Q
  BY <1>4 DEF StartStep, LoopEnds, CreateMigration, ReserveTarget, DiscardMigration, LinkMigration,
              PrepareMigration, RecordRun, MarkRunning, RejectItem, Drop, NextItem, Goto
<1>5. ASSUME NEW d \in Drivers, UpdateFails(d) \/ StatusUnread(d) \/ DriverEnds(d) PROVE P /\ Q
  BY <1>5 DEF UpdateFails, StatusUnread, DriverEnds, Drop, Goto
<1>6. ASSUME CreatePlan PROVE P /\ Q
  BY <1>6, EvacuationAssumption DEF CreatePlan, Items
<1>7. ASSUME StartEvacuationPlan \/ ReadClaimed PROVE P /\ Q
  BY <1>7 DEF StartEvacuationPlan, ReadClaimed, BeginStarting, Goto
<1>8. ASSUME CancelStep PROVE P /\ Q
  BY <1>8 DEF CancelStep, BeginCancel, CancelMigration, CancelEvacuationPlan
<1>9. ASSUME NEW m \in Migs, MigrationEnds(m) \/ LateStatus(m) \/ ReservationLapses(m) PROVE P /\ Q
  BY <1>9 DEF MigrationEnds, LateStatus, ReservationLapses
<1>10. CASE UNCHANGED vars
  BY <1>10 DEF vars
<1> QED BY <1>1, <1>2, <1>3, <1>4, <1>5, <1>6, <1>7, <1>8, <1>9, <1>10
        DEF Next, ObserverStep, DriverStep, Drivers

\* Every step keeps what completed says true.
LEMMA StepMoved == TInv /\ MInv /\ [Next]_vars => MInv'
<1> SUFFICES ASSUME TInv, MInv, [Next]_vars PROVE MInv'
  OBVIOUS
<1> USE DEF MInv
<1>1. moved \subseteq moved' /\ moved' \subseteq Items
  BY MigrationSteps, StepTypes DEF TInv, TypeOK
<1>2. MigsTrue'
  <2> SUFFICES ASSUME NEW m \in Migs, mig'[m] = "completed" PROVE m[1] \in moved'
    BY DEF MigsTrue
  <2>1. mig[m] = "completed" \/ m[1] \in moved'
    BY MigrationSteps DEF TInv, TypeOK
  <2> QED BY <1>1, <2>1 DEF MigsTrue
<1>7. ReadTrue'
  BY <1>1, ReadSteps DEF ReadTrue, MigsTrue
<1>3. ItemsTrue'
  BY <1>1, ItemSteps DEF ItemsTrue, ReadTrue
<1>4. (\A i \in Items : item[i] = "completed") => moved = Items
  BY DEF ItemsTrue, TInv, TypeOK
<1>5. EndTrue'
  BY <1>1, <1>4, EndSteps DEF EndTrue
<1>6. CompletedMeansMoved'
  <2>1. CASE Items = {}
    BY <1>1, <2>1 DEF CompletedMeansMoved
  <2> QED BY <1>1, <2>1, EndSteps DEF CompletedMeansMoved, EndTrue
<1> QED BY <1>2, <1>3, <1>5, <1>6, <1>7

\* Every step keeps one reservation of a server at a time.
LEMMA StepOne == TInv /\ OneReservation /\ [Next]_vars => OneReservation'
<1> SUFFICES ASSUME TInv, OneReservation, [Next]_vars PROVE OneReservation'
  OBVIOUS
<1>0. \A i \in Items, k \in 1..Tries : <<i, k>> \in Migs
  BY DEF Migs
<1>1. lapsed \subseteq lapsed'
  BY MigrationSteps
<1>2. CASE mig' = mig
  BY <1>1, <1>2 DEF OneReservation
<1>3. ASSUME NEW m \in Migs, NEW s \in MigStatus, mig' = [mig EXCEPT ![m] = s],
             s \in Holding => mig[m] \in Holding \/ Free(m[1]) \/ m \in lapsed'
      PROVE  OneReservation'
  <2>1. \A x \in Migs : x # m => mig'[x] = mig[x]
    BY <1>3 DEF TInv, TypeOK
  <2>2. mig'[m] = s
    BY <1>3 DEF TInv, TypeOK
  <2>3. CASE s \notin Holding \/ mig[m] \in Holding \/ m \in lapsed'
    <3>1. \A x \in Migs : mig'[x] \in Holding => mig[x] \in Holding \/ x \in lapsed'
      BY <2>1, <2>2, <2>3
    <3> QED BY <1>0, <1>1, <3>1 DEF OneReservation
  <2>4. CASE Free(m[1])
    <3>1. m[1] \in Items /\ m[2] \in 1..Tries /\ m = <<m[1], m[2]>>
      BY DEF Migs
    <3>2. \A k \in 1..Tries : k # m[2] /\ mig'[<<m[1], k>>] \in Holding => <<m[1], k>> \in lapsed'
      BY <1>0, <1>1, <2>1, <2>4, <3>1 DEF Free
    <3>3. \A i \in Items, k \in 1..Tries : i # m[1] => mig'[<<i, k>>] = mig[<<i, k>>]
      BY <1>0, <2>1, <3>1
    <3> SUFFICES ASSUME NEW i \in Items, NEW j \in 1..Tries, NEW k \in 1..Tries,
                        mig'[<<i, j>>] \in Holding, mig'[<<i, k>>] \in Holding, j # k
                 PROVE  <<i, j>> \in lapsed' \/ <<i, k>> \in lapsed'
      BY DEF OneReservation
    <3>4. CASE i = m[1]
      BY <3>2, <3>4
    <3>5. CASE i # m[1]
      BY <1>1, <3>3, <3>5 DEF OneReservation
    <3> QED BY <3>4, <3>5
  <2> QED BY <1>3, <2>3, <2>4
<1> QED BY <1>2, <1>3, MigrationSteps

-----------------------------------------------------------------------------
\* Types and the migrations in the drivers' hands, of every reachable state.
THEOREM TypesHold == Spec => []TInv
<1> QED BY InitInv, StepTypes, PTL DEF Spec

\* Plan, items and drivers keep their types; whatever a driver carries on names a
\* migration.
THEOREM TypeCorrect == Spec => []TypeOK
<1>1. TInv => TypeOK
  BY DEF TInv
<1> QED BY <1>1, TypesHold, PTL

\* A plan says completed only when every server of the node has been moved, for any
\* number of servers, slots and observers, cancels, failing statements and drivers that
\* end half way.
THEOREM CompletedPlansMoved == Spec => []CompletedMeansMoved
<1>1. MInv => CompletedMeansMoved
  BY DEF MInv
<1> QED BY <1>1, InitInv, StepMoved, TypesHold, PTL DEF Spec

\* Two migrations of a server run at a time only if one of them went on without its
\* reservation, however many drivers start items from old copies of the plan and wherever
\* they end.
THEOREM MigrationsAreSingle == Spec => []OneMigration
<1>1. OneReservation => OneMigration
  BY DEF OneReservation, OneMigration, Holding
<1> QED BY <1>1, InitInv, StepOne, TypesHold, PTL DEF Spec
=============================================================================
