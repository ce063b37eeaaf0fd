--------------------------- MODULE RecoveryProofs ---------------------------
(***************************************************************************)
(* Proofs about Recovery, for any sets of nodes, servers, plans and calls: *)
(* type correctness, the capacity that reservations keep (CapacityKept,    *)
(* ReservedOnce) and where a server is recorded (NeverHomeless,            *)
(* AwaitingMeansMoved).                                                    *)
(***************************************************************************)
EXTENDS Recovery, FiniteSetTheorems, TLAPS

\* The tuples that UNCHANGED names are always expanded.
USE DEF planVars, reservationVars, ownerVars, historyVars

-----------------------------------------------------------------------------
(* What the assignments to the records of the calls do *)

LEMMA SetPlanner ==
  ASSUME planner \in [Plans -> PlannerRec], NEW p \in Plans, NEW r \in PlannerRec,
         planner' = [planner EXCEPT ![p] = r]
  PROVE  /\ planner' \in [Plans -> PlannerRec]
         /\ planner'[p] = r
         /\ \A q \in Plans : q # p => planner'[q] = planner[q]
  OBVIOUS

LEMMA PlannerPc ==
  ASSUME NEW r \in PlannerRec, NEW c
  PROVE  [r EXCEPT !.pc = c] = [pc |-> c, todo |-> r.todo, cur |-> r.cur]
  BY DEF PlannerRec

LEMMA StepSets ==
  ASSUME planner \in [Plans -> PlannerRec], NEW p \in Plans, Step(p, "item")
  PROVE  /\ planner' \in [Plans -> PlannerRec]
         /\ planner'[p] = [pc |-> "item", todo |-> planner[p].todo, cur |-> planner[p].cur]
         /\ \A q \in Plans : q # p => planner'[q] = planner[q]
  <1> DEFINE r == [pc |-> "item", todo |-> planner[p].todo, cur |-> planner[p].cur]
  <1>1. r \in PlannerRec  BY DEF PlannerRec
  <1>2. planner' = [planner EXCEPT ![p] = r]  BY PlannerPc DEF Step
  <1> QED  BY <1>1, <1>2, SetPlanner

LEMMA PlannedSets ==
  ASSUME planner \in [Plans -> PlannerRec], NEW p \in Plans, NEW s, Planned(p, s)
  PROVE  /\ planner' \in [Plans -> PlannerRec]
         /\ planner'[p] = [pc |-> "pick", todo |-> planner[p].todo \ {s}, cur |-> None]
         /\ \A q \in Plans : q # p => planner'[q] = planner[q]
  <1> DEFINE r == [pc |-> "pick", todo |-> planner[p].todo \ {s}, cur |-> None]
  <1>1. r \in PlannerRec  BY DEF PlannerRec
  <1>2. planner' = [planner EXCEPT ![p] = r]  BY DEF Planned
  <1> QED  BY <1>1, <1>2, SetPlanner

LEMMA EndedSets ==
  ASSUME planner \in [Plans -> PlannerRec], NEW p \in Plans, Ended(p)
  PROVE  /\ planner' \in [Plans -> PlannerRec]
         /\ planner'[p] = [pc |-> "done", todo |-> {}, cur |-> None]
         /\ \A q \in Plans : q # p => planner'[q] = planner[q]
  <1> DEFINE r == [pc |-> "done", todo |-> {}, cur |-> None]
  <1>1. r \in PlannerRec  BY DEF PlannerRec
  <1>2. planner' = [planner EXCEPT ![p] = r]  BY DEF Ended
  <1> QED  BY <1>1, <1>2, SetPlanner

LEMMA SetExec ==
  ASSUME exec \in [Execs -> ExecRec], NEW e \in Execs, NEW r \in ExecRec,
         exec' = [exec EXCEPT ![e] = r]
  PROVE  /\ exec' \in [Execs -> ExecRec]
         /\ exec'[e] = r
         /\ \A d \in Execs : d # e => exec'[d] = exec[d]
  OBVIOUS

LEMMA ExecForms ==
  ASSUME NEW r \in ExecRec, NEW c, NEW t
  PROVE  /\ [r EXCEPT !.pc = c] = [pc |-> c, plan |-> r.plan, todo |-> r.todo, cur |-> r.cur]
         /\ [r EXCEPT !.todo = t] = [pc |-> r.pc, plan |-> r.plan, todo |-> t, cur |-> r.cur]
  BY DEF ExecRec

LEMMA AtSets ==
  ASSUME exec \in [Execs -> ExecRec], NEW e \in Execs, At(e, "mark")
  PROVE  /\ exec' \in [Execs -> ExecRec]
         /\ exec'[e] = [pc |-> "mark", plan |-> exec[e].plan, todo |-> exec[e].todo,
                        cur |-> exec[e].cur]
         /\ \A d \in Execs : d # e => exec'[d] = exec[d]
  <1> DEFINE r == [pc |-> "mark", plan |-> exec[e].plan, todo |-> exec[e].todo, cur |-> exec[e].cur]
  <1>1. r \in ExecRec  BY DEF ExecRec
  <1>2. exec' = [exec EXCEPT ![e] = r]  BY ExecForms DEF At
  <1> QED  BY <1>1, <1>2, SetExec

LEMMA ReturnedSets ==
  ASSUME exec \in [Execs -> ExecRec], NEW e \in Execs, Returned(e)
  PROVE  /\ exec' \in [Execs -> ExecRec]
         /\ exec'[e] = [pc |-> "next", plan |-> exec[e].plan,
                        todo |-> exec[e].todo \ {exec[e].cur}, cur |-> None]
         /\ \A d \in Execs : d # e => exec'[d] = exec[d]
  <1> DEFINE r == [pc |-> "next", plan |-> exec[e].plan, todo |-> exec[e].todo \ {exec[e].cur},
                   cur |-> None]
  <1>1. r \in ExecRec  BY DEF ExecRec
  <1>2. exec' = [exec EXCEPT ![e] = r]  BY DEF Returned
  <1> QED  BY <1>1, <1>2, SetExec

LEMMA OverSets ==
  ASSUME exec \in [Execs -> ExecRec], NEW e \in Execs, Over(e)
  PROVE  /\ exec' \in [Execs -> ExecRec]
         /\ exec'[e] = [pc |-> "done", plan |-> None, todo |-> {}, cur |-> None]
         /\ \A d \in Execs : d # e => exec'[d] = exec[d]
  <1> DEFINE r == [pc |-> "done", plan |-> None, todo |-> {}, cur |-> None]
  <1>1. r \in ExecRec  BY DEF ExecRec
  <1>2. exec' = [exec EXCEPT ![e] = r]  BY DEF Over
  <1> QED  BY <1>1, <1>2, SetExec

-----------------------------------------------------------------------------
(* Type correctness *)

\* A server that a plan is still to work on has no item in it yet.
Fresh ==
    \A p \in Plans, s \in Servers :
        planner[p].pc = "idle" \/ s \in planner[p].todo => item[<<p, s>>] = "none"

\* planServer is between the check of the reservation and the item.
Placing ==
    \A p \in Plans : planner[p].pc \in {"insert", "item"} =>
        /\ planner[p].cur \in planner[p].todo
        /\ target[<<p, planner[p].cur>>] \in Targets

\* An item that is to be executed, or was, names its target.
Placed ==
    \A p \in Plans, s \in Servers :
        item[<<p, s>>] \in {"planned", "executing", "awaiting"} => target[<<p, s>>] \in Targets

\* A call of ExecutePlan works on items of its plan that name their target.
ExecOK(r) ==
    /\ r.pc \notin {"idle", "done"} => r.plan \in Plans
    /\ r.pc \in {"idle", "done"} => r.todo = {}
    /\ r.pc \in {"complete", "rollback", "mark"} => r.cur \in r.todo
    /\ \A s \in r.todo : item[<<r.plan, s>>] # "none" /\ target[<<r.plan, s>>] \in Targets
Executable == \A e \in Execs : ExecOK(exec[e])

TInv == TypeOK /\ Fresh /\ Placing /\ Placed /\ Executable

\* The current server of a call, and the row it works on.
LEMMA Current ==
  ASSUME TInv
  PROVE  /\ \A p \in Plans : planner[p].pc \in {"insert", "item"} =>
               /\ planner[p].cur \in planner[p].todo
               /\ planner[p].cur \in Servers
               /\ target[<<p, planner[p].cur>>] \in Targets
         /\ \A e \in Execs : exec[e].pc \in {"complete", "rollback", "mark"} =>
               /\ exec[e].plan \in Plans
               /\ exec[e].cur \in exec[e].todo
               /\ exec[e].cur \in Servers
         /\ \A e \in Execs : \A s \in exec[e].todo :
               /\ exec[e].plan \in Plans /\ s \in Servers
               /\ item[<<exec[e].plan, s>>] # "none"
               /\ target[<<exec[e].plan, s>>] \in Targets
  BY DEF TInv, TypeOK, Placing, Executable, ExecOK, PlannerRec, ExecRec

LEMMA TInvInit == Init => TInv
  <1> SUFFICES ASSUME Init PROVE TInv
    OBVIOUS
  <1> USE DEF Init
  <1>1. planner \in [Plans -> PlannerRec]  BY DEF PlannerRec
  <1>2. exec \in [Execs -> ExecRec]  BY DEF ExecRec
  <1>a. plan \in [Plans -> PlanStatus] /\ item \in [Plans \X Servers -> ItemStatus]
    BY DEF ItemStatus, PlanStatus
  <1>b. target \in [Plans \X Servers -> Targets \cup {None}]
        /\ lock \in [Targets -> Plans \cup {None}]
    OBVIOUS
  <1>c. home \in [Servers -> Targets \cup Sources]  BY RecoveryAssumption
  <1>d. stops \in 0..MaxStops  BY RecoveryAssumption
  <1>3. TypeOK  BY <1>1, <1>2, <1>a, <1>b, <1>c, <1>d DEF TypeOK
  <1>4. Fresh /\ Placing /\ Placed /\ Executable  BY DEF Fresh, Placing, Placed, Executable, ExecOK
  <1> QED  BY <1>3, <1>4 DEF TInv

\* Executable survives when items stay items, targets stay and one call moves on.
LEMMA ExecutableStep ==
  ASSUME TInv,
         \A p \in Plans, s \in Servers :
             item[<<p, s>>] # "none" /\ target[<<p, s>>] \in Targets
               => item'[<<p, s>>] # "none" /\ target'[<<p, s>>] \in Targets,
         NEW e \in Execs,
         \A d \in Execs : d # e => exec'[d] = exec[d],
         ExecOK(exec[e])'
  PROVE  Executable'
  <1> SUFFICES ASSUME NEW d \in Execs, d # e PROVE ExecOK(exec[d])'
    BY DEF Executable
  <1>1. ExecOK(exec[d]) /\ exec'[d] = exec[d]  BY DEF TInv, Executable
  <1> QED  BY <1>1, Current DEF ExecOK

\* The same with no call of ExecutePlan moving.
LEMMA ExecutableStays ==
  ASSUME TInv,
         \A p \in Plans, s \in Servers :
             item[<<p, s>>] # "none" /\ target[<<p, s>>] \in Targets
               => item'[<<p, s>>] # "none" /\ target'[<<p, s>>] \in Targets,
         exec' = exec
  PROVE  Executable'
  <1> SUFFICES ASSUME NEW d \in Execs PROVE ExecOK(exec[d])'
    BY DEF Executable
  <1>1. ExecOK(exec[d]) /\ exec'[d] = exec[d]  BY DEF TInv, Executable
  <1> QED  BY <1>1, Current DEF ExecOK

LEMMA TCreatePlan ==
  ASSUME TInv, NEW p \in Plans, CreatePlan(p) PROVE TInv'
  <1> USE DEF CreatePlan
  <1> DEFINE r == [pc |-> "pick", todo |-> Housed(NodeOf[p]), cur |-> None]
  <1>1. r \in PlannerRec  BY DEF PlannerRec, Housed
  <1>2. planner' \in [Plans -> PlannerRec] /\ planner'[p] = r
        /\ \A q \in Plans : q # p => planner'[q] = planner[q]
    BY <1>1, SetPlanner DEF TInv, TypeOK
  <1>3. TypeOK'  BY <1>2 DEF TInv, TypeOK, PlanStatus
  <1>4. Fresh' /\ Placing' /\ Placed'  BY <1>2 DEF TInv, Fresh, Placing, Placed
  <1>5. Executable'  BY ExecutableStays
  <1> QED  BY <1>3, <1>4, <1>5 DEF TInv

LEMMA TSkipServer ==
  ASSUME TInv, NEW p \in Plans, NEW s \in Servers, SkipServer(p, s) PROVE TInv'
  <1> USE DEF SkipServer
  <1>1. PICK status \in {"dropped", "failed"} : SetItem(p, s, status)
    OBVIOUS
  <1>2. /\ item' \in [Plans \X Servers -> ItemStatus]
        /\ item'[<<p, s>>] = status
        /\ \A q \in Plans, t \in Servers : <<q, t>> # <<p, s>> => item'[<<q, t>>] = item[<<q, t>>]
    BY <1>1 DEF SetItem, TInv, TypeOK, ItemStatus
  <1>3. /\ planner' \in [Plans -> PlannerRec]
        /\ planner'[p] = [pc |-> "pick", todo |-> planner[p].todo \ {s}, cur |-> None]
        /\ \A q \in Plans : q # p => planner'[q] = planner[q]
    BY PlannedSets DEF TInv, TypeOK
  <1>4. TypeOK'  BY <1>2, <1>3 DEF TInv, TypeOK
  <1>a. Fresh'  BY <1>2, <1>3 DEF TInv, Fresh
  <1>b. Placing'  BY <1>2, <1>3 DEF TInv, Placing
  <1>c. Placed'  BY <1>2, <1>3 DEF TInv, Placed
  <1>6. Executable'  BY <1>2, ExecutableStays
  <1> QED  BY <1>4, <1>a, <1>b, <1>c, <1>6 DEF TInv

\* target changes only in rows that have no item.
LEMMA TCheckReservation ==
  ASSUME TInv, NEW p \in Plans, NEW s \in Servers, NEW n \in Targets, CheckReservation(p, s, n)
  PROVE TInv'
  <1> USE DEF CheckReservation
  <1>0. item[<<p, s>>] = "none"  BY DEF TInv, Fresh
  <1>1. CASE Admits(n, s)
    <2> DEFINE r == [pc |-> "insert", todo |-> planner[p].todo, cur |-> s]
    <2>1. r \in PlannerRec  BY DEF TInv, TypeOK, PlannerRec
    <2>2. planner' \in [Plans -> PlannerRec] /\ planner'[p] = r
          /\ \A q \in Plans : q # p => planner'[q] = planner[q]
      BY <1>1, <2>1, SetPlanner DEF TInv, TypeOK
    <2>3. /\ target' \in [Plans \X Servers -> Targets \cup {None}]
          /\ target'[<<p, s>>] = n
          /\ \A q \in Plans, t \in Servers : <<q, t>> # <<p, s>> => target'[<<q, t>>] = target[<<q, t>>]
      <3> HIDE DEF CheckReservation
      <3>1. target \in [Plans \X Servers -> Targets \cup {None}]
        BY DEF TInv, TypeOK
      <3>2. target' = [target EXCEPT ![<<p, s>>] = n]
        BY <1>1 DEF CheckReservation
      <3> QED  BY <3>1, <3>2
    <2>4. TypeOK'  BY <1>1, <2>2, <2>3 DEF TInv, TypeOK
    <2>5. Fresh' /\ Placed'  BY <1>1, <2>2, <2>3 DEF TInv, Fresh, Placed
    <2>6. Placing'  BY <1>1, <2>2, <2>3, Current DEF TInv, Placing
    <2>7. Executable'  BY <1>0, <1>1, <2>3, ExecutableStays
    <2> QED  BY <2>4, <2>5, <2>6, <2>7 DEF TInv
  <1>2. CASE ~Admits(n, s)
    <2>1. /\ planner' \in [Plans -> PlannerRec]
          /\ planner'[p] = [pc |-> "pick", todo |-> planner[p].todo \ {s}, cur |-> None]
          /\ \A q \in Plans : q # p => planner'[q] = planner[q]
      BY <1>2, PlannedSets DEF TInv, TypeOK
    <2>2. /\ item' \in [Plans \X Servers -> ItemStatus]
          /\ item'[<<p, s>>] = "failed"
          /\ \A q \in Plans, t \in Servers : <<q, t>> # <<p, s>> => item'[<<q, t>>] = item[<<q, t>>]
      BY <1>2 DEF SetItem, TInv, TypeOK, ItemStatus
    <2>3. TypeOK'  BY <1>2, <2>1, <2>2 DEF TInv, TypeOK
    <2>4. Fresh' /\ Placing' /\ Placed'  BY <1>2, <2>1, <2>2 DEF TInv, Fresh, Placing, Placed
    <2>5. Executable'  BY <1>2, <2>2, ExecutableStays
    <2> QED  BY <2>3, <2>4, <2>5 DEF TInv
  <1> QED  BY <1>1, <1>2

\* planServer gives a server up.
LEMMA TUnplanned ==
  ASSUME TInv, NEW p \in Plans, NEW status \in {"none", "failed"},
         planner[p].pc \in {"insert", "item"}, Unplanned(p, planner[p].cur, status), exec' = exec
  PROVE  /\ item' \in [Plans \X Servers -> ItemStatus]
         /\ target' \in [Plans \X Servers -> Targets \cup {None}]
         /\ planner' \in [Plans -> PlannerRec]
         /\ Fresh' /\ Placing' /\ Placed' /\ Executable'
  <1> DEFINE s == planner[p].cur
  <1>0. s \in planner[p].todo /\ s \in Servers  BY Current
  <1>a. item[<<p, s>>] = "none"  BY <1>0 DEF TInv, Fresh
  <1>1. /\ planner' \in [Plans -> PlannerRec]
        /\ planner'[p] = [pc |-> "pick", todo |-> planner[p].todo \ {s}, cur |-> None]
        /\ \A q \in Plans : q # p => planner'[q] = planner[q]
    BY PlannedSets DEF Unplanned, TInv, TypeOK
  <1>2. /\ item' \in [Plans \X Servers -> ItemStatus]
        /\ item'[<<p, s>>] = status
        /\ \A q \in Plans, t \in Servers : <<q, t>> # <<p, s>> => item'[<<q, t>>] = item[<<q, t>>]
    BY <1>0 DEF Unplanned, SetItem, TInv, TypeOK, ItemStatus
  <1>3. /\ target' \in [Plans \X Servers -> Targets \cup {None}]
        /\ target'[<<p, s>>] = None
        /\ \A q \in Plans, t \in Servers : <<q, t>> # <<p, s>> => target'[<<q, t>>] = target[<<q, t>>]
    BY <1>0 DEF Unplanned, TInv, TypeOK
  <1>4. Fresh'  BY <1>0, <1>1, <1>2 DEF TInv, Fresh
  <1>b. Placed'  BY <1>0, <1>2, <1>3 DEF TInv, Placed
  <1>5. Placing'  BY <1>1, <1>3, Current DEF Placing
  <1>6. Executable'  BY <1>a, <1>2, <1>3, ExecutableStays
  <1> QED  BY <1>1, <1>2, <1>3, <1>4, <1>b, <1>5, <1>6

LEMMA TInsertReservation ==
  ASSUME TInv, NEW p \in Plans, InsertReservation(p) PROVE TInv'
  <1> USE DEF InsertReservation
  <1> DEFINE s == planner[p].cur
  <1>0. s \in planner[p].todo /\ s \in Servers /\ target[<<p, s>>] \in Targets  BY Current
  <1>a. lock' \in [Targets -> Plans \cup {None}]  BY <1>0 DEF TInv, TypeOK
  <1>1. CASE live' = live \cup {<<p, s>>} /\ Step(p, "item") /\ UNCHANGED <<item, target>>
    <2>1. /\ planner' \in [Plans -> PlannerRec]
          /\ planner'[p] = [pc |-> "item", todo |-> planner[p].todo, cur |-> s]
          /\ \A q \in Plans : q # p => planner'[q] = planner[q]
      BY <1>1, StepSets DEF TInv, TypeOK
    <2>2. TypeOK'  BY <1>0, <1>a, <1>1, <2>1 DEF TInv, TypeOK
    <2>3. Fresh' /\ Placing' /\ Placed'  BY <1>0, <1>1, <2>1 DEF TInv, Fresh, Placing, Placed
    <2>4. Executable'  BY <1>1, ExecutableStays
    <2> QED  BY <2>2, <2>3, <2>4 DEF TInv
  <1>2. CASE Unplanned(p, s, "failed") /\ UNCHANGED live
    <2>1. TypeOK'  BY <1>a, <1>2, TUnplanned DEF TInv, TypeOK
    <2> QED  BY <1>2, <2>1, TUnplanned DEF TInv
  <1> QED  BY <1>1, <1>2

LEMMA TCreateRecoveryItem ==
  ASSUME TInv, NEW p \in Plans, CreateRecoveryItem(p) PROVE TInv'
  <1> USE DEF CreateRecoveryItem
  <1> DEFINE s == planner[p].cur
  <1>0. s \in planner[p].todo /\ s \in Servers /\ target[<<p, s>>] \in Targets  BY Current
  <1>1. CASE SetItem(p, s, "planned") /\ Planned(p, s) /\ UNCHANGED <<live, target>>
    <2>1. /\ planner' \in [Plans -> PlannerRec]
          /\ planner'[p] = [pc |-> "pick", todo |-> planner[p].todo \ {s}, cur |-> None]
          /\ \A q \in Plans : q # p => planner'[q] = planner[q]
      BY <1>1, PlannedSets DEF TInv, TypeOK
    <2>2. /\ item' \in [Plans \X Servers -> ItemStatus]
          /\ item'[<<p, s>>] = "planned"
          /\ \A q \in Plans, t \in Servers : <<q, t>> # <<p, s>> => item'[<<q, t>>] = item[<<q, t>>]
      BY <1>0, <1>1 DEF SetItem, TInv, TypeOK, ItemStatus
    <2>3. TypeOK'  BY <1>1, <2>1, <2>2 DEF TInv, TypeOK
    <2>4. Fresh' /\ Placing' /\ Placed'  BY <1>0, <1>1, <2>1, <2>2 DEF TInv, Fresh, Placing, Placed
    <2>5. Executable'  BY <1>1, <2>2, ExecutableStays
    <2> QED  BY <2>3, <2>4, <2>5 DEF TInv
  <1>2. CASE /\ Release({<<p, s>>})
             /\ \E status \in {"none", "failed"} : Unplanned(p, s, status)
    <2>1. live' \subseteq Plans \X Servers  BY <1>2 DEF Release, TInv, TypeOK
    <2>2. /\ item' \in [Plans \X Servers -> ItemStatus]
          /\ target' \in [Plans \X Servers -> Targets \cup {None}]
          /\ planner' \in [Plans -> PlannerRec]
          /\ Fresh' /\ Placing' /\ Placed' /\ Executable'
      BY <1>2, TUnplanned
    <2>3. TypeOK'  BY <2>1, <2>2 DEF TInv, TypeOK
    <2> QED  BY <2>2, <2>3 DEF TInv
  <1> QED  BY <1>1, <1>2

\* CreatePlan returns.
LEMMA TEnded ==
  ASSUME TInv, NEW p \in Plans, planner[p].pc # "idle", Ended(p), UNCHANGED <<item, target, exec>>
  PROVE  planner' \in [Plans -> PlannerRec] /\ Fresh' /\ Placing' /\ Placed' /\ Executable'
  <1>1. /\ planner' \in [Plans -> PlannerRec]
        /\ planner'[p] = [pc |-> "done", todo |-> {}, cur |-> None]
        /\ \A q \in Plans : q # p => planner'[q] = planner[q]
    BY EndedSets DEF TInv, TypeOK
  <1>2. Fresh' /\ Placing' /\ Placed'  BY <1>1 DEF TInv, Fresh, Placing, Placed
  <1>3. Executable'  BY ExecutableStays
  <1> QED  BY <1>1, <1>2, <1>3

LEMMA TFinishPlanning ==
  ASSUME TInv, NEW p \in Plans, FinishPlanning(p) PROVE TInv'
  <1> USE DEF FinishPlanning
  <1>1. planner' \in [Plans -> PlannerRec] /\ Fresh' /\ Placing' /\ Placed' /\ Executable'
    BY TEnded
  <1>2. plan' \in [Plans -> PlanStatus] /\ closing' \subseteq Plans
    BY DEF CallFailPlan, TInv, TypeOK, PlanStatus
  <1>3. TypeOK'  BY <1>1, <1>2 DEF TInv, TypeOK
  <1> QED  BY <1>1, <1>3 DEF TInv

LEMMA TAbandonPlanning ==
  ASSUME TInv, NEW p \in Plans, AbandonPlanning(p) PROVE TInv'
  <1> USE DEF AbandonPlanning
  <1>1. planner' \in [Plans -> PlannerRec] /\ Fresh' /\ Placing' /\ Placed' /\ Executable'
    BY TEnded
  <1>2. lock' \in [Targets -> Plans \cup {None}]  BY DEF TInv, TypeOK
  <1>3. stops' \in 0..MaxStops  BY RecoveryAssumption DEF Stops, TInv, TypeOK
  <1>4. TypeOK'  BY <1>1, <1>2, <1>3 DEF TInv, TypeOK
  <1> QED  BY <1>1, <1>4 DEF TInv

\* What closing a plan does to its items.
LEMMA TClose ==
  ASSUME TInv, NEW p \in Plans, NEW status \in {"failed", "dropped"}, NEW released,
         Close(p, status, released), UNCHANGED <<target, planner, exec>>
  PROVE  /\ live' \subseteq live
         /\ plan' \in [Plans -> PlanStatus]
         /\ item' \in [Plans \X Servers -> ItemStatus]
         /\ Fresh' /\ Placing' /\ Placed' /\ Executable'
  <1> USE DEF Close, Release, Mark
  <1>1. live' \subseteq live /\ plan' \in [Plans -> PlanStatus]
    BY DEF TInv, TypeOK, PlanStatus
  <1>2. item' \in [Plans \X Servers -> ItemStatus]  BY DEF TInv, TypeOK, ItemStatus
  <1>3. \A q \in Plans, s \in Servers :
          \/ item'[<<q, s>>] = item[<<q, s>>]
          \/ item[<<q, s>>] \in {"planned", "executing"} /\ item'[<<q, s>>] = status
    BY DEF Rows, TInv, TypeOK
  <1>4. Fresh' /\ Placing'  BY <1>3 DEF TInv, Fresh, Placing
  <1>5. Placed'  BY <1>3 DEF TInv, Placed
  <1>6. Executable'  BY <1>3, ExecutableStays
  <1> QED  BY <1>1, <1>2, <1>4, <1>5, <1>6

LEMMA TFailPlan ==
  ASSUME TInv, NEW p \in Plans, FailPlan(p) PROVE TInv'
  <1>1. Close(p, "failed", ItemStatus \ {"none", "failed"}) /\ UNCHANGED <<target, planner, exec>>
    BY DEF FailPlan
  <1>2. /\ live' \subseteq live
        /\ plan' \in [Plans -> PlanStatus]
        /\ item' \in [Plans \X Servers -> ItemStatus]
        /\ Fresh' /\ Placing' /\ Placed' /\ Executable'
    BY <1>1, TClose
  <1>3. TypeOK'  BY <1>2 DEF FailPlan, TInv, TypeOK
  <1> QED  BY <1>2, <1>3 DEF TInv

LEMMA TCancelPlan ==
  ASSUME TInv, NEW p \in Plans, CancelPlan(p) PROVE TInv'
  <1>1. Close(p, "dropped", ItemStatus \ {"none"}) /\ UNCHANGED <<target, planner, exec>>
    BY DEF CancelPlan
  <1>2. /\ live' \subseteq live
        /\ plan' \in [Plans -> PlanStatus]
        /\ item' \in [Plans \X Servers -> ItemStatus]
        /\ Fresh' /\ Placing' /\ Placed' /\ Executable'
    BY <1>1, TClose
  <1>3. stops' \in 0..MaxStops  BY RecoveryAssumption DEF CancelPlan, Stops, TInv, TypeOK
  <1>4. TypeOK'  BY <1>2, <1>3 DEF CancelPlan, TInv, TypeOK
  <1> QED  BY <1>2, <1>4 DEF TInv

LEMMA TReconcilePlan ==
  ASSUME TInv, NEW p \in Plans, NEW s \in Servers, ReconcilePlan(p, s) PROVE TInv'
  <1> USE DEF ReconcilePlan
  <1>1. /\ item' \in [Plans \X Servers -> ItemStatus]
        /\ item'[<<p, s>>] = "failed"
        /\ \A q \in Plans, t \in Servers : <<q, t>> # <<p, s>> => item'[<<q, t>>] = item[<<q, t>>]
    BY DEF SetItem, TInv, TypeOK, ItemStatus
  <1>2. TypeOK'  BY <1>1 DEF Release, CallFailPlan, TInv, TypeOK
  <1>3. Fresh' /\ Placing' /\ Placed'  BY <1>1 DEF TInv, Fresh, Placing, Placed
  <1>4. Executable'  BY <1>1, ExecutableStays
  <1> QED  BY <1>2, <1>3, <1>4 DEF TInv

LEMMA TAbandonClosing ==
  ASSUME TInv, NEW p \in Plans, AbandonClosing(p) PROVE TInv'
  <1> USE DEF AbandonClosing
  <1>1. stops' \in 0..MaxStops  BY RecoveryAssumption DEF Stops, TInv, TypeOK
  <1>2. TypeOK'  BY <1>1 DEF TInv, TypeOK
  <1>3. Fresh' /\ Placing' /\ Placed'  BY DEF TInv, Fresh, Placing, Placed
  <1>4. Executable'  BY ExecutableStays
  <1> QED  BY <1>2, <1>3, <1>4 DEF TInv

LEMMA TExpire ==
  ASSUME TInv, NEW x \in live, Expire(x) PROVE TInv'
  <1> USE DEF Expire
  <1>1. TypeOK'  BY DEF Release, TInv, TypeOK
  <1>2. Fresh' /\ Placing' /\ Placed'  BY DEF TInv, Fresh, Placing, Placed
  <1>3. Executable'  BY ExecutableStays
  <1> QED  BY <1>1, <1>2, <1>3 DEF TInv

-----------------------------------------------------------------------------
LEMMA TStartPlan ==
  ASSUME TInv, NEW e \in Execs, NEW p \in Plans, StartPlan(e, p) PROVE TInv'
  <1> USE DEF StartPlan
  <1>1. item' \in [Plans \X Servers -> ItemStatus]  BY DEF TInv, TypeOK, ItemStatus
  <1>2. plan' \in [Plans -> PlanStatus]  BY DEF TInv, TypeOK, PlanStatus
  <1>3. \A q \in Plans, s \in Servers :
          \/ item'[<<q, s>>] = item[<<q, s>>]
          \/ item[<<q, s>>] = "planned" /\ item'[<<q, s>>] = "executing"
    BY DEF Rows, TInv, TypeOK
  <1>4. Fresh' /\ Placing' /\ Placed'  BY <1>3 DEF TInv, Fresh, Placing, Placed
  <1>5. exec' \in [Execs -> ExecRec] /\ ExecOK(exec[e])'
        /\ \A d \in Execs : d # e => exec'[d] = exec[d]
    <2>1. CASE Over(e)  BY <2>1, OverSets DEF ExecOK, TInv, TypeOK
    <2>2. CASE ~Over(e)
      <3> DEFINE todo == {s \in Servers : item'[<<p, s>>] = "executing"}
                 r == [pc |-> "next", plan |-> p, cur |-> None, todo |-> todo]
      <3>1. r \in ExecRec  BY DEF ExecRec
      <3>2. exec' = [exec EXCEPT ![e] = r]  BY <2>2
      <3>a. \A s \in todo : item'[<<p, s>>] # "none" /\ target'[<<p, s>>] \in Targets
        BY <1>4 DEF Placed
      <3> HIDE DEF StartPlan, todo
      <3>3. exec' \in [Execs -> ExecRec] /\ exec'[e] = r
            /\ \A d \in Execs : d # e => exec'[d] = exec[d]
        BY <3>1, <3>2, SetExec DEF TInv, TypeOK
      <3>4. ExecOK(exec[e])'  BY <3>3, <3>a DEF ExecOK
      <3> QED  BY <3>3, <3>4
    <2> QED  BY <2>1, <2>2
  <1>6. TypeOK'  BY <1>1, <1>2, <1>5 DEF TInv, TypeOK
  <1>7. Executable'  BY <1>3, <1>5, ExecutableStep
  <1> QED  BY <1>4, <1>6, <1>7 DEF TInv

LEMMA TBegin ==
  ASSUME TInv, NEW e \in Execs, NEW s \in Servers, BeginRecoveryOwnership(e, s) PROVE TInv'
  <1> USE DEF BeginRecoveryOwnership
  <1>0. target[<<exec[e].plan, s>>] \in Targets /\ exec[e].plan \in Plans  BY Current
  <1>1. backed' \subseteq Servers  BY DEF TInv, TypeOK
  <1>2. contended' \subseteq Servers  BY DEF TInv, TypeOK, Contend
  <1>3. home' \in [Servers -> Targets \cup Sources]  BY <1>0 DEF TInv, TypeOK
  <1>4. PICK pc \in Owning :
          exec' = [exec EXCEPT ![e] = [pc |-> pc, plan |-> exec[e].plan, todo |-> exec[e].todo, cur |-> s]]
    OBVIOUS
  <1>5. [pc |-> pc, plan |-> exec[e].plan, todo |-> exec[e].todo, cur |-> s] \in ExecRec
    BY DEF ExecRec, TInv, TypeOK
  <1>6. /\ exec' \in [Execs -> ExecRec]
        /\ exec'[e] = [pc |-> pc, plan |-> exec[e].plan, todo |-> exec[e].todo, cur |-> s]
        /\ \A d \in Execs : d # e => exec'[d] = exec[d]
    BY <1>4, <1>5, SetExec DEF TInv, TypeOK
  <1>7. TypeOK'  BY <1>1, <1>2, <1>3, <1>6 DEF TInv, TypeOK
  <1>8. Fresh' /\ Placing' /\ Placed'  BY DEF TInv, Fresh, Placing, Placed
  <1>9. ExecOK(exec[e])'  BY <1>0, <1>6, Current DEF ExecOK, Owning
  <1>10. Executable'  BY <1>6, <1>9, ExecutableStep
  <1> QED  BY <1>7, <1>8, <1>10 DEF TInv

\* An execution is done with an item.
LEMMA TItemEnds ==
  ASSUME TInv, NEW e \in Execs, NEW s \in exec[e].todo, NEW status \in {"failed", "awaiting"},
         exec[e].pc \notin {"idle", "done"},
         item' = [item EXCEPT ![<<exec[e].plan, s>>] = status],
         exec' = [exec EXCEPT ![e] = [pc |-> "next", plan |-> exec[e].plan,
                                      todo |-> exec[e].todo \ {s}, cur |-> None]],
         UNCHANGED <<target, planner>>
  PROVE  /\ item' \in [Plans \X Servers -> ItemStatus]
         /\ exec' \in [Execs -> ExecRec]
         /\ Fresh' /\ Placing' /\ Placed' /\ Executable'
  <1> DEFINE p == exec[e].plan
  <1>0. p \in Plans /\ s \in Servers /\ item[<<p, s>>] # "none" /\ target[<<p, s>>] \in Targets
    BY Current
  <1>1. /\ item' \in [Plans \X Servers -> ItemStatus]
        /\ item'[<<p, s>>] = status
        /\ \A q \in Plans, t \in Servers : <<q, t>> # <<p, s>> => item'[<<q, t>>] = item[<<q, t>>]
    BY <1>0 DEF TInv, TypeOK, ItemStatus
  <1>2. [pc |-> "next", plan |-> exec[e].plan, todo |-> exec[e].todo \ {s}, cur |-> None] \in ExecRec
    BY <1>0 DEF ExecRec, TInv, TypeOK
  <1>3. /\ exec' \in [Execs -> ExecRec]
        /\ exec'[e] = [pc |-> "next", plan |-> p, todo |-> exec[e].todo \ {s}, cur |-> None]
        /\ \A d \in Execs : d # e => exec'[d] = exec[d]
    BY <1>2, SetExec DEF TInv, TypeOK
  <1>4. Fresh' /\ Placing' /\ Placed'  BY <1>0, <1>1 DEF TInv, Fresh, Placing, Placed
  <1>5. ExecOK(exec[e])'  BY <1>0, <1>1, <1>3, Current DEF ExecOK
  <1>6. Executable'  BY <1>1, <1>3, <1>5, ExecutableStep
  <1> QED  BY <1>1, <1>3, <1>4, <1>6

LEMMA TRestoreFails ==
  ASSUME TInv, NEW e \in Execs, NEW s \in Servers, RestoreFails(e, s) PROVE TInv'
  <1> USE DEF RestoreFails
  <1> DEFINE p == exec[e].plan
             r == [pc |-> "next", plan |-> p, todo |-> exec[e].todo \ {s}, cur |-> exec[e].cur]
  <1>0. p \in Plans /\ item[<<p, s>>] # "none" /\ target[<<p, s>>] \in Targets  BY Current
  <1>1. /\ item' \in [Plans \X Servers -> ItemStatus]
        /\ item'[<<p, s>>] = "failed"
        /\ \A q \in Plans, t \in Servers : <<q, t>> # <<p, s>> => item'[<<q, t>>] = item[<<q, t>>]
    BY <1>0 DEF TInv, TypeOK, ItemStatus
  <1>2. r \in ExecRec  BY DEF ExecRec, TInv, TypeOK
  <1>3. exec[e] \in ExecRec  BY DEF TInv, TypeOK
  <1>4. exec' = [exec EXCEPT ![e] = r]  BY <1>3, ExecForms
  <1>5. exec' \in [Execs -> ExecRec] /\ exec'[e] = r
        /\ \A d \in Execs : d # e => exec'[d] = exec[d]
    BY <1>2, <1>4, SetExec DEF TInv, TypeOK
  <1>6. TypeOK'  BY <1>1, <1>5 DEF TInv, TypeOK
  <1>7. Fresh' /\ Placing' /\ Placed'  BY <1>0, <1>1 DEF TInv, Fresh, Placing, Placed
  <1>a. \A t \in r.todo : item'[<<p, t>>] # "none" /\ target'[<<p, t>>] \in Targets
    BY <1>0, <1>1, Current
  <1>8. ExecOK(exec[e])'  BY <1>0, <1>5, <1>a DEF ExecOK
  <1>9. Executable'  BY <1>1, <1>5, <1>8, ExecutableStep
  <1> QED  BY <1>6, <1>7, <1>9 DEF TInv

\* The item of the current row ends (ItemFails, and MarkAwaiting).
LEMMA TRowEnds ==
  ASSUME TInv, NEW e \in Execs, exec[e].pc \in {"complete", "rollback", "mark"},
         NEW status \in {"failed", "awaiting"}, item' = [item EXCEPT ![Row(e)] = status],
         Returned(e), UNCHANGED <<target, planner>>
  PROVE  /\ item' \in [Plans \X Servers -> ItemStatus]
         /\ exec' \in [Execs -> ExecRec]
         /\ Fresh' /\ Placing' /\ Placed' /\ Executable'
  <1>1. exec[e].cur \in exec[e].todo  BY Current
  <1>2. exec' = [exec EXCEPT ![e] = [pc |-> "next", plan |-> exec[e].plan,
                                     todo |-> exec[e].todo \ {exec[e].cur}, cur |-> None]]
    BY DEF Returned
  <1>3. item' = [item EXCEPT ![<<exec[e].plan, exec[e].cur>>] = status]  BY DEF Row
  <1> QED  BY <1>1, <1>2, <1>3, TItemEnds

LEMMA TRollback ==
  ASSUME TInv, NEW e \in Execs, RollbackRecoveryOwnership(e) PROVE TInv'
  <1> USE DEF RollbackRecoveryOwnership
  <1>0. exec[e].plan \in Plans /\ exec[e].cur \in Servers  BY Current
  <1>1. /\ item' \in [Plans \X Servers -> ItemStatus]
        /\ exec' \in [Execs -> ExecRec]
        /\ Fresh' /\ Placing' /\ Placed' /\ Executable'
    BY TRowEnds DEF ItemFails
  <1>2. home' \in [Servers -> Targets \cup Sources] /\ backed' \subseteq Servers
    BY <1>0, RecoveryAssumption DEF TInv, TypeOK
  <1>3. TypeOK'  BY <1>1, <1>2 DEF TInv, TypeOK
  <1> QED  BY <1>1, <1>3 DEF TInv

LEMMA TComplete ==
  ASSUME TInv, NEW e \in Execs, CompleteRecoveryOwnership(e) PROVE TInv'
  <1> USE DEF CompleteRecoveryOwnership
  <1>1. CASE ItemFails(e) /\ UNCHANGED <<bound, live>>
    <2>1. /\ item' \in [Plans \X Servers -> ItemStatus]
          /\ exec' \in [Execs -> ExecRec]
          /\ Fresh' /\ Placing' /\ Placed' /\ Executable'
      BY <1>1, TRowEnds DEF ItemFails
    <2>2. TypeOK'  BY <1>1, <2>1 DEF TInv, TypeOK
    <2> QED  BY <2>1, <2>2 DEF TInv
  <1>2. CASE bound' = bound \ {exec[e].cur} /\ Release({Row(e)}) /\ At(e, "mark") /\ UNCHANGED item
    <2>1. /\ exec' \in [Execs -> ExecRec]
          /\ exec'[e] = [pc |-> "mark", plan |-> exec[e].plan, todo |-> exec[e].todo, cur |-> exec[e].cur]
          /\ \A d \in Execs : d # e => exec'[d] = exec[d]
      BY <1>2, AtSets DEF TInv, TypeOK
    <2>2. TypeOK'  BY <1>2, <2>1 DEF Release, TInv, TypeOK
    <2>3. Fresh' /\ Placing' /\ Placed'  BY <1>2 DEF TInv, Fresh, Placing, Placed
    <2>4. ExecOK(exec[e])'  BY <1>2, <2>1, Current DEF ExecOK
    <2>5. Executable'  BY <1>2, <2>1, <2>4, ExecutableStep
    <2> QED  BY <2>2, <2>3, <2>5 DEF TInv
  <1> QED  BY <1>1, <1>2

LEMMA TMarkAwaiting ==
  ASSUME TInv, NEW e \in Execs, MarkAwaiting(e) PROVE TInv'
  <1> USE DEF MarkAwaiting
  <1>1. /\ item' \in [Plans \X Servers -> ItemStatus]
        /\ exec' \in [Execs -> ExecRec]
        /\ Fresh' /\ Placing' /\ Placed' /\ Executable'
    BY TRowEnds
  <1>2. TypeOK'  BY <1>1 DEF TInv, TypeOK
  <1> QED  BY <1>1, <1>2 DEF TInv

\* ExecutePlan returns.
LEMMA TOver ==
  ASSUME TInv, NEW e \in Execs, Over(e), UNCHANGED <<item, target, planner>>
  PROVE  exec' \in [Execs -> ExecRec] /\ Fresh' /\ Placing' /\ Placed' /\ Executable'
  <1>1. /\ exec' \in [Execs -> ExecRec]
        /\ exec'[e] = [pc |-> "done", plan |-> None, todo |-> {}, cur |-> None]
        /\ \A d \in Execs : d # e => exec'[d] = exec[d]
    BY OverSets DEF TInv, TypeOK
  <1>2. ExecOK(exec[e])'  BY <1>1 DEF ExecOK
  <1>3. Executable'  BY <1>1, <1>2, ExecutableStep
  <1>4. Fresh' /\ Placing' /\ Placed'  BY DEF TInv, Fresh, Placing, Placed
  <1> QED  BY <1>1, <1>3, <1>4

LEMMA TFinishExecution ==
  ASSUME TInv, NEW e \in Execs, FinishExecution(e) PROVE TInv'
  <1> USE DEF FinishExecution
  <1>0. exec[e].plan \in Plans  BY DEF TInv, Executable, ExecOK
  <1>1. plan' \in [Plans -> PlanStatus] /\ closing' \subseteq Plans
    BY <1>0 DEF CallFailPlan, TInv, TypeOK, PlanStatus
  <1>2. exec' \in [Execs -> ExecRec] /\ Fresh' /\ Placing' /\ Placed' /\ Executable'
    BY TOver
  <1>3. TypeOK'  BY <1>1, <1>2 DEF TInv, TypeOK
  <1> QED  BY <1>2, <1>3 DEF TInv

LEMMA TAbandonExecution ==
  ASSUME TInv, NEW e \in Execs, AbandonExecution(e) PROVE TInv'
  <1> USE DEF AbandonExecution
  <1>1. stops' \in 0..MaxStops  BY RecoveryAssumption DEF Stops, TInv, TypeOK
  <1>2. exec' \in [Execs -> ExecRec] /\ Fresh' /\ Placing' /\ Placed' /\ Executable'
    BY TOver
  <1>3. TypeOK'  BY <1>1, <1>2 DEF TInv, TypeOK
  <1> QED  BY <1>2, <1>3 DEF TInv

LEMMA TInvStep ==
  ASSUME TInv, [Next]_vars PROVE TInv'
  <1>1. CASE UNCHANGED vars
    BY <1>1 DEF vars, TInv, TypeOK, Fresh, Placing, Placed, Executable, ExecOK
  <1>2. CASE \E p \in Plans : PlanningStep(p)
    BY <1>2, TCreatePlan, TSkipServer, TCheckReservation, TInsertReservation, TCreateRecoveryItem,
       TFinishPlanning, TAbandonPlanning DEF PlanningStep
  <1>3. CASE \E p \in Plans : ClosingStep(p)
    BY <1>3, TFailPlan, TCancelPlan, TReconcilePlan DEF ClosingStep
  <1>4. CASE \E e \in Execs : ExecutionStep(e)
    BY <1>4, TStartPlan, TBegin, TRestoreFails, TRollback, TComplete, TMarkAwaiting,
       TFinishExecution, TAbandonExecution DEF ExecutionStep
  <1>5. CASE \E x \in live : Expire(x)
    BY <1>5, TExpire
  <1>6. CASE \E p \in closing : AbandonClosing(p)
    BY <1>6, TAbandonClosing DEF TInv, TypeOK
  <1> QED  BY <1>1, <1>2, <1>3, <1>4, <1>5, <1>6 DEF Next

\* Every reachable state is well-typed: in particular servers.node_id, which
\* BeginRecoveryOwnership takes from the item, is always a node.
THEOREM TypeCorrect == Spec => []TypeOK
  <1>1. Spec => []TInv
    BY TInvInit, TInvStep, PTL DEF Spec
  <1>2. TInv => TypeOK  BY DEF TInv
  <1> QED  BY <1>1, <1>2, PTL

-----------------------------------------------------------------------------
(* Capacity *)

\* While a transaction holds a node's row there is room for the one it admitted.
RoomHeld ==
    \A n \in Targets : lock[n] # None => Cardinality(Claimed(n)) < Capacity

\* It is the transaction of the plan that is about to insert, and the server it
\* admitted has no live reservation on the node.
Admitted ==
    \A p \in Plans : planner[p].pc = "insert" =>
        /\ lock[target[<<p, planner[p].cur>>]] = p
        /\ \A x \in live : target[x] = target[<<p, planner[p].cur>>] => x[2] # planner[p].cur

CInv == CapacityKept /\ ReservedOnce /\ RoomHeld /\ Admitted

LEMMA ClaimedFinite ==
  ASSUME TypeOK, NEW n \in Targets
  PROVE  /\ Claimed(n) \subseteq Servers /\ IsFiniteSet(Claimed(n))
         /\ Cardinality(Claimed(n)) \in Nat
  <1>1. Claimed(n) \subseteq Servers  BY DEF TypeOK, Claimed, Live
  <1> QED  BY <1>1, FS_Subset, FS_CardinalityType, RecoveryAssumption

\* Nothing is claimed anew, and locks are only given up.
LEMMA CShrink ==
  ASSUME TInv, CInv, TypeOK',
         \A n \in Targets : /\ \A x \in Live(n)' : x \in Live(n)
                            /\ \A s \in Claimed(n)' : s \in Claimed(n),
         \A n \in Targets : lock'[n] = lock[n] \/ lock'[n] = None,
         \A p \in Plans : planner'[p].pc = "insert" =>
             /\ planner'[p] = planner[p]
             /\ target'[<<p, planner[p].cur>>] = target[<<p, planner[p].cur>>]
             /\ lock'[target[<<p, planner[p].cur>>]] = p
  PROVE  CInv'
  <1>1. ASSUME NEW n \in Targets
        PROVE /\ Cardinality(Claimed(n)') \in Nat /\ Cardinality(Claimed(n)) \in Nat
              /\ Cardinality(Claimed(n)') <= Cardinality(Claimed(n))
    <2>1. IsFiniteSet(Claimed(n))  BY ClaimedFinite DEF TInv
    <2>2. Claimed(n)' \subseteq Claimed(n)  OBVIOUS
    <2> QED  BY <2>1, <2>2, FS_Subset, FS_CardinalityType
  <1>2. CapacityKept'  BY <1>1, RecoveryAssumption DEF CInv, CapacityKept
  <1>3. ReservedOnce'  BY DEF CInv, ReservedOnce
  <1>4. RoomHeld'  BY <1>1, RecoveryAssumption DEF CInv, RoomHeld
  <1>5. Admitted'
    <2> SUFFICES ASSUME NEW p \in Plans, planner'[p].pc = "insert"
                 PROVE  /\ lock'[target'[<<p, planner'[p].cur>>]] = p
                        /\ \A x \in live' : target'[x] = target'[<<p, planner'[p].cur>>]
                                              => x[2] # planner'[p].cur
      BY DEF Admitted
    <2>1. PICK n \in Targets : n = target[<<p, planner[p].cur>>]  BY Current
    <2>2. \A x \in live : target[x] = n => x[2] # planner[p].cur  BY <2>1 DEF CInv, Admitted
    <2>3. target'[<<p, planner'[p].cur>>] = n  BY <2>1
    <2>4. \A x \in live' : target'[x] = n => x \in live /\ target[x] = n  BY DEF Live
    <2> QED  BY <2>1, <2>2, <2>3, <2>4
  <1> QED  BY <1>2, <1>3, <1>4, <1>5 DEF CInv

\* What the steps that take nothing do to the rows.
LEMMA CFewer ==
  ASSUME TypeOK, live' \subseteq live,
         \A x \in live' : target'[x] = target[x] \/ target'[x] \notin Targets,
         \A s \in backed' : home'[s] \in Targets => s \in backed /\ home'[s] = home[s]
  PROVE  \A n \in Targets : /\ \A x \in Live(n)' : x \in Live(n)
                            /\ \A s \in Claimed(n)' : s \in Claimed(n)
  <1> TAKE n \in Targets
  <1>1. \A x \in Live(n)' : x \in Live(n)  BY DEF Live
  <1>2. ASSUME NEW s \in Claimed(n)' PROVE s \in Claimed(n)
    <2>1. (\E x \in Live(n)' : s = x[2]) \/ (s \in backed' /\ home'[s] = n)  BY DEF Claimed
    <2>2. (\E x \in Live(n) : s = x[2]) \/ (s \in backed /\ home[s] = n)  BY <1>1, <2>1
    <2> QED  BY <2>2 DEF Claimed
  <1> QED  BY <1>1, <1>2

\* Reservations are released at most.
LEMMA CReleased ==
  ASSUME TInv, CInv, TypeOK', live' \subseteq live,
         UNCHANGED <<target, lock, planner, home, backed>>
  PROVE  CInv'
  <1>1. \A n \in Targets : /\ \A x \in Live(n)' : x \in Live(n)
                           /\ \A s \in Claimed(n)' : s \in Claimed(n)
    BY CFewer DEF TInv
  <1>2. \A p \in Plans : planner'[p].pc = "insert" => lock'[target[<<p, planner[p].cur>>]] = p
    BY DEF CInv, Admitted
  <1> QED  BY <1>1, <1>2, CShrink

\* CreatePlan of one plan goes on, and no other transaction is disturbed.
LEMMA CPlanner ==
  ASSUME TInv, CInv, TypeOK', NEW p \in Plans, live' \subseteq live,
         \A x \in live' : target'[x] = target[x] \/ target'[x] \notin Targets,
         \A q \in Plans, s \in Servers : q # p => target'[<<q, s>>] = target[<<q, s>>],
         \A n \in Targets : lock'[n] = lock[n] \/ (lock[n] = p /\ lock'[n] = None),
         planner'[p].pc # "insert",
         \A q \in Plans : q # p => planner'[q] = planner[q],
         UNCHANGED <<home, backed>>
  PROVE  CInv'
  <1>1. \A n \in Targets : /\ \A x \in Live(n)' : x \in Live(n)
                           /\ \A s \in Claimed(n)' : s \in Claimed(n)
    BY CFewer DEF TInv
  <1>2. ASSUME NEW q \in Plans, planner'[q].pc = "insert"
        PROVE  /\ planner'[q] = planner[q]
               /\ target'[<<q, planner[q].cur>>] = target[<<q, planner[q].cur>>]
               /\ lock'[target[<<q, planner[q].cur>>]] = q
    <2>1. q # p /\ planner'[q] = planner[q]  BY <1>2
    <2>2. planner[q].cur \in Servers /\ target[<<q, planner[q].cur>>] \in Targets
      BY <1>2, <2>1, Current
    <2>3. lock[target[<<q, planner[q].cur>>]] = q  BY <1>2, <2>1 DEF CInv, Admitted
    <2> QED  BY <2>1, <2>2, <2>3
  <1> QED  BY <1>1, <1>2, CShrink

\* The servers that claim a node are no more than those that are on it and the
\* reservations there: what CreatePlacementReservation adds up.
LEMMA ClaimedBound ==
  ASSUME TypeOK, NEW n \in Targets
  PROVE  Cardinality(Claimed(n)) <= Cardinality(Housed(n)) + Cardinality(Live(n))
  <1> DEFINE R == {x[2] : x \in Live(n)}
             H == {s \in backed : home[s] = n}
             f == [x \in Live(n) |-> x[2]]
  <1>1. IsFiniteSet(Plans \X Servers)  BY FS_Product, RecoveryAssumption
  <1>2. IsFiniteSet(Live(n)) /\ Cardinality(Live(n)) \in Nat
    BY <1>1, FS_Subset, FS_CardinalityType DEF Live, TypeOK
  <1>3. f \in Surjection(Live(n), R)  BY DEF Surjection
  <1>4. IsFiniteSet(R) /\ Cardinality(R) <= Cardinality(Live(n))
    <2> HIDE DEF f, R
    <2> QED  BY <1>2, <1>3, FS_Surjection
  <1>5. IsFiniteSet(Housed(n)) /\ Cardinality(Housed(n)) \in Nat
    BY FS_Subset, FS_CardinalityType, RecoveryAssumption DEF Housed
  <1>6. H \subseteq Housed(n)  BY DEF Housed, TypeOK
  <1>7. IsFiniteSet(H) /\ Cardinality(H) <= Cardinality(Housed(n))
    <2> HIDE DEF H
    <2> QED  BY <1>5, <1>6, FS_Subset
  <1>8. Claimed(n) = R \cup H  BY DEF Claimed
  <1> HIDE DEF R, H
  <1>9. Cardinality(R \cup H) = Cardinality(R) + Cardinality(H) - Cardinality(R \cap H)
    BY <1>4, <1>7, FS_Union
  <1>10. Cardinality(R) \in Nat /\ Cardinality(H) \in Nat  BY <1>4, <1>7, FS_CardinalityType
  <1>11. Cardinality(R \cap H) \in Nat
    BY <1>4, FS_Intersection, FS_CardinalityType
  <1> QED  BY <1>2, <1>4, <1>5, <1>7, <1>8, <1>9, <1>10, <1>11

LEMMA CCheckReservation ==
  ASSUME TInv, CInv, TypeOK', NEW p \in Plans, NEW s \in Servers, NEW n \in Targets,
         CheckReservation(p, s, n)
  PROVE  CInv'
  <1> USE DEF CheckReservation
  <1>1. CASE ~Admits(n, s)
    <2>1. /\ planner'[p] = [pc |-> "pick", todo |-> planner[p].todo \ {s}, cur |-> None]
          /\ \A q \in Plans : q # p => planner'[q] = planner[q]
      BY <1>1, PlannedSets DEF TInv, TypeOK
    <2>2. planner'[p].pc # "insert"  BY <2>1
    <2> QED  BY <1>1, <2>1, <2>2, CPlanner
  <1>2. CASE Admits(n, s)
    <2> DEFINE r == [pc |-> "insert", todo |-> planner[p].todo, cur |-> s]
    <2>1. r \in PlannerRec  BY DEF TInv, TypeOK, PlannerRec
    <2>2. planner'[p] = r /\ \A q \in Plans : q # p => planner'[q] = planner[q]
      BY <1>2, <2>1, SetPlanner DEF TInv, TypeOK
    <2>3. /\ target'[<<p, s>>] = n
          /\ \A q \in Plans, t \in Servers : <<q, t>> # <<p, s>> => target'[<<q, t>>] = target[<<q, t>>]
      BY <1>2 DEF TInv, TypeOK
    <2>4. /\ lock[n] = None /\ lock'[n] = p
          /\ \A m \in Targets : m # n => lock'[m] = lock[m]
      BY <1>2 DEF Unlocked, TInv, TypeOK
    <2>5. \A q \in Plans : <<q, s>> \notin live  BY <1>2 DEF Admits
    <2>6. \A x \in live : target'[x] = target[x]  BY <2>3, <2>5 DEF TInv, TypeOK
    <2>7. live' = live /\ home' = home /\ backed' = backed  BY <1>2
    <2>8. \A m \in Targets : Live(m)' = Live(m) /\ Claimed(m)' = Claimed(m)
      <3> TAKE m \in Targets
      <3>1. Live(m)' = Live(m)  BY <2>6, <2>7 DEF Live
      <3> QED  BY <2>7, <3>1 DEF Claimed
    <2>9. Cardinality(Claimed(n)) < Capacity
      <3>1. Cardinality(Housed(n)) + Cardinality(Live(n)) < Capacity  BY <1>2 DEF Admits
      <3>2. IsFiniteSet(Plans \X Servers)  BY FS_Product, RecoveryAssumption
      <3>3. Cardinality(Live(n)) \in Nat
        BY <3>2, FS_Subset, FS_CardinalityType DEF Live, TInv, TypeOK
      <3>4. Cardinality(Housed(n)) \in Nat
        BY FS_Subset, FS_CardinalityType, RecoveryAssumption DEF Housed
      <3> QED  BY <3>1, <3>3, <3>4, ClaimedBound, ClaimedFinite, RecoveryAssumption DEF TInv
    <2>10. CapacityKept' /\ ReservedOnce'  BY <2>8 DEF CInv, CapacityKept, ReservedOnce
    <2>11. RoomHeld'  BY <2>4, <2>8, <2>9 DEF CInv, RoomHeld
    <2>12. Admitted'
      <3>1. \A x \in live' : x[2] # s  BY <2>5, <2>7 DEF TInv, TypeOK
      <3>b. /\ lock'[target'[<<p, planner'[p].cur>>]] = p
            /\ \A x \in live' : target'[x] = target'[<<p, planner'[p].cur>>] => x[2] # planner'[p].cur
        BY <2>2, <2>3, <2>4, <3>1
      <3> SUFFICES ASSUME NEW q \in Plans, q # p, planner'[q].pc = "insert"
                   PROVE  /\ lock'[target'[<<q, planner'[q].cur>>]] = q
                          /\ \A x \in live' : target'[x] = target'[<<q, planner'[q].cur>>]
                                                => x[2] # planner'[q].cur
        BY <3>b DEF Admitted
      <3>2. planner'[q] = planner[q]  BY <2>2
      <3>3. planner[q].cur \in Servers  BY <3>2, Current
      <3>a. PICK m \in Targets : m = target[<<q, planner[q].cur>>]  BY <3>2, Current
      <3>4. target'[<<q, planner'[q].cur>>] = m  BY <2>3, <3>2, <3>3, <3>a
      <3>5. lock[m] = q /\ \A x \in live : target[x] = m => x[2] # planner[q].cur
        BY <3>2, <3>a DEF CInv, Admitted
      <3>6. m # n  BY <2>4, <3>5, RecoveryAssumption
      <3> QED  BY <2>4, <2>6, <2>7, <3>2, <3>4, <3>5, <3>6
    <2> QED  BY <2>10, <2>11, <2>12 DEF CInv
  <1> QED  BY <1>1, <1>2

LEMMA CInsertReservation ==
  ASSUME TInv, CInv, TypeOK', NEW p \in Plans, InsertReservation(p) PROVE CInv'
  <1> USE DEF InsertReservation
  <1>s. PICK s \in Servers : s = planner[p].cur  BY Current
  <1>n. PICK n \in Targets : n = target[<<p, s>>]  BY <1>s, Current
  <1>a. lock[n] = p /\ \A x \in Live(n) : x[2] # s  BY <1>s, <1>n DEF CInv, Admitted, Live
  <1>b. lock'[n] = None /\ \A m \in Targets : m # n => lock'[m] = lock[m]
    BY <1>s, <1>n DEF TInv, TypeOK
  <1>1. CASE Unplanned(p, s, "failed") /\ UNCHANGED live
    <2>1. /\ planner'[p] = [pc |-> "pick", todo |-> planner[p].todo \ {s}, cur |-> None]
          /\ \A q \in Plans : q # p => planner'[q] = planner[q]
      BY <1>s, <1>1, PlannedSets DEF Unplanned, TInv, TypeOK
    <2>2. planner'[p].pc # "insert"  BY <2>1
    <2>3. target' = [target EXCEPT ![<<p, s>>] = None]  BY <1>1 DEF Unplanned
    <2>4. \A x \in live' : target'[x] = target[x] \/ target'[x] \notin Targets
      BY <1>1, <2>3, RecoveryAssumption DEF TInv, TypeOK
    <2>5. \A q \in Plans, t \in Servers : q # p => target'[<<q, t>>] = target[<<q, t>>]
      BY <2>3 DEF TInv, TypeOK
    <2> QED  BY <1>1, <1>a, <1>b, <2>1, <2>2, <2>4, <2>5, CPlanner
  <1>2. CASE live' = live \cup {<<p, s>>} /\ Step(p, "item") /\ UNCHANGED <<item, target>>
    <2>1. /\ planner'[p] = [pc |-> "item", todo |-> planner[p].todo, cur |-> s]
          /\ \A q \in Plans : q # p => planner'[q] = planner[q]
      BY <1>s, <1>2, StepSets DEF TInv, TypeOK
    <2>2. target' = target /\ home' = home /\ backed' = backed  BY <1>2
    <2>3. Live(n)' = Live(n) \cup {<<p, s>>}
          /\ \A m \in Targets : m # n => Live(m)' = Live(m)
      BY <1>2, <1>n, <2>2 DEF Live
    <2>4. Claimed(n)' = Claimed(n) \cup {s}
      <3>1. {x[2] : x \in Live(n)'} = {x[2] : x \in Live(n)} \cup {s}
        <4>1. \A t : t \in {x[2] : x \in Live(n)'} => t = s \/ t \in {x[2] : x \in Live(n)}  BY <2>3
        <4>2. \A t : t \in {x[2] : x \in Live(n)} => t \in {x[2] : x \in Live(n)'}  BY <2>3
        <4>3. <<p, s>> \in Live(n)' /\ <<p, s>>[2] = s  BY <2>3
        <4>4. s \in {x[2] : x \in Live(n)'}  BY <4>3
        <4> QED  BY <4>1, <4>2, <4>4
      <3>2. {t \in backed : home[t] = n}' = {t \in backed : home[t] = n}  BY <2>2
      <3>3. Claimed(n)' = {x[2] : x \in Live(n)'} \cup {t \in backed : home[t] = n}'  BY DEF Claimed
      <3>4. Claimed(n) = {x[2] : x \in Live(n)} \cup {t \in backed : home[t] = n}  BY DEF Claimed
      <3> QED  BY <3>1, <3>2, <3>3, <3>4
    <2>5. \A m \in Targets : m # n => Claimed(m)' = Claimed(m)
      BY <2>2, <2>3 DEF Claimed
    <2>6. Cardinality(Claimed(n)) < Capacity
      BY <1>a, RecoveryAssumption DEF CInv, RoomHeld
    <2>7. IsFiniteSet(Claimed(n)) /\ Cardinality(Claimed(n)) \in Nat
      BY ClaimedFinite DEF TInv
    <2>8. Cardinality(Claimed(n)') <= Capacity
      <3> DEFINE C == Claimed(n)
      <3>1. IsFiniteSet(C) /\ Cardinality(C) \in Nat /\ Cardinality(C) < Capacity  BY <2>6, <2>7
      <3>2. Cardinality(Claimed(n)') = Cardinality(C \cup {s})  BY <2>4
      <3> HIDE DEF C
      <3>3. Cardinality(C \cup {s}) = IF s \in C THEN Cardinality(C) ELSE Cardinality(C) + 1
        BY <3>1, FS_AddElement
      <3>4. Cardinality(C \cup {s}) <= Capacity  BY <3>1, <3>3, RecoveryAssumption
      <3> QED  BY <3>2, <3>4
    <2>9. CapacityKept'
      <3> SUFFICES ASSUME NEW m \in Targets PROVE Cardinality(Claimed(m)') <= Capacity
        BY DEF CapacityKept
      <3>1. CASE m = n  BY <2>8, <3>1
      <3>2. CASE m # n  BY <2>5, <3>2 DEF CInv, CapacityKept
      <3> QED  BY <3>1, <3>2
    <2>10. ReservedOnce'
      <3> SUFFICES ASSUME NEW m \in Targets, NEW x \in Live(m)', NEW y \in Live(m)', x[2] = y[2]
                   PROVE  x = y
        BY DEF ReservedOnce
      <3>1. CASE m # n  BY <2>3, <3>1 DEF CInv, ReservedOnce
      <3>2. CASE m = n /\ x \in Live(n) /\ y \in Live(n)
        BY <3>2 DEF CInv, ReservedOnce
      <3>3. CASE m = n /\ (x = <<p, s>> \/ y = <<p, s>>)  BY <1>a, <2>3, <3>3
      <3> QED  BY <2>3, <3>1, <3>2, <3>3
    <2>11. RoomHeld'
      <3> SUFFICES ASSUME NEW m \in Targets, lock'[m] # None
                   PROVE Cardinality(Claimed(m)') < Capacity
        BY DEF RoomHeld
      <3>1. m # n /\ lock[m] # None  BY <1>b
      <3> QED  BY <2>5, <3>1 DEF CInv, RoomHeld
    <2>12. Admitted'
      <3> SUFFICES ASSUME NEW q \in Plans, planner'[q].pc = "insert"
                   PROVE  /\ lock'[target'[<<q, planner'[q].cur>>]] = q
                          /\ \A x \in live' : target'[x] = target'[<<q, planner'[q].cur>>]
                                                => x[2] # planner'[q].cur
        BY DEF Admitted
      <3>1. q # p /\ planner'[q] = planner[q]  BY <2>1
      <3>2. PICK m \in Targets : m = target[<<q, planner[q].cur>>]  BY <3>1, Current
      <3>3. lock[m] = q /\ \A x \in live : target[x] = m => x[2] # planner[q].cur
        BY <3>1, <3>2 DEF CInv, Admitted
      <3>4. m # n  BY <1>a, <3>1, <3>3
      <3>5. \A x \in live' : target'[x] = m => x \in live  BY <1>2, <1>n, <2>2, <3>4
      <3> QED  BY <1>b, <2>2, <3>1, <3>2, <3>3, <3>4, <3>5
    <2> QED  BY <2>9, <2>10, <2>11, <2>12 DEF CInv
  <1> QED  BY <1>s, <1>1, <1>2

LEMMA CBegin ==
  ASSUME TInv, CInv, TypeOK', NEW e \in Execs, NEW s \in Servers, BeginRecoveryOwnership(e, s)
  PROVE  CInv'
  <1> USE DEF BeginRecoveryOwnership
  <1>1. PICK n \in Targets : n = target[<<exec[e].plan, s>>]  BY Current
  <1>2. live' = live /\ target' = target /\ lock' = lock /\ planner' = planner  OBVIOUS
  <1>3. home'[s] = n /\ \A t \in Servers : t # s => home'[t] = home[t]
    BY <1>1 DEF TInv, TypeOK
  <1>4. \A m \in Targets : Live(m)' = Live(m)  BY <1>2 DEF Live
  <1>5. ASSUME NEW m \in Targets, NEW t \in Claimed(m)' PROVE t \in Claimed(m)
    <2>1. CASE \E x \in Live(m)' : t = x[2]  BY <1>4, <2>1 DEF Claimed
    <2>2. CASE t \in backed' /\ home'[t] = m
      <3>1. t \in Servers  BY <2>2 DEF TypeOK
      <3>2. CASE t # s
        <4>1. t \in backed /\ home[t] = m  BY <1>3, <2>2, <3>1, <3>2
        <4> QED  BY <4>1 DEF Claimed
      <3>3. CASE t = s /\ home[s] = n
        <4>1. t \in backed /\ home[t] = m  BY <1>1, <1>3, <2>2, <3>3
        <4> QED  BY <4>1 DEF Claimed
      <3>4. CASE t = s /\ home[s] # n
        <4>1. m = n  BY <1>3, <2>2, <3>4
        <4>2. <<exec[e].plan, s>> \in live  BY <1>1, <2>2, <3>4
        <4>3. <<exec[e].plan, s>> \in Live(m)  BY <1>1, <4>1, <4>2 DEF Live
        <4>4. <<exec[e].plan, s>>[2] = t  BY <3>4
        <4> QED  BY <4>3, <4>4 DEF Claimed
      <3> QED  BY <3>2, <3>3, <3>4
    <2> QED  BY <2>1, <2>2 DEF Claimed
  <1>6. \A m \in Targets : /\ \A x \in Live(m)' : x \in Live(m)
                           /\ \A t \in Claimed(m)' : t \in Claimed(m)
    BY <1>4, <1>5
  <1>7. \A p \in Plans : planner'[p].pc = "insert" => lock'[target[<<p, planner[p].cur>>]] = p
    BY <1>2 DEF CInv, Admitted
  <1> HIDE DEF BeginRecoveryOwnership
  <1> QED  BY <1>2, <1>6, <1>7, CShrink

LEMMA CRollback ==
  ASSUME TInv, CInv, TypeOK', NEW e \in Execs, RollbackRecoveryOwnership(e) PROVE CInv'
  <1> USE DEF RollbackRecoveryOwnership
  <1>0. exec[e].plan \in Plans /\ exec[e].cur \in Servers  BY Current
  <1>1. live' = live /\ target' = target /\ lock' = lock /\ planner' = planner  OBVIOUS
  <1>2. \A t \in backed' : home'[t] \in Targets => t \in backed /\ home'[t] = home[t]
    <2>1. CASE UNCHANGED <<home, backed>>  BY <2>1
    <2>2. CASE home' = [home EXCEPT ![exec[e].cur] = NodeOf[exec[e].plan]]
               /\ backed' = backed \ {exec[e].cur}
      BY <1>0, <2>2 DEF TInv, TypeOK
    <2> QED  BY <2>1, <2>2
  <1> HIDE DEF RollbackRecoveryOwnership
  <1>3. \A n \in Targets : /\ \A x \in Live(n)' : x \in Live(n)
                           /\ \A s \in Claimed(n)' : s \in Claimed(n)
    BY <1>1, <1>2, CFewer DEF TInv
  <1>4. \A p \in Plans : planner'[p].pc = "insert" => lock'[target[<<p, planner[p].cur>>]] = p
    BY <1>1 DEF CInv, Admitted
  <1> QED  BY <1>1, <1>3, <1>4, CShrink

LEMMA CPlanningStep ==
  ASSUME TInv, CInv, TypeOK', NEW p \in Plans, PlanningStep(p) PROVE CInv'
  <1>1. CASE CreatePlan(p)
    <2> DEFINE r == [pc |-> "pick", todo |-> Housed(NodeOf[p]), cur |-> None]
    <2>1. r \in PlannerRec  BY DEF PlannerRec, Housed
    <2>2. planner'[p] = r /\ \A q \in Plans : q # p => planner'[q] = planner[q]
      BY <1>1, <2>1, SetPlanner DEF CreatePlan, TInv, TypeOK
    <2>3. planner'[p].pc # "insert"  BY <2>2
    <2> QED  BY <1>1, <2>2, <2>3, CPlanner DEF CreatePlan
  <1>2. ASSUME NEW s \in Servers, SkipServer(p, s) PROVE CInv'
    <2>1. planner'[p].pc # "insert" /\ \A q \in Plans : q # p => planner'[q] = planner[q]
      BY <1>2, PlannedSets DEF SkipServer, TInv, TypeOK
    <2> QED  BY <1>2, <2>1, CPlanner DEF SkipServer
  <1>3. ASSUME NEW s \in Servers, NEW n \in Targets, CheckReservation(p, s, n) PROVE CInv'
    BY <1>3, CCheckReservation
  <1>4. CASE InsertReservation(p)  BY <1>4, CInsertReservation
  <1>5. CASE CreateRecoveryItem(p)
    <2>1. planner'[p].pc # "insert" /\ \A q \in Plans : q # p => planner'[q] = planner[q]
      BY <1>5, PlannedSets DEF CreateRecoveryItem, Unplanned, TInv, TypeOK
    <2>2. planner[p].cur \in Servers  BY <1>5, Current DEF CreateRecoveryItem
    <2>3. live' \subseteq live  BY <1>5 DEF CreateRecoveryItem, Release
    <2>4. target' = target \/ target' = [target EXCEPT ![<<p, planner[p].cur>>] = None]
      BY <1>5 DEF CreateRecoveryItem, Unplanned
    <2>5. /\ \A x \in live' : target'[x] = target[x] \/ target'[x] \notin Targets
          /\ \A q \in Plans, s \in Servers : q # p => target'[<<q, s>>] = target[<<q, s>>]
      BY <2>2, <2>3, <2>4, RecoveryAssumption DEF TInv, TypeOK
    <2> QED  BY <1>5, <2>1, <2>3, <2>5, CPlanner DEF CreateRecoveryItem
  <1>6. CASE FinishPlanning(p)
    <2>1. planner'[p].pc # "insert" /\ \A q \in Plans : q # p => planner'[q] = planner[q]
      BY <1>6, EndedSets DEF FinishPlanning, TInv, TypeOK
    <2> QED  BY <1>6, <2>1, CPlanner DEF FinishPlanning
  <1>7. CASE AbandonPlanning(p)
    <2>1. planner'[p].pc # "insert" /\ \A q \in Plans : q # p => planner'[q] = planner[q]
      BY <1>7, EndedSets DEF AbandonPlanning, TInv, TypeOK
    <2>2. \A n \in Targets : lock'[n] = lock[n] \/ (lock[n] = p /\ lock'[n] = None)
      BY <1>7 DEF AbandonPlanning
    <2> QED  BY <1>7, <2>1, <2>2, CPlanner DEF AbandonPlanning
  <1> QED  BY <1>1, <1>2, <1>3, <1>4, <1>5, <1>6, <1>7 DEF PlanningStep

LEMMA CInvStep ==
  ASSUME TInv, CInv, TypeOK', [Next]_vars PROVE CInv'
  <1>1. CASE UNCHANGED vars  BY <1>1, CReleased DEF vars
  <1>2. CASE \E p \in Plans : PlanningStep(p)  BY <1>2, CPlanningStep
  <1>3. CASE \E p \in Plans : ClosingStep(p)
    BY <1>3, CReleased DEF ClosingStep, FailPlan, CancelPlan, ReconcilePlan, Close, Release
  <1>4. ASSUME NEW e \in Execs, ExecutionStep(e) PROVE CInv'
    <2>1. CASE \E s \in Servers : BeginRecoveryOwnership(e, s)  BY <2>1, CBegin
    <2>2. CASE RollbackRecoveryOwnership(e)  BY <2>2, CRollback
    <2>3. CASE \E p \in Plans : StartPlan(e, p)  BY <2>3, CReleased DEF StartPlan
    <2>4. CASE \E s \in Servers : RestoreFails(e, s)  BY <2>4, CReleased DEF RestoreFails
    <2>5. CASE CompleteRecoveryOwnership(e)
      BY <2>5, CReleased DEF CompleteRecoveryOwnership, Release
    <2>6. CASE MarkAwaiting(e) \/ FinishExecution(e) \/ AbandonExecution(e)
      BY <2>6, CReleased DEF MarkAwaiting, FinishExecution, AbandonExecution
    <2> QED  BY <1>4, <2>1, <2>2, <2>3, <2>4, <2>5, <2>6 DEF ExecutionStep
  <1>5. CASE \E x \in live : Expire(x)  BY <1>5, CReleased DEF Expire, Release
  <1>6. CASE \E p \in closing : AbandonClosing(p)  BY <1>6, CReleased DEF AbandonClosing
  <1> QED  BY <1>1, <1>2, <1>3, <1>4, <1>5, <1>6 DEF Next

LEMMA CInvInit == Init => CInv
  <1> SUFFICES ASSUME Init PROVE CInv
    OBVIOUS
  <1>1. \A n \in Targets : Claimed(n) = {}  BY DEF Init, Claimed, Live
  <1>2. CapacityKept  BY <1>1, FS_EmptySet, RecoveryAssumption DEF CapacityKept
  <1>3. ReservedOnce  BY DEF Init, ReservedOnce, Live
  <1>4. RoomHeld  BY DEF Init, RoomHeld
  <1>5. Admitted  BY DEF Init, Admitted
  <1> QED  BY <1>2, <1>3, <1>4, <1>5 DEF CInv

LEMMA CInvAlways == Spec => []CInv
  <1>1. TInv /\ CInv /\ [Next]_vars => TInv' /\ CInv'
    <2> SUFFICES ASSUME TInv, CInv, [Next]_vars PROVE TInv' /\ CInv'
      OBVIOUS
    <2>1. TInv'  BY TInvStep
    <2>2. TypeOK'  BY <2>1 DEF TInv
    <2> QED  BY <2>1, <2>2, CInvStep
  <1> QED  BY <1>1, TInvInit, CInvInit, PTL DEF Spec

\* However many plans, calls, cancels and expiries there are, the servers that
\* hold a live reservation on a node or moved to it under one are never more
\* than it has room for: what the row lock of CreatePlacementReservation is for.
THEOREM CapacityIsKept == Spec => []CapacityKept
  <1>1. CInv => CapacityKept  BY DEF CInv
  <1> QED  BY <1>1, CInvAlways, PTL

\* No server ever holds two live reservations on one node.
THEOREM ReservationsAreUnique == Spec => []ReservedOnce
  <1>1. CInv => ReservedOnce  BY DEF CInv
  <1> QED  BY <1>1, CInvAlways, PTL

-----------------------------------------------------------------------------
(* Where a server is recorded *)

\* An execution that has moved a server finds it where it moved it, and is alone
\* in this, as long as the server is not contended.
Owned ==
    \A e \in Execs : exec[e].pc \in Owning /\ exec[e].cur \notin contended =>
        /\ home[exec[e].cur] = target[Row(e)]
        /\ \A d \in Execs : exec[d].pc \in Owning /\ exec[d].cur = exec[e].cur => d = e

\* Between CompleteRecoveryOwnership and the item's new status.
GivenUp ==
    \A e \in Execs : exec[e].pc = "mark" /\ exec[e].cur \notin contended =>
        home[exec[e].cur] = target[Row(e)] /\ exec[e].cur \notin bound

OInv == Owned /\ GivenUp /\ NeverHomeless /\ AwaitingMeansMoved

\* Servers stay where they are, and no execution comes to own one.
LEMMA OKept ==
  ASSUME TInv, OInv,
         \A p \in Plans, s \in Servers : item'[<<p, s>>] = "awaiting" => item[<<p, s>>] = "awaiting",
         \A p \in Plans, s \in Servers :
             item[<<p, s>>] # "none" => target'[<<p, s>>] = target[<<p, s>>],
         \A d \in Execs : exec'[d].pc \in {"complete", "rollback", "mark"} => exec'[d] = exec[d],
         UNCHANGED <<home, bound, contended>>
  PROVE  OInv'
  <1>1. \A d \in Execs : exec'[d].pc \in {"complete", "rollback", "mark"} => target'[Row(d)'] = target[Row(d)]
    BY Current DEF Row
  <1>2. Owned'
    <2> SUFFICES ASSUME NEW e \in Execs, exec'[e].pc \in Owning, exec'[e].cur \notin contended'
                 PROVE  /\ home'[exec'[e].cur] = target'[Row(e)']
                        /\ \A d \in Execs : exec'[d].pc \in Owning /\ exec'[d].cur = exec'[e].cur => d = e
      BY DEF Owned
    <2>1. exec'[e] = exec[e] /\ target'[Row(e)'] = target[Row(e)]  BY <1>1 DEF Owning
    <2> QED  BY <2>1 DEF OInv, Owned, Owning
  <1>3. GivenUp'  BY <1>1 DEF OInv, GivenUp
  <1>4. NeverHomeless'  BY DEF OInv, NeverHomeless
  <1>5. AwaitingMeansMoved'  BY DEF OInv, AwaitingMeansMoved
  <1> QED  BY <1>2, <1>3, <1>4, <1>5 DEF OInv

LEMMA OBegin ==
  ASSUME TInv, OInv, NEW e \in Execs, NEW s \in Servers, BeginRecoveryOwnership(e, s)
  PROVE  OInv'
  <1> USE DEF BeginRecoveryOwnership
  <1>1. PICK n \in Targets : n = target[<<exec[e].plan, s>>]  BY Current
  <1>2. exec[e].plan \in Plans /\ NodeOf[exec[e].plan] \in Sources  BY Current, RecoveryAssumption
  <1>3. item' = item /\ target' = target /\ bound' = bound  OBVIOUS
  <1>4. home'[s] = n /\ \A t \in Servers : t # s => home'[t] = home[t]
    BY <1>1 DEF TInv, TypeOK
  <1>5. home[s] \in Targets => home[s] = n  BY <1>1, <1>2, RecoveryAssumption
  <1>6. /\ contended \subseteq contended'
        /\ s \notin contended' => \A d \in Execs \ {e} : ~(exec[d].cur = s /\ exec[d].pc \in Owning)
    BY DEF Contend
  <1>7. PICK pc \in Owning :
          exec' = [exec EXCEPT ![e] = [pc |-> pc, plan |-> exec[e].plan, todo |-> exec[e].todo, cur |-> s]]
    OBVIOUS
  <1>8. [pc |-> pc, plan |-> exec[e].plan, todo |-> exec[e].todo, cur |-> s] \in ExecRec
    BY DEF ExecRec, TInv, TypeOK
  <1>9. /\ exec'[e] = [pc |-> pc, plan |-> exec[e].plan, todo |-> exec[e].todo, cur |-> s]
        /\ \A d \in Execs : d # e => exec'[d] = exec[d]
    BY <1>7, <1>8, SetExec DEF TInv, TypeOK
  <1>10. exec'[e].pc \in Owning /\ exec'[e].cur = s /\ Row(e)' = <<exec[e].plan, s>>
    BY <1>9 DEF Row
  <1> HIDE DEF BeginRecoveryOwnership
  <1>11. Owned'
    <2> SUFFICES ASSUME NEW d \in Execs, exec'[d].pc \in Owning, exec'[d].cur \notin contended'
                 PROVE  /\ home'[exec'[d].cur] = target'[Row(d)']
                        /\ \A c \in Execs : exec'[c].pc \in Owning /\ exec'[c].cur = exec'[d].cur => c = d
      BY DEF Owned
    <2>1. CASE d = e  BY <1>1, <1>3, <1>4, <1>6, <1>9, <1>10, <2>1
    <2>2. CASE d # e
      <3>1. exec'[d] = exec[d] /\ Row(d)' = Row(d)  BY <1>9, <2>2 DEF Row
      <3>2. exec[d].cur # s  BY <1>6, <2>2, <3>1
      <3>3. exec[d].cur \in Servers  BY <3>1, Current DEF Owning
      <3>4. home[exec[d].cur] = target[Row(d)]
            /\ \A c \in Execs : exec[c].pc \in Owning /\ exec[c].cur = exec[d].cur => c = d
        BY <1>6, <3>1 DEF OInv, Owned
      <3> QED  BY <1>3, <1>4, <1>9, <1>10, <3>1, <3>2, <3>3, <3>4
    <2> QED  BY <2>1, <2>2
  <1>12. GivenUp'
    <2> SUFFICES ASSUME NEW d \in Execs, exec'[d].pc = "mark", exec'[d].cur \notin contended'
                 PROVE  home'[exec'[d].cur] = target'[Row(d)'] /\ exec'[d].cur \notin bound'
      BY DEF GivenUp
    <2>1. exec'[d] = exec[d] /\ Row(d)' = Row(d)  BY <1>9, <1>10 DEF Row, Owning
    <2>2. exec[d].cur \in Servers /\ target[Row(d)] \in Targets  BY <2>1, Current DEF Row
    <2>3. home[exec[d].cur] = target[Row(d)] /\ exec[d].cur \notin bound
      BY <1>6, <2>1 DEF OInv, GivenUp
    <2> QED  BY <1>3, <1>4, <1>5, <2>1, <2>2, <2>3
  <1>13. NeverHomeless'
    <2> SUFFICES ASSUME NEW t \in Servers \ contended', home'[t] = HomeOf[t] PROVE t \in bound'
      BY DEF NeverHomeless
    <2>1. t # s  BY <1>4, RecoveryAssumption
    <2> QED  BY <1>3, <1>4, <1>6, <2>1 DEF OInv, NeverHomeless
  <1>14. AwaitingMeansMoved'
    <2> SUFFICES ASSUME NEW p \in Plans, NEW t \in Servers \ contended', item'[<<p, t>>] = "awaiting"
                 PROVE  home'[t] = target'[<<p, t>>] /\ t \notin bound'
      BY DEF AwaitingMeansMoved
    <2>1. home[t] = target[<<p, t>>] /\ t \notin bound  BY <1>3, <1>6 DEF OInv, AwaitingMeansMoved
    <2>2. target[<<p, t>>] \in Targets  BY <1>3 DEF TInv, Placed
    <2> QED  BY <1>3, <1>4, <1>5, <2>1, <2>2
  <1> QED  BY <1>11, <1>12, <1>13, <1>14 DEF OInv

\* What the end of an item does to the execution and to the other rows.
LEMMA RowEnded ==
  ASSUME TInv, NEW e \in Execs, exec[e].pc \in {"complete", "rollback", "mark"}, NEW status,
         item' = [item EXCEPT ![Row(e)] = status], Returned(e)
  PROVE  /\ item'[Row(e)] = status
         /\ \A p \in Plans, s \in Servers : <<p, s>> # Row(e) => item'[<<p, s>>] = item[<<p, s>>]
         /\ exec'[e].pc = "next"
         /\ \A d \in Execs : d # e => exec'[d] = exec[d]
  <1>1. Row(e) \in Plans \X Servers  BY Current DEF Row
  <1>2. /\ exec'[e] = [pc |-> "next", plan |-> exec[e].plan,
                       todo |-> exec[e].todo \ {exec[e].cur}, cur |-> None]
        /\ \A d \in Execs : d # e => exec'[d] = exec[d]
    BY ReturnedSets DEF TInv, TypeOK
  <1>3. exec'[e].pc = "next"  BY <1>2
  <1>4. item'[Row(e)] = status
        /\ \A p \in Plans, s \in Servers : <<p, s>> # Row(e) => item'[<<p, s>>] = item[<<p, s>>]
    BY <1>1 DEF TInv, TypeOK
  <1> QED  BY <1>2, <1>3, <1>4

LEMMA ORollback ==
  ASSUME TInv, OInv, NEW e \in Execs, RollbackRecoveryOwnership(e) PROVE OInv'
  <1> USE DEF RollbackRecoveryOwnership
  <1>1. PICK s \in Servers : s = exec[e].cur  BY Current
  <1>2. /\ \A p \in Plans, t \in Servers : <<p, t>> # Row(e) => item'[<<p, t>>] = item[<<p, t>>]
        /\ item'[Row(e)] = "failed"
        /\ exec'[e].pc = "next"
        /\ \A d \in Execs : d # e => exec'[d] = exec[d]
    BY RowEnded DEF ItemFails
  <1>3. \A p \in Plans, t \in Servers : item'[<<p, t>>] = "awaiting" => item[<<p, t>>] = "awaiting"
    BY <1>2
  <1>4. target' = target /\ bound' = bound /\ contended' = contended  OBVIOUS
  <1>5. \A d \in Execs : exec'[d].pc \in {"complete", "rollback", "mark"} => d # e /\ exec'[d] = exec[d]
    BY <1>2
  <1>6. CASE home' = home  BY <1>3, <1>4, <1>5, <1>6, OKept
  <1>7. CASE s \in bound /\ home' = [home EXCEPT ![s] = NodeOf[exec[e].plan]]
    <2>1. \A t \in Servers : t # s => home'[t] = home[t]  BY <1>7 DEF TInv, TypeOK
    <2>2. \A d \in Execs : exec'[d].pc \in {"complete", "rollback", "mark"} =>
             Row(d)' = Row(d) /\ exec[d].cur \in Servers
      BY <1>5, Current DEF Row
    <2>3. \A d \in Execs : exec'[d].pc \in Owning /\ exec'[d].cur \notin contended => exec'[d].cur # s
      BY <1>1, <1>5 DEF OInv, Owned, Owning
    <2>4. Owned'
      <3> SUFFICES ASSUME NEW d \in Execs, exec'[d].pc \in Owning, exec'[d].cur \notin contended'
                   PROVE  /\ home'[exec'[d].cur] = target'[Row(d)']
                          /\ \A c \in Execs : exec'[c].pc \in Owning /\ exec'[c].cur = exec'[d].cur => c = d
        BY DEF Owned
      <3>1. exec'[d] = exec[d] /\ Row(d)' = Row(d) /\ exec[d].cur \in Servers  BY <1>5, <2>2 DEF Owning
      <3>2. exec[d].cur # s  BY <1>4, <2>3, <3>1
      <3> QED  BY <1>4, <1>5, <2>1, <3>1, <3>2 DEF OInv, Owned, Owning
    <2>5. GivenUp'
      <3> SUFFICES ASSUME NEW d \in Execs, exec'[d].pc = "mark", exec'[d].cur \notin contended'
                   PROVE  home'[exec'[d].cur] = target'[Row(d)'] /\ exec'[d].cur \notin bound'
        BY DEF GivenUp
      <3>1. exec'[d] = exec[d] /\ Row(d)' = Row(d) /\ exec[d].cur \in Servers  BY <1>5, <2>2
      <3>2. home[exec[d].cur] = target[Row(d)] /\ exec[d].cur \notin bound
        BY <1>4, <3>1 DEF OInv, GivenUp
      <3> QED  BY <1>4, <1>7, <2>1, <3>1, <3>2
    <2>6. NeverHomeless'  BY <1>4, <1>7, <2>1 DEF OInv, NeverHomeless
    <2>7. AwaitingMeansMoved'  BY <1>3, <1>4, <1>7, <2>1 DEF OInv, AwaitingMeansMoved
    <2> QED  BY <2>4, <2>5, <2>6, <2>7 DEF OInv
  <1> QED  BY <1>1, <1>6, <1>7

LEMMA OComplete ==
  ASSUME TInv, OInv, NEW e \in Execs, CompleteRecoveryOwnership(e) PROVE OInv'
  <1> USE DEF CompleteRecoveryOwnership
  <1>1. CASE ItemFails(e) /\ UNCHANGED <<bound, live>>
    <2>1. /\ \A p \in Plans, t \in Servers : <<p, t>> # Row(e) => item'[<<p, t>>] = item[<<p, t>>]
          /\ item'[Row(e)] = "failed"
          /\ exec'[e].pc = "next"
          /\ \A d \in Execs : d # e => exec'[d] = exec[d]
      BY <1>1, RowEnded DEF ItemFails
    <2>2. \A p \in Plans, t \in Servers : item'[<<p, t>>] = "awaiting" => item[<<p, t>>] = "awaiting"
      BY <2>1
    <2>3. \A d \in Execs : exec'[d].pc \in {"complete", "rollback", "mark"} => exec'[d] = exec[d]
      BY <2>1
    <2> QED  BY <1>1, <2>2, <2>3, OKept
  <1>2. CASE bound' = bound \ {exec[e].cur} /\ At(e, "mark") /\ UNCHANGED item
    <2>1. PICK s \in Servers : s = exec[e].cur  BY Current
    <2>2. /\ exec'[e] = [pc |-> "mark", plan |-> exec[e].plan, todo |-> exec[e].todo, cur |-> exec[e].cur]
          /\ \A d \in Execs : d # e => exec'[d] = exec[d]
      BY <1>2, AtSets DEF TInv, TypeOK
    <2>3. target' = target /\ home' = home /\ contended' = contended /\ item' = item
      BY <1>2
    <2>4. \A d \in Execs : Row(d)' = Row(d) /\ exec'[d].cur = exec[d].cur  BY <2>2 DEF Row
    <2>5. \A d \in Execs : exec'[d].pc \in Owning => exec[d].pc \in Owning  BY <2>2 DEF Owning
    <2>6. s \notin contended => home[s] = target[Row(e)]  BY <2>1 DEF OInv, Owned, Owning
    <2>7. Owned'  BY <2>3, <2>4, <2>5 DEF OInv, Owned
    <2>8. GivenUp'
      <3> SUFFICES ASSUME NEW d \in Execs, exec'[d].pc = "mark", exec'[d].cur \notin contended'
                   PROVE  home'[exec'[d].cur] = target'[Row(d)'] /\ exec'[d].cur \notin bound'
        BY DEF GivenUp
      <3>1. CASE d = e  BY <1>2, <2>1, <2>3, <2>4, <2>6, <3>1
      <3>2. CASE d # e  BY <1>2, <2>2, <2>3, <2>4, <3>2 DEF OInv, GivenUp
      <3> QED  BY <3>1, <3>2
    <2>9. NeverHomeless'
      <3>1. target[Row(e)] \in Targets  BY Current DEF Row
      <3>2. s \notin contended => home[s] # HomeOf[s]  BY <2>6, <3>1, RecoveryAssumption
      <3> QED  BY <1>2, <2>1, <2>3, <3>2 DEF OInv, NeverHomeless
    <2>10. AwaitingMeansMoved'  BY <1>2, <2>3 DEF OInv, AwaitingMeansMoved
    <2> QED  BY <2>7, <2>8, <2>9, <2>10 DEF OInv
  <1> QED  BY <1>1, <1>2

LEMMA OMarkAwaiting ==
  ASSUME TInv, OInv, NEW e \in Execs, MarkAwaiting(e) PROVE OInv'
  <1> USE DEF MarkAwaiting
  <1>1. /\ \A p \in Plans, t \in Servers : <<p, t>> # Row(e) => item'[<<p, t>>] = item[<<p, t>>]
        /\ exec'[e].pc = "next"
        /\ \A d \in Execs : d # e => exec'[d] = exec[d]
    BY RowEnded
  <1>2. target' = target /\ home' = home /\ bound' = bound /\ contended' = contended  OBVIOUS
  <1>3. \A d \in Execs : exec'[d].pc \in {"complete", "rollback", "mark"} => exec'[d] = exec[d] /\ Row(d)' = Row(d)
    BY <1>1 DEF Row
  <1>4. Owned'
    <2> SUFFICES ASSUME NEW d \in Execs, exec'[d].pc \in Owning, exec'[d].cur \notin contended'
                 PROVE  /\ home'[exec'[d].cur] = target'[Row(d)']
                        /\ \A c \in Execs : exec'[c].pc \in Owning /\ exec'[c].cur = exec'[d].cur => c = d
      BY DEF Owned
    <2> QED  BY <1>2, <1>3 DEF OInv, Owned, Owning
  <1>5. GivenUp'  BY <1>2, <1>3 DEF OInv, GivenUp
  <1>6. NeverHomeless'  BY <1>2 DEF OInv, NeverHomeless
  <1>7. AwaitingMeansMoved'
    <2> SUFFICES ASSUME NEW p \in Plans, NEW t \in Servers \ contended', item'[<<p, t>>] = "awaiting"
                 PROVE  home'[t] = target'[<<p, t>>] /\ t \notin bound'
      BY DEF AwaitingMeansMoved
    <2>1. CASE <<p, t>> = Row(e)
      <3>1. exec[e].cur = t  BY <2>1 DEF Row
      <3> QED  BY <1>2, <2>1, <3>1 DEF OInv, GivenUp
    <2>2. CASE <<p, t>> # Row(e)  BY <1>1, <1>2, <2>2 DEF OInv, AwaitingMeansMoved
    <2> QED  BY <2>1, <2>2
  <1> QED  BY <1>4, <1>5, <1>6, <1>7 DEF OInv

\* CreatePlan changes items and targets only of servers that have no item.
LEMMA OPlanningStep ==
  ASSUME TInv, OInv, NEW p \in Plans, PlanningStep(p) PROVE OInv'
  <1>0. UNCHANGED <<home, bound, contended, exec>>
    BY DEF PlanningStep, CreatePlan, SkipServer, CheckReservation, InsertReservation,
           CreateRecoveryItem, FinishPlanning, AbandonPlanning
  <1>1. ASSUME NEW s \in Servers, NEW status, status # "awaiting", item[<<p, s>>] = "none",
               SetItem(p, s, status) \/ item' = item,
               target' = target \/ \E n : target' = [target EXCEPT ![<<p, s>>] = n]
        PROVE  OInv'
    <2>1. \A q \in Plans, t \in Servers : item'[<<q, t>>] = "awaiting" => item[<<q, t>>] = "awaiting"
      <3>1. CASE item' = item  BY <3>1
      <3>2. CASE SetItem(p, s, status)  BY <1>1, <3>2 DEF SetItem, TInv, TypeOK
      <3> QED  BY <1>1, <3>1, <3>2
    <2>2. \A q \in Plans, t \in Servers :
            item[<<q, t>>] # "none" => target'[<<q, t>>] = target[<<q, t>>]
      BY <1>1 DEF TInv, TypeOK
    <2> QED  BY <1>0, <2>1, <2>2, OKept
  <1>2. CASE CreatePlan(p) \/ FinishPlanning(p) \/ AbandonPlanning(p)
    <2>1. item' = item /\ target' = target
      BY <1>2 DEF CreatePlan, FinishPlanning, AbandonPlanning
    <2> QED  BY <1>0, <2>1, OKept
  <1>3. ASSUME NEW s \in Servers, SkipServer(p, s) PROVE OInv'
    <2>1. item[<<p, s>>] = "none"  BY <1>3 DEF SkipServer, TInv, Fresh
    <2>2. PICK status \in {"dropped", "failed"} : SetItem(p, s, status)  BY <1>3 DEF SkipServer
    <2>3. target' = target  BY <1>3 DEF SkipServer
    <2> QED  BY <1>1, <2>1, <2>2, <2>3
  <1>4. ASSUME NEW s \in Servers, NEW n \in Targets, CheckReservation(p, s, n) PROVE OInv'
    <2>1. item[<<p, s>>] = "none"  BY <1>4 DEF CheckReservation, TInv, Fresh
    <2>2. SetItem(p, s, "failed") \/ item' = item  BY <1>4 DEF CheckReservation
    <2>3. target' = target \/ target' = [target EXCEPT ![<<p, s>>] = n]  BY <1>4 DEF CheckReservation
    <2> QED  BY <1>1, <2>1, <2>2, <2>3
  <1>5. CASE InsertReservation(p)
    <2>1. PICK s \in Servers : s = planner[p].cur  BY <1>5, Current DEF InsertReservation
    <2>2. item[<<p, s>>] = "none"  BY <1>5, <2>1, Current DEF InsertReservation, TInv, Fresh
    <2>3. SetItem(p, s, "failed") \/ item' = item
      BY <1>5, <2>1 DEF InsertReservation, Unplanned
    <2>4. target' = target \/ target' = [target EXCEPT ![<<p, s>>] = None]
      BY <1>5, <2>1 DEF InsertReservation, Unplanned
    <2> QED  BY <1>1, <2>2, <2>3, <2>4
  <1>6. CASE CreateRecoveryItem(p)
    <2>1. PICK s \in Servers : s = planner[p].cur  BY <1>6, Current DEF CreateRecoveryItem
    <2>2. item[<<p, s>>] = "none"  BY <1>6, <2>1, Current DEF CreateRecoveryItem, TInv, Fresh
    <2>3. PICK status \in {"planned", "none", "failed"} : SetItem(p, s, status)
      BY <1>6, <2>1 DEF CreateRecoveryItem, Unplanned
    <2>4. target' = target \/ target' = [target EXCEPT ![<<p, s>>] = None]
      BY <1>6, <2>1 DEF CreateRecoveryItem, Unplanned
    <2> QED  BY <1>1, <2>2, <2>3, <2>4
  <1> QED  BY <1>2, <1>3, <1>4, <1>5, <1>6 DEF PlanningStep

LEMMA OClosingStep ==
  ASSUME TInv, OInv, NEW p \in Plans, ClosingStep(p) PROVE OInv'
  <1>0. UNCHANGED <<home, bound, contended, exec, target>>
    BY DEF ClosingStep, FailPlan, CancelPlan, ReconcilePlan
  <1>1. \A q \in Plans, t \in Servers : item'[<<q, t>>] = "awaiting" => item[<<q, t>>] = "awaiting"
    <2>1. ASSUME NEW status, status # "awaiting", Mark(p, status) PROVE <1>1!:
      BY <2>1 DEF Mark
    <2>2. CASE FailPlan(p)  BY <2>1, <2>2 DEF FailPlan, Close
    <2>3. CASE CancelPlan(p)  BY <2>1, <2>3 DEF CancelPlan, Close
    <2>4. CASE \E s \in Servers : ReconcilePlan(p, s)
      BY <2>4 DEF ReconcilePlan, SetItem, TInv, TypeOK
    <2> QED  BY <2>2, <2>3, <2>4 DEF ClosingStep
  <1> QED  BY <1>0, <1>1, OKept

LEMMA OInvStep ==
  ASSUME TInv, OInv, [Next]_vars PROVE OInv'
  <1>1. CASE UNCHANGED vars  BY <1>1, OKept DEF vars
  <1>2. CASE \E p \in Plans : PlanningStep(p)  BY <1>2, OPlanningStep
  <1>3. CASE \E p \in Plans : ClosingStep(p)  BY <1>3, OClosingStep
  <1>4. ASSUME NEW e \in Execs, ExecutionStep(e) PROVE OInv'
    <2>1. CASE \E s \in Servers : BeginRecoveryOwnership(e, s)  BY <2>1, OBegin
    <2>2. CASE RollbackRecoveryOwnership(e)  BY <2>2, ORollback
    <2>3. CASE CompleteRecoveryOwnership(e)  BY <2>3, OComplete
    <2>4. CASE MarkAwaiting(e)  BY <2>4, OMarkAwaiting
    <2>5. ASSUME NEW p \in Plans, StartPlan(e, p) PROVE OInv'
      <3>1. UNCHANGED <<home, bound, contended, target>>  BY <2>5 DEF StartPlan
      <3>2. \A q \in Plans, t \in Servers : item'[<<q, t>>] = "awaiting" => item[<<q, t>>] = "awaiting"
        BY <2>5 DEF StartPlan
      <3>3. exec'[e].pc \in {"next", "done"} /\ \A d \in Execs : d # e => exec'[d] = exec[d]
        <4>1. CASE Over(e)  BY <4>1, OverSets DEF TInv, TypeOK
        <4>2. CASE ~Over(e)
          <5> DEFINE todo == {s \in Servers : item'[<<p, s>>] = "executing"}
          <5>1. exec' = [exec EXCEPT ![e] = [pc |-> "next", plan |-> p, cur |-> None, todo |-> todo]]
            BY <2>5, <4>2 DEF StartPlan
          <5> HIDE DEF todo
          <5> QED  BY <5>1 DEF TInv, TypeOK
        <4> QED  BY <4>1, <4>2
      <3>4. \A d \in Execs : exec'[d].pc \in {"complete", "rollback", "mark"} => exec'[d] = exec[d]
        BY <3>3
      <3> QED  BY <3>1, <3>2, <3>4, OKept
    <2>6. ASSUME NEW s \in Servers, RestoreFails(e, s) PROVE OInv'
      <3>1. UNCHANGED <<home, bound, contended, target>>  BY <2>6 DEF RestoreFails
      <3>2. exec[e].plan \in Plans  BY <2>6, Current DEF RestoreFails
      <3>3. \A q \in Plans, t \in Servers : item'[<<q, t>>] = "awaiting" => item[<<q, t>>] = "awaiting"
        BY <2>6, <3>2 DEF RestoreFails, TInv, TypeOK
      <3>4. exec[e] \in ExecRec  BY DEF TInv, TypeOK
      <3>5. exec' = [exec EXCEPT ![e] = [pc |-> "next", plan |-> exec[e].plan,
                                         todo |-> exec[e].todo \ {s}, cur |-> exec[e].cur]]
        BY <2>6, <3>4, ExecForms DEF RestoreFails
      <3>6. \A d \in Execs : exec'[d].pc \in {"complete", "rollback", "mark"} => exec'[d] = exec[d]
        BY <3>5 DEF TInv, TypeOK
      <3> QED  BY <3>1, <3>3, <3>6, OKept
    <2>7. CASE FinishExecution(e) \/ AbandonExecution(e)
      <3>1. UNCHANGED <<home, bound, contended, target, item>> /\ Over(e)
        BY <2>7 DEF FinishExecution, AbandonExecution
      <3>2. \A d \in Execs : exec'[d].pc \in {"complete", "rollback", "mark"} => exec'[d] = exec[d]
        BY <3>1, OverSets DEF TInv, TypeOK
      <3> QED  BY <3>1, <3>2, OKept
    <2> QED  BY <1>4, <2>1, <2>2, <2>3, <2>4, <2>5, <2>6, <2>7 DEF ExecutionStep
  <1>5. CASE \E x \in live : Expire(x)  BY <1>5, OKept DEF Expire
  <1>6. CASE \E p \in closing : AbandonClosing(p)  BY <1>6, OKept DEF AbandonClosing
  <1> QED  BY <1>1, <1>2, <1>3, <1>4, <1>5, <1>6 DEF Next

LEMMA OInvInit == Init => OInv
  BY DEF Init, OInv, Owned, GivenUp, NeverHomeless, AwaitingMeansMoved, Owning

LEMMA OInvAlways == Spec => []OInv
  <1>1. TInv /\ OInv /\ [Next]_vars => TInv' /\ OInv'
    BY TInvStep, OInvStep
  <1> QED  BY <1>1, TInvInit, OInvInit, PTL DEF Spec

\* A server that no two executions owned at a time is never on its offline node
\* with its allocation there given up: RollbackRecoveryOwnership and
\* CompleteRecoveryOwnership cannot both have their way with it.
THEOREM ServersKeepAHome == Spec => []NeverHomeless
  <1>1. OInv => NeverHomeless  BY DEF OInv
  <1> QED  BY <1>1, OInvAlways, PTL

\* An item that waits for the beacon has moved its server for good.
THEOREM AwaitingIsFinal == Spec => []AwaitingMeansMoved
  <1>1. OInv => AwaitingMeansMoved  BY DEF OInv
  <1> QED  BY <1>1, OInvAlways, PTL
=============================================================================
