----------------------- MODULE OperationServiceProofs -----------------------
(***************************************************************************)
(* The operation service without leases: an operation has one holder,      *)
(* outcomes are final, and nobody brings a cancelled operation back but     *)
(* the worker that held it.                                                 *)
(***************************************************************************)
EXTENDS OperationService, TLAPS

\* A row that a worker holds is running, or was cancelled under it: claiming leaves
\* the claimable statuses, and whoever writes an outcome lets go of the row.
HeldIsTaken ==
    \A w \in OWorkers : oheld[w] \in Ops => ost[oheld[w]] \in {"running", "cancelled"}

\* The attempts of an operation stay below the limit while it may have another.
AttemptsLeft ==
    /\ \A o \in Ops : ost[o] = "absent" \/ ost[o] \in Live => attempts[o] < OMaxRetries
    /\ \A w \in OWorkers :
         opc[w] \in {"claimed", "backoff", "retrying"} /\ oheld[w] \in Ops
             => attempts[oheld[w]] < OMaxRetries

Inv == TypeOK /\ OneHolder /\ HeldIsTaken /\ AttemptsLeft

\* The invariant holds when the service starts on an empty table.
LEMMA InitInv == Init => Inv
BY OperationAssumption
   DEF Init, OwnInit, Inv, TypeOK, OneHolder, Holders, HeldIsTaken, AttemptsLeft, Status, Live,
       Settled, PC, Writes

\* Dispatches and cancels: rows change, holders do not.
LEMMA RequestInv ==
    ASSUME Inv, NEW o \in Ops,
           CreateOperation(o) \/ CreateStep(o) \/ CreateFails(o) \/ CancelOperation(o)
    PROVE  Inv'
<1> USE OperationAssumption DEF Inv, TypeOK, OneHolder, Holders, HeldIsTaken, AttemptsLeft,
        Status, Live, Settled, PC, Writes, workerVars, tableVars, boundVars
<1>1. CASE CreateOperation(o) BY <1>1 DEF CreateOperation
<1>2. CASE CreateStep(o) BY <1>2 DEF CreateStep
<1>3. CASE CreateFails(o) BY <1>3 DEF CreateFails
<1>4. CASE CancelOperation(o) BY <1>4 DEF CancelOperation
<1> QED BY <1>1, <1>2, <1>3, <1>4

\* A worker claims a row that is queued or retrying: such a row has no holder, since a
\* held one is running or cancelled.
LEMMA ClaimInv ==
    ASSUME Inv, NEW w \in OWorkers, NEW o \in Ops \cup Jobs, Claim(w, o)
    PROVE  Inv'
<1> USE OperationAssumption
<1> USE DEF Inv, workerVars, tableVars, boundVars
<1>1. /\ Row(o) \in Live
      /\ oheld' = [oheld EXCEPT ![w] = o]
      /\ opc' = [opc EXCEPT ![w] = "claimed"]
      /\ ost' = IF o \in Ops THEN [ost EXCEPT ![o] = "running"] ELSE ost
      /\ op' = IF o \in Ops THEN op ELSE [op EXCEPT ![o] = "running"]
      /\ UNCHANGED <<steps, attempts, dispatching, down, stranded, stops, ocancels>>
  BY DEF Claim, Claimable, SetRow
<1>2. TypeOK'
  BY <1>1 DEF TypeOK, Status, PC, Writes
<1>3. o \in Ops => Holders(o) = {} /\ attempts[o] < OMaxRetries
  BY <1>1 DEF Row, Live, Holders, HeldIsTaken, AttemptsLeft
<1>4. OneHolder'
  BY <1>1, <1>3 DEF OneHolder, Holders, TypeOK
<1>5. HeldIsTaken'
  BY <1>1, <1>3 DEF HeldIsTaken, TypeOK
<1>6. AttemptsLeft'
  BY <1>1, <1>3 DEF AttemptsLeft, TypeOK, Live
<1> QED BY <1>2, <1>4, <1>5, <1>6

\* UpdateStatus(running): one more attempt, of an operation that had one left.
LEMMA MarkRunningInv ==
    ASSUME Inv, NEW w \in OWorkers, MarkRunning(w)
    PROVE  Inv'
<1> USE OperationAssumption
<1> USE DEF Inv, workerVars, tableVars, boundVars
<1> DEFINE o == oheld[w]
<1>1. /\ o \in Ops /\ o \in steps
      /\ opc[w] = "claimed"
      /\ attempts[o] < OMaxRetries
      /\ attempts' = [attempts EXCEPT ![o] = @ + 1]
      /\ ost' = [ost EXCEPT ![o] = "running"]
      /\ \/ opc' = [opc EXCEPT ![w] = "handler"]
         \/ opc' = [opc EXCEPT ![w] = "failed"]
      /\ UNCHANGED <<op, steps, dispatching, oheld, down, stranded, stops, ocancels>>
  BY DEF MarkRunning, SetRow, TypeOK, AttemptsLeft
<1>2. TypeOK'
  BY <1>1 DEF TypeOK, Status, PC, Writes
<1>3. \A v \in OWorkers : oheld[v] = o => v = w
  BY <1>1 DEF OneHolder, Holders
<1>4. OneHolder'
  BY <1>1 DEF OneHolder, Holders
<1>5. HeldIsTaken'
  BY <1>1 DEF HeldIsTaken, TypeOK
<1>6. AttemptsLeft'
  BY <1>1, <1>3 DEF AttemptsLeft, TypeOK, Live
<1> QED BY <1>2, <1>4, <1>5, <1>6

\* A worker's handler ends or its backoff does; only its place changes.
LEMMA HandlerInv ==
    ASSUME Inv, NEW w \in OWorkers,
           HandlerReturns(w) \/ HandlerPanics(w) \/ BackoffEnds(w)
    PROVE  Inv'
<1> USE OperationAssumption
<1> USE DEF Inv, workerVars, tableVars, boundVars
<1> DEFINE P == {"succeeded", "failed", "backoff", "retrying", "cancelled"}
<1>1. PICK pl \in P : /\ opc' = [opc EXCEPT ![w] = pl]
                      /\ pl \in {"backoff", "retrying"} /\ oheld[w] \in Ops
                             => attempts[oheld[w]] < OMaxRetries
  BY DEF HandlerReturns, HandlerPanics, BackoffEnds, AfterError, AttemptsLeft, TypeOK
<1>2. /\ opc[w] # "idle"
      /\ UNCHANGED <<ost, op, steps, attempts, dispatching, oheld, down, stranded,
                     stops, ocancels>>
  BY DEF HandlerReturns, HandlerPanics, BackoffEnds
<1>3. TypeOK'
  BY <1>1, <1>2 DEF TypeOK, PC, Writes
<1>4. OneHolder' /\ HeldIsTaken'
  BY <1>2 DEF OneHolder, Holders, HeldIsTaken
<1>5. AttemptsLeft'
  BY <1>1, <1>2 DEF AttemptsLeft, TypeOK
<1> QED BY <1>3, <1>4, <1>5

\* The worker lets go of its row, whatever it wrote to it before.
LEMMA ReleaseInv ==
    ASSUME Inv, NEW w \in OWorkers,
           MarkRunningFails(w) \/ WriteOutcome(w) \/ WriteOutcomeFails(w)
    PROVE  Inv'
<1> USE OperationAssumption
<1> USE DEF Inv, workerVars, tableVars, boundVars
<1> DEFINE o == oheld[w]
<1>1. /\ opc' = [opc EXCEPT ![w] = "idle"]
      /\ oheld' = [oheld EXCEPT ![w] = Nil]
      /\ opc[w] # "idle" /\ o \in Ops \cup Jobs
      /\ \/ UNCHANGED <<ost, op>>
         \/ opc[w] \in Writes /\ SetRow(o, opc[w])
      /\ stranded' \in {stranded, stranded \cup {o}}
      /\ UNCHANGED <<steps, attempts, dispatching, down, stops, ocancels>>
  BY DEF MarkRunningFails, WriteOutcome, WriteOutcomeFails, Release, TypeOK, Writes
<1>2. TypeOK'
  BY <1>1 DEF TypeOK, SetRow, Status, PC, Writes, Live, Settled
<1>3. OneHolder'
  BY <1>1 DEF OneHolder, Holders, TypeOK
<1>4. \A v \in OWorkers : v # w /\ o \in Ops => oheld[v] # o
  BY DEF OneHolder, Holders
<1>5. HeldIsTaken'
  BY <1>1, <1>4 DEF HeldIsTaken, SetRow, TypeOK
<1>6. AttemptsLeft'
  BY <1>1 DEF AttemptsLeft, SetRow, TypeOK, Live, Writes
<1> QED BY <1>2, <1>3, <1>5, <1>6

\* The life of a process: its workers go on or forget what they held.
LEMMA ProcessInv ==
    ASSUME Inv, NEW p \in OProcs,
           StopService(p) \/ CrashService(p) \/ RestartService(p)
    PROVE  Inv'
<1> USE OperationAssumption
<1> USE DEF Inv, workerVars, tableVars, boundVars
<1>1. CASE StopService(p)
  BY <1>1 DEF StopService, TypeOK, OneHolder, Holders, HeldIsTaken, AttemptsLeft
<1>2. CASE CrashService(p)
  <2>1. \A w \in OWorkers : \/ opc'[w] = opc[w] /\ oheld'[w] = oheld[w]
                            \/ opc'[w] = "idle" /\ oheld'[w] = Nil
    BY <1>2 DEF CrashService
  <2>2. TypeOK'
    BY <1>2 DEF CrashService, TypeOK, PC
  <2>3. OneHolder' /\ HeldIsTaken' /\ AttemptsLeft'
    BY <1>2, <2>1 DEF CrashService, OneHolder, Holders, HeldIsTaken, AttemptsLeft
  <2> QED BY <2>2, <2>3
<1>3. CASE RestartService(p)
  BY <1>3 DEF RestartService, TypeOK, OneHolder, Holders, HeldIsTaken, AttemptsLeft
<1> QED BY <1>1, <1>2, <1>3

\* Every step of the service preserves the invariant.
LEMMA StepInv == Inv /\ [Next]_vars => Inv'
<1> SUFFICES ASSUME Inv, [Next]_vars PROVE Inv'
  OBVIOUS
<1>1. CASE \E o \in Ops : CreateOperation(o) \/ CreateStep(o) \/ CreateFails(o)
                             \/ CancelOperation(o)
  BY <1>1, RequestInv
<1>2. CASE \E w \in OWorkers : WorkerStep(w)
  BY <1>2, ClaimInv, MarkRunningInv, HandlerInv, ReleaseInv DEF WorkerStep
<1>3. CASE \E p \in OProcs : StopService(p) \/ CrashService(p) \/ RestartService(p)
  BY <1>3, ProcessInv
<1>4. CASE UNCHANGED vars
  BY <1>4 DEF vars, workerVars, tableVars, boundVars, Inv, TypeOK, OneHolder,
              Holders, HeldIsTaken, AttemptsLeft
<1> QED BY <1>1, <1>2, <1>3, <1>4 DEF Next

\* The inductive invariant of the service: one holder per operation, whose row is taken,
\* and attempts left for whoever may use one.
THEOREM InvHolds == Spec => []Inv
BY InitInv, StepInv, PTL DEF Spec

\* The rows, the workers and the attempts keep their types; in particular no
\* operation gets more attempts than OMaxRetries, whatever crashes and write errors
\* come between them.
THEOREM TypeCorrect == Spec => []TypeOK
<1>1. Inv => TypeOK BY DEF Inv
<1> QED BY InvHolds, <1>1, PTL

\* No operation is worked on by two workers, of any number in any number of
\* processes, although Dequeue looks at nothing but the status.
THEOREM OneHolderHolds == Spec => []OneHolder
<1>1. Inv => OneHolder BY DEF Inv
<1> QED BY InvHolds, <1>1, PTL

\* Which rows a step rewrites: a claimable one, one that its worker holds, or one
\* that Cancel found unsettled.
LEMMA RewrittenRows ==
    ASSUME Inv, [Next]_vars, NEW o \in Ops, ost'[o] # ost[o]
    PROVE  \/ ost[o] \in Live \cup {"absent"}
           \/ Holders(o) # {}
           \/ ost[o] \notin Settled
<1> USE DEF Inv, TypeOK, workerVars, tableVars, boundVars
<1>1. CASE \E k \in Ops : CreateOperation(k) \/ CreateStep(k) \/ CreateFails(k)
                             \/ CancelOperation(k)
  BY <1>1 DEF CreateOperation, CreateStep, CreateFails, CancelOperation
<1>2. CASE \E w \in OWorkers : WorkerStep(w)
  <2> PICK w \in OWorkers : WorkerStep(w) BY <1>2
  <2>1. CASE \E k \in Ops \cup Jobs : Claim(w, k)
    BY <2>1 DEF Claim, Claimable, Row, SetRow
  <2>2. CASE MarkRunning(w) \/ WriteOutcome(w)
    BY <2>2 DEF MarkRunning, WriteOutcome, SetRow, Holders
  <2>3. CASE MarkRunningFails(w) \/ HandlerReturns(w) \/ HandlerPanics(w) \/ BackoffEnds(w)
                \/ WriteOutcomeFails(w)
    BY <2>3 DEF MarkRunningFails, HandlerReturns, HandlerPanics, BackoffEnds, WriteOutcomeFails
  <2> QED BY <2>1, <2>2, <2>3 DEF WorkerStep
<1>3. CASE \E p \in OProcs : StopService(p) \/ CrashService(p) \/ RestartService(p)
  BY <1>3 DEF StopService, CrashService, RestartService
<1>4. CASE UNCHANGED vars
  BY <1>4 DEF vars
<1> QED BY <1>1, <1>2, <1>3, <1>4 DEF Next

\* A succeeded or failed operation keeps its status through every later claim,
\* outcome, cancel, dispatch and crash.
THEOREM OutcomesAreFinal == Spec => OutcomeFinal
<1>1. Inv /\ [Next]_vars
        => [\A o \in Ops : ost[o] \in {"succeeded", "failed"} => ost'[o] = ost[o]]_vars
  <2> SUFFICES ASSUME Inv, [Next]_vars, NEW o \in Ops, ost[o] \in {"succeeded", "failed"}
               PROVE  ost'[o] = ost[o]
    OBVIOUS
  <2>1. Holders(o) = {}
    BY DEF Inv, HeldIsTaken, Holders
  <2> QED BY <2>1, RewrittenRows DEF Live, Settled
<1> QED BY InvHolds, <1>1, PTL DEF Spec, OutcomeFinal

\* A cancelled operation that nobody holds stays cancelled.
THEOREM CancelsHold == Spec => CancelHolds
<1>1. Inv /\ [Next]_vars
        => [\A o \in Ops : ost[o] = "cancelled" /\ Holders(o) = {} => ost'[o] = "cancelled"]_vars
  <2> SUFFICES ASSUME Inv, [Next]_vars, NEW o \in Ops, ost[o] = "cancelled", Holders(o) = {}
               PROVE  ost'[o] = "cancelled"
    OBVIOUS
  <2> QED BY RewrittenRows DEF Live, Settled
<1> QED BY InvHolds, <1>1, PTL DEF Spec, CancelHolds
=============================================================================
