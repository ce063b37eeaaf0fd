-------------------------- MODULE OperationService --------------------------
(***************************************************************************)
(* The durable operation service (forge/api/internal/services/operation):  *)
(* power and compose requests become rows of the operations table, which   *)
(* its own worker goroutines poll, run and settle.  Unlike the job queue it *)
(* has no lease: a row that a worker claimed is "running" until that worker *)
(* writes something else.                                                  *)
(*                                                                         *)
(* The job queue inserts its rows into the same table.  They are the       *)
(* variable op here (rows of Jobs), next to the rows of this service (ost). *)
(* A worker of this service claims them like its own, but cannot insert an  *)
(* attempt for them: their step row has another id, and the foreign key of  *)
(* operation_attempts refuses it.                                          *)
(***************************************************************************)
EXTENDS Integers

CONSTANTS
    Ops,            \* ids of operations this service creates
    Jobs,           \* ids of operations the job queue creates
    OProcs,         \* API processes
    OWorkers,       \* worker goroutines of their operation services
    OProcOf,        \* the process of a worker
    OHandled,       \* operations with a registered handler
    OMaxRetries,    \* Config.MaxRetries, 3 in DefaultConfig
    OErrors,        \* TRUE: a database statement may fail
    OMaxStops,      \* bound: crashes and stops
    OMaxCancels,    \* bound: calls of Service.Cancel
    Nil

ASSUME OperationAssumption ==
    /\ OProcOf \in [OWorkers -> OProcs]
    /\ OHandled \subseteq Ops
    /\ OMaxRetries \in Nat \ {0}
    /\ OErrors \in BOOLEAN
    /\ OMaxStops \in Nat
    /\ OMaxCancels \in Nat
    /\ Ops \cap Jobs = {}
    /\ Nil \notin Ops \cup Jobs

VARIABLES
    ost,            \* operations.status of this service's rows
    op,             \* operations.status of the job queue's rows
    steps,          \* operations whose operation_steps row exists
    attempts,       \* operation_attempts rows of an operation
    dispatching,    \* operations between the two inserts of Create
    opc,            \* where a worker goroutine is
    oheld,          \* the operation it claimed
    down,           \* processes whose context is cancelled by Stop
    stranded,       \* history: rows a worker let go of without an outcome
    stops,          \* crashes and stops so far
    ocancels        \* Cancel calls so far

workerVars == <<opc, oheld>>
tableVars == <<ost, op, steps, attempts>>
boundVars == <<stops, ocancels>>
vars == <<tableVars, dispatching, workerVars, down, stranded, boundVars>>

Live == {"queued", "retrying"}
Settled == {"succeeded", "failed", "cancelled"}
Status == {"absent", "running"} \cup Live \cup Settled
\* The status a worker is about to write with UpdateStatus.
Writes == {"succeeded", "failed", "retrying", "cancelled"}
PC == {"idle", "claimed", "handler", "backoff"} \cup Writes

TypeOK ==
    /\ ost \in [Ops -> Status]
    /\ op \in [Jobs -> Status]
    /\ steps \in SUBSET Ops
    /\ attempts \in [Ops -> 0..OMaxRetries]
    /\ dispatching \in SUBSET Ops
    /\ opc \in [OWorkers -> PC]
    /\ oheld \in [OWorkers -> Ops \cup Jobs \cup {Nil}]
    /\ \A w \in OWorkers : oheld[w] = Nil <=> opc[w] = "idle"
    /\ down \in SUBSET OProcs
    /\ stranded \in SUBSET (Ops \cup Jobs)
    /\ stops \in 0..OMaxStops
    /\ ocancels \in 0..OMaxCancels

OwnInit ==
    /\ ost = [o \in Ops |-> "absent"]
    /\ steps = {}
    /\ attempts = [o \in Ops |-> 0]
    /\ dispatching = {}
    /\ opc = [w \in OWorkers |-> "idle"]
    /\ oheld = [w \in OWorkers |-> Nil]
    /\ down = {}
    /\ stranded = {}
    /\ stops = 0
    /\ ocancels = 0

Init == OwnInit /\ op = [j \in Jobs |-> "absent"]

-----------------------------------------------------------------------------
(* Dispatch *)

\* Mutant of CreateOperation: a row that is there is queued again.
CreateOperationUpserts(o) ==
    /\ o \in OHandled
    /\ ost' = [ost EXCEPT ![o] = "queued"]
    /\ dispatching' = dispatching \cup {o}
    /\ UNCHANGED <<op, steps, attempts, workerVars, down, stranded, boundVars>>

\* DispatchPower and DispatchCompose: refused without a handler.  The first
\* insert of Create commits on its own; a row that is there stays as it is.
CreateOperation(o) ==
    /\ o \in OHandled
    /\ ost' = [ost EXCEPT ![o] = IF @ = "absent" THEN "queued" ELSE @]
    /\ dispatching' = dispatching \cup {o}
    /\ UNCHANGED <<op, steps, attempts, workerVars, down, stranded, boundVars>>

\* The second insert of Create, and the answer to the caller.
CreateStep(o) ==
    /\ o \in dispatching
    /\ steps' = steps \cup {o}
    /\ dispatching' = dispatching \ {o}
    /\ UNCHANGED <<ost, op, attempts, workerVars, down, stranded, boundVars>>

\* The second insert fails, or the process dies before it.
CreateFails(o) ==
    /\ OErrors
    /\ o \in dispatching
    /\ dispatching' = dispatching \ {o}
    /\ UNCHANGED <<tableVars, workerVars, down, stranded, boundVars>>

-----------------------------------------------------------------------------
(* The worker goroutine *)

Row(o) == IF o \in Ops THEN ost[o] ELSE op[o]

\* Mutants of Claimable: running rows are taken over, or retrying ones forgotten.
ClaimableRunning == {o \in Ops \cup Jobs : Row(o) \in Live \cup {"running"}}
ClaimableQueued == {o \in Ops \cup Jobs : Row(o) = "queued"}

\* The WHERE clause of Dequeue.
Claimable == {o \in Ops \cup Jobs : Row(o) \in Live}

\* UPDATE operations SET status ... WHERE id=$1, on either kind of row.
SetRow(o, s) ==
    /\ ost' = IF o \in Ops THEN [ost EXCEPT ![o] = s] ELSE ost
    /\ op' = IF o \in Ops THEN op ELSE [op EXCEPT ![o] = s]

\* Dequeue: any queued or retrying row, retrying rows first.
Claim(w, o) ==
    /\ opc[w] = "idle"
    /\ OProcOf[w] \notin down
    /\ o \in Claimable
    /\ Row(o) = "retrying" \/ \A k \in Claimable : Row(k) # "retrying"
    /\ SetRow(o, "running")
    /\ opc' = [opc EXCEPT ![w] = "claimed"]
    /\ oheld' = [oheld EXCEPT ![w] = o]
    /\ UNCHANGED <<steps, attempts, dispatching, down, stranded, boundVars>>

\* process returns and the worker polls again.
Release(w) ==
    /\ opc' = [opc EXCEPT ![w] = "idle"]
    /\ oheld' = [oheld EXCEPT ![w] = Nil]

\* UpdateStatus(running) inserts the attempt and sets the status in one
\* statement; AttemptCount and the handler lookup follow.  Only the holder of the
\* row inserts attempts, so counting them belongs to the same step.
MarkRunning(w) ==
    LET o == oheld[w]
    IN  /\ opc[w] = "claimed"
        /\ OProcOf[w] \notin down
        /\ o \in steps
        /\ SetRow(o, "running")
        /\ attempts' = [attempts EXCEPT ![o] = @ + 1]
        /\ \/ opc' = [opc EXCEPT ![w] = IF o \in OHandled THEN "handler" ELSE "failed"]
           \/ OErrors /\ opc' = [opc EXCEPT ![w] = "failed"]   \* AttemptCount fails
        /\ UNCHANGED <<steps, dispatching, oheld, down, stranded, boundVars>>

\* UpdateStatus(running) fails: no step row to attach the attempt to, or a
\* database error.  process logs it and returns; the row stays "running".
MarkRunningFails(w) ==
    /\ opc[w] = "claimed"
    /\ OErrors \/ oheld[w] \notin steps \/ OProcOf[w] \in down
    /\ Release(w)
    /\ stranded' = stranded \cup {oheld[w]}
    /\ UNCHANGED <<tableVars, dispatching, down, boundVars>>

\* What a handler's error leads to.
AfterError(o) == IF attempts[o] >= OMaxRetries THEN "failed" ELSE "backoff"

HandlerReturns(w) ==
    /\ opc[w] = "handler"
    /\ \E next \in {"succeeded", AfterError(oheld[w])} : opc' = [opc EXCEPT ![w] = next]
    /\ UNCHANGED <<tableVars, dispatching, oheld, down, stranded, boundVars>>

\* A panic is not retried.
HandlerPanics(w) ==
    /\ opc[w] = "handler"
    /\ opc' = [opc EXCEPT ![w] = "failed"]
    /\ UNCHANGED <<tableVars, dispatching, oheld, down, stranded, boundVars>>

\* The backoff timer fires, or Stop cancels the wait.
BackoffEnds(w) ==
    /\ opc[w] = "backoff"
    /\ opc' = [opc EXCEPT ![w] = IF OProcOf[w] \in down THEN "cancelled" ELSE "retrying"]
    /\ UNCHANGED <<tableVars, dispatching, oheld, down, stranded, boundVars>>

\* UpdateStatus with the outcome, on whatever the row holds by now.  Only the
\* cancelled outcome is written with a context that Stop does not cancel.
WriteOutcome(w) ==
    /\ opc[w] \in Writes
    /\ OProcOf[w] \notin down \/ opc[w] = "cancelled"
    /\ SetRow(oheld[w], opc[w])
    /\ Release(w)
    /\ UNCHANGED <<steps, attempts, dispatching, down, stranded, boundVars>>

\* The statement fails; the error is ignored and the row stays as it is.
WriteOutcomeFails(w) ==
    /\ opc[w] \in Writes
    /\ OErrors \/ OProcOf[w] \in down
    /\ Release(w)
    /\ stranded' = stranded \cup {oheld[w]}
    /\ UNCHANGED <<tableVars, dispatching, down, boundVars>>

-----------------------------------------------------------------------------
(* Cancel, Stop, crashes *)

\* Mutant of CancelOperation: no guard on the status.
CancelOperationAny(o) ==
    /\ ocancels < OMaxCancels
    /\ ost[o] # "absent"
    /\ ost' = [ost EXCEPT ![o] = "cancelled"]
    /\ ocancels' = ocancels + 1
    /\ UNCHANGED <<op, steps, attempts, dispatching, workerVars, down, stranded, stops>>

\* Service.Cancel: the handler's context, then the guarded update.
CancelOperation(o) ==
    /\ ocancels < OMaxCancels
    /\ ost[o] \notin Settled \cup {"absent"}
    /\ ost' = [ost EXCEPT ![o] = "cancelled"]
    /\ ocancels' = ocancels + 1
    /\ UNCHANGED <<op, steps, attempts, dispatching, workerVars, down, stranded, stops>>

StopService(p) ==
    /\ p \notin down
    /\ stops < OMaxStops
    /\ stops' = stops + 1
    /\ down' = down \cup {p}
    /\ UNCHANGED <<tableVars, dispatching, workerVars, stranded, ocancels>>

\* The process dies and starts again: its workers forget what they claimed.
CrashService(p) ==
    /\ stops < OMaxStops
    /\ stops' = stops + 1
    /\ down' = down \ {p}
    /\ opc' = [w \in OWorkers |-> IF OProcOf[w] = p THEN "idle" ELSE opc[w]]
    /\ oheld' = [w \in OWorkers |-> IF OProcOf[w] = p THEN Nil ELSE oheld[w]]
    /\ stranded' = stranded \cup {o \in Ops \cup Jobs :
                        \E w \in OWorkers : OProcOf[w] = p /\ oheld[w] = o}
    /\ UNCHANGED <<tableVars, dispatching, ocancels>>

\* Stop has waited for the workers; the process starts again.
RestartService(p) ==
    /\ p \in down
    /\ \A w \in OWorkers : OProcOf[w] = p => opc[w] = "idle"
    /\ down' = down \ {p}
    /\ UNCHANGED <<tableVars, dispatching, workerVars, stranded, boundVars>>

-----------------------------------------------------------------------------
WorkerStep(w) ==
    \/ \E o \in Ops \cup Jobs : Claim(w, o)
    \/ MarkRunning(w)
    \/ MarkRunningFails(w)
    \/ HandlerReturns(w)
    \/ HandlerPanics(w)
    \/ BackoffEnds(w)
    \/ WriteOutcome(w)
    \/ WriteOutcomeFails(w)

Next ==
    \/ \E o \in Ops : \/ CreateOperation(o)
                      \/ CreateStep(o)
                      \/ CreateFails(o)
                      \/ CancelOperation(o)
    \/ \E w \in OWorkers : WorkerStep(w)
    \/ \E p \in OProcs : StopService(p) \/ CrashService(p) \/ RestartService(p)

Spec == Init /\ [][Next]_vars

\* Goroutines keep running, handlers return, Create's second statement is issued,
\* a stopped process starts again.
Fairness ==
    /\ \A w \in OWorkers : WF_vars(WorkerStep(w))
    /\ \A o \in Ops : WF_vars(CreateStep(o) \/ CreateFails(o))
    /\ \A p \in OProcs : WF_vars(RestartService(p))

FairSpec == Spec /\ Fairness

-----------------------------------------------------------------------------
(* Properties *)

Holders(o) == {w \in OWorkers : oheld[w] = o}

\* Without any lease, at most one worker ever works on an operation: the claim
\* leaves the claimable statuses and only the holder brings the row back there,
\* even if the row is cancelled, its worker dies or it is dispatched again.
OneHolder == \A o \in Ops : \A v, w \in Holders(o) : v = w

\* A succeeded or failed operation is final: no late worker, cancel or duplicate
\* dispatch rewrites it.
OutcomeFinal ==
    [][\A o \in Ops : ost[o] \in {"succeeded", "failed"} => ost'[o] = ost[o]]_vars

\* A cancelled operation comes back only through the worker that held it when it
\* was cancelled.
CancelHolds ==
    [][\A o \in Ops : ost[o] = "cancelled" /\ Holders(o) = {} => ost'[o] = "cancelled"]_vars

\* Every operation that is queued settles, unless a worker let go of it without
\* writing an outcome.
QueuedSettles ==
    \A o \in Ops : ost[o] \in Live ~> (ost[o] \in Settled \/ o \in stranded)
=============================================================================
