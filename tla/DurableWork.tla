---------------------------- MODULE DurableWork ----------------------------
(***************************************************************************)
(* The job queue and the operation service as cmd/api/main.go starts them: *)
(* in the same processes, on the same operations table.  The queue writes  *)
(* the rows of its jobs (op); the workers of the operation service poll    *)
(* that table and claim any row that is queued or retrying, the queue's    *)
(* included.                                                               *)
(***************************************************************************)
EXTENDS JobQueue

CONSTANTS Ops, OProcs, OWorkers, OProcOf, OHandled, OMaxRetries, OErrors,
          OMaxStops, OMaxCancels

\* What OperationService assumes of its constants.
ASSUME WorkAssumption ==
    /\ OProcOf \in [OWorkers -> OProcs]
    /\ OHandled \subseteq Ops
    /\ OMaxRetries \in Nat \ {0}
    /\ OErrors \in BOOLEAN
    /\ OMaxStops \in Nat /\ OMaxCancels \in Nat
    /\ Ops \cap Jobs = {}
    /\ None \notin Ops \cup Jobs

VARIABLES ost, steps, attempts, dispatching, opc, oheld, down,
          stranded, stops, ocancels

Service == INSTANCE OperationService WITH Nil <- None

serviceVars == <<ost, steps, attempts, dispatching, opc, oheld, down,
                 stranded, stops, ocancels>>
queueVars == <<rowVars, workerVars, bookVars>>
allVars == <<vars, serviceVars>>

WorkInit == Init /\ Service!OwnInit

WorkNext ==
    \/ Next /\ UNCHANGED serviceVars
    \/ Service!Next /\ UNCHANGED queueVars

WorkSpec == WorkInit /\ [][WorkNext]_allVars
FairWorkSpec == WorkSpec /\ Fairness

-----------------------------------------------------------------------------
(* Properties *)

\* The operations row never promises more than the job row: it says succeeded
\* only of a completed job, unless the job was cancelled or lost its lease.
\* Workers of both services write the row without looking at it.
SucceededMeansCompleted ==
    \A j \in Jobs \ (lost \cup cancelled) : op[j] = "succeeded" => status[j] = "completed"
=============================================================================
