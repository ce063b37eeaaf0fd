------------------------------ MODULE JobQueue ------------------------------
(***************************************************************************)
(* The job queue of the control plane (forge/api/internal/services/queue): *)
(* the job_queue rows, the operations rows that mirror them, and the       *)
(* worker goroutines of every API process that claim jobs under a lease,   *)
(* run their handlers and write the outcome.                               *)
(*                                                                         *)
(* One SQL statement is one step, so two workers, a cancelling request and *)
(* the clock interleave between any two statements of a handler.  Time is  *)
(* abstracted to two facts: whether a row's locked_until is in the future  *)
(* (leased) and whether its available_at is (backoff).  operation_steps    *)
(* and operation_attempts are written next to operations with the same     *)
(* outcome and are not tracked.                                            *)
(***************************************************************************)
EXTENDS Integers, FiniteSets

CONSTANTS
    Jobs,           \* job ids; an idempotency key always hashes to the same id
    Procs,          \* API processes, each with its own workerID
    Workers,        \* worker goroutines of all the processes
    ProcOf,         \* the process a worker goroutine belongs to
    Handled,        \* <<p, j>>: process p has a handler for the type of job j
    Priority,       \* the priority of a job
    Key,            \* queue_name, type, server_id and node_id of a job
    MaxRetries,     \* Job.MaxRetries, 3 in DispatchIdempotent
    MaxCrashes,     \* bound: process crashes and stops
    MaxCancels,     \* bound: calls of Service.Cancel
    None

ASSUME JobQueueAssumption ==
    /\ ProcOf \in [Workers -> Procs]
    /\ Handled \subseteq Procs \X Jobs
    /\ Priority \in [Jobs -> Int]
    /\ MaxRetries \in Nat \ {0}
    /\ MaxCrashes \in Nat
    /\ MaxCancels \in Nat
    /\ IsFiniteSet(Workers) /\ Workers # {}
    /\ None \notin Jobs \cup Procs \cup Workers

VARIABLES
    status,         \* job_queue.status, "absent" before the row is inserted
    retryCount,     \* job_queue.retry_count
    lockedBy,       \* job_queue.locked_by
    leased,         \* running rows whose locked_until is in the future
    backoff,        \* pending rows whose available_at is in the future
    op,             \* operations.status of the row with the job's id
    pc,             \* where a worker goroutine is
    held,           \* the job it dequeued
    snap,           \* RetryCount of the Job value it dequeued
    ctxDone,        \* workers whose jobCtx is cancelled or timed out
    deferred,       \* workers that still owe the delete(s.active, job.ID)
    active,         \* Service.active of each process: job -> worker
    stopping,       \* processes on which Service.Stop was called
    cancelling,     \* jobs for which a Cancel call is between two statements
    lost,           \* history: jobs whose lease ran out at least once
    cancelled,      \* history: jobs on which Cancel was called
    crashes,        \* crashes and stops so far
    cancels         \* Cancel calls so far

rowVars == <<status, retryCount, lockedBy, leased, backoff>>
workerVars == <<pc, held, snap, ctxDone, deferred, active>>
bookVars == <<stopping, cancelling, lost, cancelled, crashes, cancels>>
vars == <<rowVars, op, workerVars, bookVars>>

JobStatus == {"absent", "pending", "running", "completed", "failed"}
Terminal == {"completed", "failed"}
OpStatus == {"absent", "queued", "running", "retrying", "succeeded", "failed"}

\* What a worker does once its handler has returned, and the operations status
\* it writes after the job row in each case.
Outcome == {"Acknowledge", "Fail", "Retry"}
OpWrites == {"succeeded", "failed", "retrying"}
OpAfter(o) == IF o = "Acknowledge" THEN "succeeded"
              ELSE IF o = "Fail" THEN "failed" ELSE "retrying"
PC == {"idle", "claimed", "handler"} \cup Outcome \cup OpWrites

\* Workers that run the handler of j or are about to write its outcome.
Executing == {"claimed", "handler"} \cup Outcome
Executors(j) == {w \in Workers : held[w] = j /\ pc[w] \in Executing}

TypeOK ==
    /\ status \in [Jobs -> JobStatus]
    /\ retryCount \in [Jobs -> Nat]
    /\ lockedBy \in [Jobs -> Procs \cup {None}]
    /\ leased \in SUBSET Jobs
    /\ backoff \in SUBSET Jobs
    /\ op \in [Jobs -> OpStatus]
    /\ pc \in [Workers -> PC]
    /\ held \in [Workers -> Jobs \cup {None}]
    /\ \A w \in Workers : held[w] = None <=> pc[w] = "idle"
    /\ snap \in [Workers -> Nat]
    /\ ctxDone \in SUBSET Workers
    /\ deferred \in SUBSET Workers
    /\ active \in [Procs -> [Jobs -> Workers \cup {None}]]
    /\ stopping \in SUBSET Procs
    /\ cancelling \in SUBSET Jobs
    /\ lost \in SUBSET Jobs
    /\ cancelled \in SUBSET Jobs
    /\ crashes \in 0..MaxCrashes
    /\ cancels \in 0..MaxCancels

Init ==
    /\ status = [j \in Jobs |-> "absent"]
    /\ retryCount = [j \in Jobs |-> 0]
    /\ lockedBy = [j \in Jobs |-> None]
    /\ leased = {}
    /\ backoff = {}
    /\ op = [j \in Jobs |-> "absent"]
    /\ pc = [w \in Workers |-> "idle"]
    /\ held = [w \in Workers |-> None]
    /\ snap = [w \in Workers |-> 0]
    /\ ctxDone = {}
    /\ deferred = {}
    /\ active = [p \in Procs |-> [j \in Jobs |-> None]]
    /\ stopping = {}
    /\ cancelling = {}
    /\ lost = {}
    /\ cancelled = {}
    /\ crashes = 0
    /\ cancels = 0

-----------------------------------------------------------------------------
(* Enqueueing *)

\* Mutant of Enqueue: ON CONFLICT DO UPDATE puts a dispatched job back to pending.
EnqueueUpserts(p, j) ==
    /\ <<p, j>> \in Handled
    /\ status' = [status EXCEPT ![j] = "pending"]
    /\ op' = [op EXCEPT ![j] = IF @ = "absent" THEN "queued" ELSE @]
    /\ UNCHANGED <<retryCount, lockedBy, leased, backoff, workerVars, bookVars>>

\* idx_job_queue_unique: no other job with the key of j is pending or running.
Unique(j) == \A k \in Jobs \ {j} : Key[k] = Key[j] => status[k] \notin {"pending", "running"}

\* DispatchIdempotent and Enqueue: refused without a handler; a second dispatch
\* of the same id conflicts with the rows that are there and changes nothing.  A
\* conflict with another live job of the same key drops the job row alone: the
\* operations row is inserted and the caller told that the job is queued.
Enqueue(p, j) ==
    /\ <<p, j>> \in Handled
    /\ status' = [status EXCEPT ![j] = IF @ = "absent" /\ Unique(j) THEN "pending" ELSE @]
    /\ op' = [op EXCEPT ![j] = IF @ = "absent" THEN "queued" ELSE @]
    /\ UNCHANGED <<retryCount, lockedBy, leased, backoff, workerVars, bookVars>>

-----------------------------------------------------------------------------
(* The worker goroutine *)

\* Mutants of Candidates: running rows with a live lease too, or none of them.
CandidatesAnyRunning ==
    {j \in Jobs : (status[j] = "pending" /\ j \notin backoff) \/ status[j] = "running"}
CandidatesPendingOnly == {j \in Jobs : status[j] = "pending" /\ j \notin backoff}

\* The WHERE clause of dequeueSQL.
Candidates == {j \in Jobs : \/ status[j] = "pending" /\ j \notin backoff
                            \/ status[j] = "running" /\ j \notin leased}

\* Dequeue, first statement: claim the best candidate under a fresh lease.
\* SKIP LOCKED passes over rows another statement is updating; every such
\* statement leaves the row outside Candidates, so it reads as if it came first.
Dequeue(w, j) ==
    /\ pc[w] = "idle"
    /\ ProcOf[w] \notin stopping
    /\ j \in Candidates
    /\ \A k \in Candidates : Priority[k] <= Priority[j]
    /\ status' = [status EXCEPT ![j] = "running"]
    /\ lockedBy' = [lockedBy EXCEPT ![j] = ProcOf[w]]
    /\ leased' = leased \cup {j}
    /\ pc' = [pc EXCEPT ![w] = "claimed"]
    /\ held' = [held EXCEPT ![w] = j]
    /\ snap' = [snap EXCEPT ![w] = retryCount[j]]
    /\ UNCHANGED <<retryCount, backoff, op, ctxDone, deferred, active, bookVars>>

\* Dequeue's remaining statements, whose errors are ignored (after Stop they all
\* fail), then the head of process: register the cancel function, look up the
\* handler, start it.  A job type without a handler is failed.
Begin(w) ==
    LET p == ProcOf[w]
        j == held[w]
    IN  /\ pc[w] = "claimed"
        /\ \/ p \notin stopping /\ op' = [op EXCEPT ![j] = "running"]
           \/ UNCHANGED op
        /\ active' = [active EXCEPT ![p][j] = w]
        /\ deferred' = deferred \cup {w}
        /\ pc' = [pc EXCEPT ![w] =
                    IF <<p, j>> \in Handled THEN "handler" ELSE "Fail"]
        /\ ctxDone' = IF p \in stopping THEN ctxDone \cup {w} ELSE ctxDone
        /\ UNCHANGED <<rowVars, held, snap, bookVars>>

\* keepLease, one tick: extends the lease only of a running row this process
\* holds; the goroutine ends with the handler and with jobCtx.
Heartbeat(w) ==
    LET j == held[w]
    IN  /\ pc[w] = "handler"
        /\ w \notin ctxDone
        /\ status[j] = "running"
        /\ lockedBy[j] = ProcOf[w]
        /\ leased' = leased \cup {j}
        /\ UNCHANGED <<status, retryCount, lockedBy, backoff, op, workerVars, bookVars>>

\* jobTimeout passes while the handler runs.
JobTimeout(w) ==
    /\ pc[w] = "handler"
    /\ ctxDone' = ctxDone \cup {w}
    /\ UNCHANGED <<rowVars, op, pc, held, snap, deferred, active, bookVars>>

\* Mutant of FailureOutcome: compares the count before the increment.
FailureOutcomeLate(w) == IF snap[w] >= MaxRetries THEN "Fail" ELSE "Retry"

\* What a failed or panicking handler leads to, decided from the Job value the
\* worker dequeued and not from the row.
FailureOutcome(w) == IF snap[w] + 1 >= MaxRetries THEN "Fail" ELSE "Retry"

\* The handler returns.  A cancelled context does not decide what it returns.
HandlerReturns(w) ==
    /\ pc[w] = "handler"
    /\ pc' = [pc EXCEPT ![w] = "Acknowledge"] \/ pc' = [pc EXCEPT ![w] = FailureOutcome(w)]
    /\ UNCHANGED <<rowVars, op, held, snap, ctxDone, deferred, active, bookVars>>

\* delete(s.active, job.ID): the entry goes whichever worker registered it.
Unregister(w) == [active EXCEPT ![ProcOf[w]][held[w]] = None]

\* The handler panics: the deferred function unregisters the job before it
\* writes the outcome.
HandlerPanics(w) ==
    /\ pc[w] = "handler"
    /\ active' = Unregister(w)
    /\ deferred' = deferred \ {w}
    /\ pc' = [pc EXCEPT ![w] = FailureOutcome(w)]
    /\ ctxDone' = ctxDone \cup {w}
    /\ UNCHANGED <<rowVars, op, held, snap, bookVars>>

\* process returns: the deferred delete, and the worker polls again.
Return(w) ==
    /\ active' = IF w \in deferred THEN Unregister(w) ELSE active
    /\ deferred' = deferred \ {w}
    /\ ctxDone' = ctxDone \ {w}
    /\ pc' = [pc EXCEPT ![w] = "idle"]
    /\ held' = [held EXCEPT ![w] = None]
    /\ snap' = [snap EXCEPT ![w] = 0]

\* First statement of Acknowledge and of Fail: WHERE id=$1 and nothing else.
SetTerminal(j, s) ==
    /\ status' = [status EXCEPT ![j] = s]
    /\ lockedBy' = [lockedBy EXCEPT ![j] = None]
    /\ leased' = leased \ {j}
    /\ backoff' = backoff \ {j}
    /\ UNCHANGED retryCount

\* retrySQL.
SetRetry(j) ==
    /\ status' = [status EXCEPT ![j] = "pending"]
    /\ retryCount' = [retryCount EXCEPT ![j] = @ + 1]
    /\ lockedBy' = [lockedBy EXCEPT ![j] = None]
    /\ leased' = leased \ {j}
    /\ backoff' = backoff \cup {j}

\* The first statement of the store call that ends a job.  A late worker cannot
\* retry a job that ended when another one has its key by now.
WriteJob(w) ==
    /\ pc[w] \in Outcome
    /\ ProcOf[w] \notin stopping
    /\ \/ pc[w] = "Acknowledge" /\ SetTerminal(held[w], "completed")
       \/ pc[w] = "Fail" /\ SetTerminal(held[w], "failed")
       \/ pc[w] = "Retry" /\ Unique(held[w]) /\ SetRetry(held[w])
    /\ pc' = [pc EXCEPT ![w] = OpAfter(pc[w])]
    /\ UNCHANGED <<op, held, snap, ctxDone, deferred, active, bookVars>>

\* The statements after it, on the operations tables.
WriteOp(w) ==
    /\ pc[w] \in OpWrites
    /\ ProcOf[w] \notin stopping
    /\ op' = [op EXCEPT ![held[w]] = pc[w]]
    /\ Return(w)
    /\ UNCHANGED <<rowVars, bookVars>>

\* A statement fails; process ignores the error and the rest is not attempted.
\* Once Stop has cancelled the context every statement fails.
WriteError(w) ==
    /\ pc[w] \in Outcome \cup OpWrites
    /\ Return(w)
    /\ UNCHANGED <<rowVars, op, bookVars>>

-----------------------------------------------------------------------------
(* The clock *)

LeaseExpires(j) ==
    /\ j \in leased
    /\ leased' = leased \ {j}
    /\ lost' = lost \cup {j}
    /\ UNCHANGED <<status, retryCount, lockedBy, backoff, op, workerVars,
                   stopping, cancelling, cancelled, crashes, cancels>>

BackoffElapses(j) ==
    /\ j \in backoff
    /\ backoff' = backoff \ {j}
    /\ UNCHANGED <<status, retryCount, lockedBy, leased, op, workerVars, bookVars>>

-----------------------------------------------------------------------------
(* Cancel, Stop and crashes *)

\* Service.Cancel on process p: cancel the handler if this process runs it, then
\* the first statement of store.Fail, on whatever state the row is in.
Cancel(p, j) ==
    /\ cancels < MaxCancels
    /\ status[j] # "absent"
    /\ ctxDone' = IF active[p][j] = None THEN ctxDone ELSE ctxDone \cup {active[p][j]}
    /\ SetTerminal(j, "failed")
    /\ cancelling' = cancelling \cup {j}
    /\ cancelled' = cancelled \cup {j}
    /\ cancels' = cancels + 1
    /\ UNCHANGED <<op, pc, held, snap, deferred, active, stopping, lost, crashes>>

\* The statements of store.Fail on the operations tables.
CancelOp(j) ==
    /\ j \in cancelling
    /\ op' = [op EXCEPT ![j] = "failed"]
    /\ cancelling' = cancelling \ {j}
    /\ UNCHANGED <<rowVars, workerVars, stopping, lost, cancelled, crashes, cancels>>

WorkersOf(p) == {w \in Workers : ProcOf[w] = p}

\* Service.Stop: no more dequeues, every running context is cancelled.
Stop(p) ==
    /\ p \notin stopping
    /\ crashes < MaxCrashes
    /\ crashes' = crashes + 1
    /\ stopping' = stopping \cup {p}
    /\ ctxDone' = ctxDone \cup {w \in WorkersOf(p) : pc[w] = "handler"}
    /\ UNCHANGED <<rowVars, op, pc, held, snap, deferred, active,
                   cancelling, lost, cancelled, cancels>>

\* The process dies with its goroutines and its active map.
ProcessEnds(p) ==
    /\ pc' = [w \in Workers |-> IF ProcOf[w] = p THEN "idle" ELSE pc[w]]
    /\ held' = [w \in Workers |-> IF ProcOf[w] = p THEN None ELSE held[w]]
    /\ snap' = [w \in Workers |-> IF ProcOf[w] = p THEN 0 ELSE snap[w]]
    /\ ctxDone' = ctxDone \ WorkersOf(p)
    /\ deferred' = deferred \ WorkersOf(p)
    /\ active' = [active EXCEPT ![p] = [j \in Jobs |-> None]]
    /\ UNCHANGED <<rowVars, op, cancelling, lost, cancelled, cancels>>

\* A crash, after which the process is started again.  Its rows keep locked_by
\* and their lease.  The new workerID differs from the old one, which is never
\* compared again: a worker heartbeats only a job it claimed itself.
Crash(p) ==
    /\ crashes < MaxCrashes
    /\ crashes' = crashes + 1
    /\ ProcessEnds(p)
    /\ stopping' = stopping \ {p}

\* Stop has waited for its workers; the process exits and is started again.
Restart(p) ==
    /\ p \in stopping
    /\ \A w \in WorkersOf(p) : pc[w] = "idle"
    /\ ProcessEnds(p)
    /\ stopping' = stopping \ {p}
    /\ UNCHANGED crashes

-----------------------------------------------------------------------------
WorkerStep(w) ==
    \/ \E j \in Jobs : Dequeue(w, j)
    \/ Begin(w)
    \/ HandlerReturns(w)
    \/ HandlerPanics(w)
    \/ WriteJob(w)
    \/ WriteOp(w)
    \/ WriteError(w)

Next ==
    \/ \E p \in Procs, j \in Jobs : Enqueue(p, j) \/ Cancel(p, j)
    \/ \E w \in Workers : WorkerStep(w) \/ Heartbeat(w) \/ JobTimeout(w)
    \/ \E j \in Jobs : LeaseExpires(j) \/ BackoffElapses(j) \/ CancelOp(j)
    \/ \E p \in Procs : Stop(p) \/ Crash(p) \/ Restart(p)

Spec == Init /\ [][Next]_vars

-----------------------------------------------------------------------------
(* Fairness *)

\* Goroutines and timers keep running: workers poll and handlers return (their
\* context times out after jobTimeout), leases and backoffs run out, a stopped
\* process is started again.  The database recovers: a worker that keeps coming
\* to its final write does not fail it forever.
Fairness ==
    /\ \A w \in Workers : WF_vars(WorkerStep(w)) /\ SF_vars(WriteJob(w))
    /\ \A j \in Jobs : WF_vars(LeaseExpires(j)) /\ WF_vars(BackoffElapses(j))
    /\ \A p \in Procs : WF_vars(Restart(p))

FairSpec == Spec /\ Fairness

-----------------------------------------------------------------------------
(* Properties *)

\* Retry decides from a stale snapshot and increments the current row, so several
\* executors of a stolen job each add one to retry_count.  It still cannot run
\* away: with a single worker it stays below MaxRetries, and every further worker
\* adds at most one.  A claim that counted as a retry (the defect that
\* retry_accounting_test.go is about) would break the bound.
RetryBound ==
    \A j \in Jobs : retryCount[j] <= MaxRetries + Cardinality(Workers) - 2

\* As long as the lease of a job never ran out, at most one worker of all the
\* processes executes it, whatever crashes, stops, cancels and retries happen.
SingleExecutor ==
    \A j \in Jobs \ lost : \A v, w \in Executors(j) : v = w

\* During the first attempt of a job whose lease held, Service.active leads from
\* the job to the worker that runs its handler, so Cancel on that process reaches
\* the handler's context.  Not so afterwards: the deferred delete of a worker that
\* is slow to return from Retry removes the entry of the next attempt.
FirstAttemptCancellable ==
    \A w \in Workers :
        pc[w] = "handler" /\ snap[w] = 0 /\ held[w] \notin lost
            => active[ProcOf[w]][held[w]] = w

\* A job that is completed or failed stays as it is unless its lease ran out at
\* some time or somebody cancels it: no retry, duplicate dispatch or restart
\* brings it back.
TerminalStable ==
    [][\A j \in Jobs \ (lost \cup cancelled') :
            status[j] \in Terminal => status'[j] = status[j]]_vars

\* Every job whose row was inserted ends completed or failed and stays so, through
\* crashes, lost leases, retries and cancels.
Settles == \A j \in Jobs : <>[](status[j] \in Terminal \cup {"absent"})
=============================================================================
