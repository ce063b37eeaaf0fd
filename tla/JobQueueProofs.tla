--------------------------- MODULE JobQueueProofs ---------------------------
(***************************************************************************)
(* Proofs about JobQueue, for every set of jobs, processes and workers, and *)
(* about DurableWork: the queue keeps its promises next to the operation    *)
(* service, which claims rows of the same table.                            *)
(***************************************************************************)
EXTENDS DurableWork, FiniteSetTheorems, TLAPS

-----------------------------------------------------------------------------
(* The inductive invariant *)

\* Workers that increment retry_count if their handler fails.
Retriers(j) == {w \in Executors(j) : snap[w] + 1 < MaxRetries}

Exec(w, j) == held[w] = j /\ pc[w] \in Executing

\* Once retry_count forbids new retriers, each increment uses one up.
RetryInv ==
    /\ \A w \in Workers : pc[w] = "Retry" => snap[w] + 1 < MaxRetries
    /\ \A j \in Jobs :
        \/ retryCount[j] <= MaxRetries - 2
        \/ retryCount[j] + Cardinality(Retriers(j)) <= MaxRetries + Cardinality(Workers) - 2

\* What holds of a job whose lease never ran out: its running row is leased, and
\* it is executed by one worker at most, while it is running or was cancelled.
Covered(j) ==
    /\ status[j] = "running" => j \in leased
    /\ \A w \in Workers : Exec(w, j) => \/ status[j] = "running"
                                        \/ status[j] \in Terminal /\ j \in cancelled
    /\ \A v, w \in Workers : Exec(v, j) /\ Exec(w, j) => v = w

LeaseInv == \A j \in Jobs \ lost : Covered(j)

\* A worker that wrote the outcome of j and has not returned: its deferred delete is
\* still to come.
Late(w, j) == held[w] = j /\ pc[w] \in OpWrites

\* What else holds of a job whose lease never ran out: its executor dequeued the
\* retry_count that the row still has, so a first attempt meets no late worker, whose
\* delete would take its entry in Service.active away.
Registered(j) ==
    /\ \A w \in Workers : Exec(w, j) => snap[w] = retryCount[j]
    /\ \A v \in Workers : Late(v, j) =>
            \/ retryCount[j] > 0
            \/ status[j] \in Terminal /\ \A w \in Workers : ~Exec(w, j)
    /\ \A w \in Workers :
            held[w] = j /\ pc[w] = "handler" /\ snap[w] = 0 => active[ProcOf[w]][j] = w

RegisterInv == \A j \in Jobs \ lost : Registered(j)
-----------------------------------------------------------------------------
\* An empty queue is well typed.
LEMMA TypeInit == Init => TypeOK
BY JobQueueAssumption DEF Init, TypeOK, JobStatus, OpStatus, PC

\* Every step of the queue keeps the types.
LEMMA TypeStep == TypeOK /\ [Next]_vars => TypeOK'
<1> SUFFICES ASSUME TypeOK, [Next]_vars PROVE TypeOK'
  OBVIOUS
<1> USE JobQueueAssumption DEF TypeOK, JobStatus, OpStatus, PC, Outcome, OpWrites
<1>1. ASSUME NEW p \in Procs, NEW j \in Jobs, Enqueue(p, j) PROVE TypeOK'
  BY <1>1 DEF Enqueue, workerVars, bookVars
<1>2. ASSUME NEW p \in Procs, NEW j \in Jobs, Cancel(p, j) PROVE TypeOK'
  BY <1>2 DEF Cancel, SetTerminal
<1>3. ASSUME NEW w \in Workers, NEW j \in Jobs, Dequeue(w, j) PROVE TypeOK'
  BY <1>3 DEF Dequeue, Candidates, bookVars
<1>4. ASSUME NEW w \in Workers, Begin(w) PROVE TypeOK'
  BY <1>4 DEF Begin, rowVars, bookVars
<1>5. ASSUME NEW w \in Workers, Heartbeat(w) PROVE TypeOK'
  BY <1>5 DEF Heartbeat, workerVars, bookVars
<1>6. ASSUME NEW w \in Workers, JobTimeout(w) PROVE TypeOK'
  BY <1>6 DEF JobTimeout, rowVars, bookVars
<1>7. ASSUME NEW w \in Workers, HandlerReturns(w) PROVE TypeOK'
  BY <1>7 DEF HandlerReturns, FailureOutcome, rowVars, bookVars
<1>8. ASSUME NEW w \in Workers, HandlerPanics(w) PROVE TypeOK'
  BY <1>8 DEF HandlerPanics, Unregister, FailureOutcome, rowVars, bookVars
<1>9. ASSUME NEW w \in Workers, WriteJob(w) PROVE TypeOK'
  <2>1. held[w] \in Jobs /\ pc' \in [Workers -> PC] /\ (pc'[w] # "idle")
    BY <1>9 DEF WriteJob, OpAfter
  <2>2. \A v \in Workers : held'[v] = None <=> pc'[v] = "idle"
    BY <1>9, <2>1 DEF WriteJob
  <2>3. ASSUME NEW s \in {"completed", "failed"}, SetTerminal(held[w], s) PROVE TypeOK'
    <3>1. status' \in [Jobs -> JobStatus] /\ lockedBy' \in [Jobs -> Procs \cup {None}]
      BY <2>1, <2>3 DEF SetTerminal
    <3>2. leased' \in SUBSET Jobs /\ backoff' \in SUBSET Jobs /\ retryCount' = retryCount
      BY <2>3 DEF SetTerminal
    <3>3. QED
      BY <1>9, <2>1, <2>2, <3>1, <3>2 DEF WriteJob, bookVars
  <2>4. CASE SetRetry(held[w])
    BY <1>9, <2>1, <2>2, <2>4 DEF WriteJob, SetRetry, bookVars
  <2>5. QED
    BY <1>9, <2>3, <2>4 DEF WriteJob
<1>10. ASSUME NEW w \in Workers, WriteOp(w) PROVE TypeOK'
  BY <1>10 DEF WriteOp, Return, Unregister, rowVars, bookVars
<1>11. ASSUME NEW w \in Workers, WriteError(w) PROVE TypeOK'
  BY <1>11 DEF WriteError, Return, Unregister, rowVars, bookVars
<1>12. ASSUME NEW j \in Jobs, LeaseExpires(j) PROVE TypeOK'
  BY <1>12 DEF LeaseExpires, workerVars
<1>13. ASSUME NEW j \in Jobs, BackoffElapses(j) PROVE TypeOK'
  BY <1>13 DEF BackoffElapses, workerVars, bookVars
<1>14. ASSUME NEW j \in Jobs, CancelOp(j) PROVE TypeOK'
  BY <1>14 DEF CancelOp, rowVars, workerVars
<1>15. ASSUME NEW p \in Procs, Stop(p) PROVE TypeOK'
  BY <1>15 DEF Stop, WorkersOf, rowVars
<1>16. ASSUME NEW p \in Procs, Crash(p) PROVE TypeOK'
  BY <1>16 DEF Crash, ProcessEnds, WorkersOf, rowVars
<1>17. ASSUME NEW p \in Procs, Restart(p) PROVE TypeOK'
  BY <1>17 DEF Restart, ProcessEnds, WorkersOf, rowVars
<1>18. CASE UNCHANGED vars
  BY <1>18 DEF vars, rowVars, workerVars, bookVars
<1>19. QED
  BY <1>1, <1>2, <1>3, <1>4, <1>5, <1>6, <1>7, <1>8, <1>9, <1>10, <1>11, <1>12,
     <1>13, <1>14, <1>15, <1>16, <1>17, <1>18 DEF Next, WorkerStep

\* Every reachable state is well typed; in particular a worker holds a job
\* exactly while it is not idle.
THEOREM TypeCorrect == Spec => []TypeOK
BY TypeInit, TypeStep, PTL DEF Spec

-----------------------------------------------------------------------------
\* Nothing is executed at first.
LEMMA LeaseInit == Init => LeaseInv
BY DEF Init, LeaseInv, Covered, Exec, Executing, Outcome

\* Every step keeps a job covered by its lease, or loses the lease.
LEMMA LeaseStep == TypeOK /\ LeaseInv /\ [Next]_vars => LeaseInv'
<1> SUFFICES ASSUME TypeOK, LeaseInv, [Next]_vars, NEW k \in Jobs, k \notin lost'
             PROVE  Covered(k)'
  BY DEF LeaseInv
<1>a. k \notin lost => Covered(k)
  BY DEF LeaseInv
<1>b. /\ status \in [Jobs -> JobStatus]
      /\ held \in [Workers -> Jobs \cup {None}]
      /\ pc \in [Workers -> PC]
      /\ ProcOf \in [Workers -> Procs]
      /\ None \notin Jobs
  BY JobQueueAssumption DEF TypeOK
<1> DEFINE NoNewExec == \A v \in Workers : Exec(v, k)' => Exec(v, k)
<1>c. ASSUME NoNewExec, status'[k] = status[k], k \notin lost,
             k \in leased => k \in leased', k \in cancelled => k \in cancelled'
      PROVE  Covered(k)'
  BY <1>a, <1>c DEF Covered
<1> USE DEF Exec
<1>1. ASSUME NEW p \in Procs, NEW j \in Jobs, Enqueue(p, j) PROVE Covered(k)'
  <2>1. NoNewExec /\ k \notin lost /\ leased' = leased /\ cancelled' = cancelled
    BY <1>1 DEF Enqueue, workerVars, bookVars
  <2>2. CASE status'[k] = status[k]
    BY <1>c, <2>1, <2>2
  <2>3. CASE status'[k] # status[k]
    <3>1. status[k] = "absent" /\ status'[k] = "pending"
      BY <1>1, <1>b, <2>3 DEF Enqueue
    <3>2. QED
      BY <1>a, <2>1, <3>1 DEF Covered, Terminal
  <2>4. QED
    BY <2>2, <2>3
<1>2. ASSUME NEW p \in Procs, NEW j \in Jobs, Cancel(p, j) PROVE Covered(k)'
  <2>1. NoNewExec /\ k \notin lost
    BY <1>2 DEF Cancel
  <2>2. CASE j = k
    <3>1. status'[k] = "failed" /\ k \in cancelled'
      BY <1>2, <1>b, <2>2 DEF Cancel, SetTerminal
    <3>2. QED
      BY <1>a, <2>1, <3>1 DEF Covered, Terminal
  <2>3. CASE j # k
    <3>1. status'[k] = status[k] /\ (k \in leased => k \in leased')
          /\ (k \in cancelled => k \in cancelled')
      BY <1>2, <1>b, <2>3 DEF Cancel, SetTerminal
    <3>2. QED
      BY <1>c, <2>1, <3>1
  <2>4. QED
    BY <2>2, <2>3
<1>3. ASSUME NEW w \in Workers, NEW j \in Jobs, Dequeue(w, j) PROVE Covered(k)'
  <2>1. /\ k \notin lost /\ cancelled' = cancelled
        /\ \A v \in Workers \ {w} : Exec(v, k)' <=> Exec(v, k)
    BY <1>3, <1>b DEF Dequeue, bookVars
  <2>2. CASE j = k
    <3>1. status[k] = "pending"
      BY <1>3, <1>a, <2>1, <2>2 DEF Dequeue, Candidates, Covered
    <3>2. \A v \in Workers : ~Exec(v, k)
      BY <1>a, <2>1, <3>1 DEF Covered, Terminal
    <3>3. status'[k] = "running" /\ k \in leased'
      BY <1>3, <1>b, <2>2 DEF Dequeue
    <3>4. QED
      BY <2>1, <3>2, <3>3 DEF Covered
  <2>3. CASE j # k
    <3>1. ~Exec(w, k)'
      BY <1>3, <1>b, <2>3 DEF Dequeue
    <3>2. status'[k] = status[k] /\ (k \in leased => k \in leased')
      BY <1>3, <1>b, <2>3 DEF Dequeue
    <3>3. QED
      BY <1>c, <2>1, <3>1, <3>2
  <2>4. QED
    BY <2>2, <2>3
<1>4. ASSUME NEW w \in Workers, Begin(w) PROVE Covered(k)'
  <2>1. NoNewExec
    BY <1>4, <1>b DEF Begin, Executing
  <2>2. QED
    BY <1>4, <1>c, <2>1 DEF Begin, rowVars, bookVars
<1>5. ASSUME NEW w \in Workers, Heartbeat(w) \/ JobTimeout(w) PROVE Covered(k)'
  <2>1. NoNewExec /\ k \notin lost
    BY <1>5 DEF Heartbeat, JobTimeout, workerVars, bookVars
  <2>2. QED
    BY <1>5, <1>c, <2>1 DEF Heartbeat, JobTimeout, rowVars, bookVars
<1>6. ASSUME NEW w \in Workers, HandlerReturns(w) \/ HandlerPanics(w) PROVE Covered(k)'
  <2>1. NoNewExec
    BY <1>6, <1>b DEF HandlerReturns, HandlerPanics, FailureOutcome, Executing
  <2>2. QED
    BY <1>6, <1>c, <2>1 DEF HandlerReturns, HandlerPanics, rowVars, bookVars
<1>7. ASSUME NEW w \in Workers, WriteJob(w) PROVE Covered(k)'
  <2>1. /\ NoNewExec /\ ~Exec(w, k)'
        /\ k \notin lost /\ cancelled' = cancelled
        /\ held[w] \in Jobs
    BY <1>7, <1>b DEF WriteJob, OpAfter, Executing, Outcome, bookVars, TypeOK
  <2>2. CASE held[w] # k
    <3>1. status'[k] = status[k] /\ (k \in leased => k \in leased')
      BY <1>7, <1>b, <2>1, <2>2 DEF WriteJob, SetTerminal, SetRetry
    <3>2. QED
      BY <1>c, <2>1, <3>1
  <2>3. CASE held[w] = k
    <3>1. Exec(w, k)
      BY <1>7, <2>3 DEF WriteJob, Executing
    <3>2. \A v \in Workers : ~Exec(v, k)'
      BY <1>a, <2>1, <3>1 DEF Covered
    <3>3. status'[k] # "running"
      BY <1>7, <1>b, <2>1, <2>3 DEF WriteJob, SetTerminal, SetRetry
    <3>4. QED
      BY <3>2, <3>3 DEF Covered
  <2>4. QED
    BY <2>2, <2>3
<1>8. ASSUME NEW w \in Workers, WriteOp(w) \/ WriteError(w) PROVE Covered(k)'
  <2>1. NoNewExec
    BY <1>8, <1>b DEF WriteOp, WriteError, Return, Executing, Outcome
  <2>2. QED
    BY <1>8, <1>c, <2>1 DEF WriteOp, WriteError, rowVars, bookVars
<1>9. ASSUME NEW j \in Jobs, LeaseExpires(j) PROVE Covered(k)'
  <2>1. NoNewExec /\ k \notin lost /\ k # j
    BY <1>9 DEF LeaseExpires, workerVars
  <2>2. QED
    BY <1>9, <1>c, <2>1 DEF LeaseExpires
<1>10. ASSUME NEW j \in Jobs, BackoffElapses(j) \/ CancelOp(j) PROVE Covered(k)'
  <2>1. NoNewExec /\ k \notin lost
    BY <1>10 DEF BackoffElapses, CancelOp, workerVars, bookVars
  <2>2. QED
    BY <1>10, <1>c, <2>1 DEF BackoffElapses, CancelOp, rowVars, bookVars
<1>11. ASSUME NEW p \in Procs, Stop(p) PROVE Covered(k)'
  <2>1. NoNewExec /\ k \notin lost
    BY <1>11 DEF Stop
  <2>2. QED
    BY <1>11, <1>c, <2>1 DEF Stop, rowVars
<1>12. ASSUME NEW p \in Procs, Crash(p) \/ Restart(p) PROVE Covered(k)'
  <2>1. NoNewExec /\ k \notin lost
    BY <1>12, <1>b DEF Crash, Restart, ProcessEnds, Executing, Outcome
  <2>2. QED
    BY <1>12, <1>c, <2>1 DEF Crash, Restart, ProcessEnds, rowVars
<1>13. CASE UNCHANGED vars
  <2>1. NoNewExec /\ k \notin lost
    BY <1>13 DEF vars, workerVars, bookVars
  <2>2. QED
    BY <1>13, <1>c, <2>1 DEF vars, rowVars, bookVars
<1>14. QED
  BY <1>1, <1>2, <1>3, <1>4, <1>5, <1>6, <1>7, <1>8, <1>9, <1>10, <1>11, <1>12, <1>13
     DEF Next, WorkerStep

\* A job whose lease never ran out is covered by it: the strengthening of
\* SingleExecutor and TerminalStable.
THEOREM LeaseCovers == Spec => []LeaseInv
BY LeaseInit, LeaseStep, TypeCorrect, PTL DEF Spec

\* A covered job has one executor.
LEMMA LeaseImplies == LeaseInv => SingleExecutor
BY DEF LeaseInv, Covered, Exec, SingleExecutor, Executors

\* As long as its lease never ran out, a job has at most one executor.
THEOREM SingleExecutorHolds == Spec => []SingleExecutor
BY LeaseImplies, LeaseCovers, PTL

\* No step touches an outcome nobody cancelled of a job whose lease never ran out.
LEMMA TerminalStep ==
    TypeOK /\ LeaseInv /\ [Next]_vars =>
        [\A j \in Jobs \ (lost \cup cancelled') :
            status[j] \in Terminal => status'[j] = status[j]]_vars
<1> SUFFICES ASSUME TypeOK, LeaseInv, Next,
                    NEW k \in Jobs, k \notin lost, k \notin cancelled',
                    status[k] \in Terminal
             PROVE  status'[k] = status[k]
  OBVIOUS
<1>1. cancelled \subseteq cancelled'
  BY DEF Next, WorkerStep, Enqueue, Cancel, Dequeue, Begin, Heartbeat, JobTimeout,
         HandlerReturns, HandlerPanics, WriteJob, WriteOp, WriteError, LeaseExpires,
         BackoffElapses, CancelOp, Stop, Crash, Restart, ProcessEnds, bookVars
<1>2. \A v \in Workers : ~Exec(v, k)
  BY <1>1 DEF LeaseInv, Covered, Terminal
<1> USE DEF TypeOK, Terminal
<1>3. ASSUME NEW w \in Workers, WriteJob(w) PROVE status'[k] = status[k]
  <2>1. held[w] # k
    BY <1>2, <1>3 DEF WriteJob, Exec, Executing
  <2>2. QED
    BY <1>3, <2>1 DEF WriteJob, SetTerminal, SetRetry
<1>4. ASSUME NEW p \in Procs, NEW j \in Jobs, Cancel(p, j) PROVE status'[k] = status[k]
  BY <1>4 DEF Cancel, SetTerminal
<1>5. ASSUME NEW w \in Workers, NEW j \in Jobs, Dequeue(w, j) PROVE status'[k] = status[k]
  BY <1>5 DEF Dequeue, Candidates
<1>6. ASSUME NEW p \in Procs, NEW j \in Jobs, Enqueue(p, j) PROVE status'[k] = status[k]
  BY <1>6 DEF Enqueue
<1>7. QED
  BY <1>3, <1>4, <1>5, <1>6
     DEF Next, WorkerStep, Begin, Heartbeat, JobTimeout, HandlerReturns, HandlerPanics,
         WriteOp, WriteError, LeaseExpires, BackoffElapses, CancelOp, Stop, Crash,
         Restart, ProcessEnds, rowVars

\* An outcome nobody cancelled, of a job whose lease never ran out, is final.
THEOREM TerminalIsStable == Spec => TerminalStable
BY TypeCorrect, LeaseCovers, TerminalStep, PTL DEF Spec, TerminalStable

-----------------------------------------------------------------------------
\* Steps that touch neither the row of k nor the workers that hold it.
LEMMA RegisteredKept ==
    ASSUME NEW k \in Jobs, Registered(k),
           retryCount'[k] = retryCount[k],
           status'[k] = status[k] \/ status[k] \notin Terminal \/ status'[k] \in Terminal,
           \A w \in Workers : Exec(w, k)' => Exec(w, k) /\ snap'[w] = snap[w],
           \A w \in Workers : Late(w, k)' => Late(w, k),
           \A w \in Workers : held'[w] = k /\ pc'[w] = "handler" /\ snap'[w] = 0 =>
               \/ active'[ProcOf[w]][k] = w
               \/ /\ held[w] = k /\ pc[w] = "handler" /\ snap[w] = 0
                  /\ active'[ProcOf[w]][k] = active[ProcOf[w]][k]
    PROVE  Registered(k)'
<1>1. (\A w \in Workers : Exec(w, k) => snap[w] = retryCount[k])'
  BY DEF Registered
<1>2. (\A v \in Workers : Late(v, k) =>
          \/ retryCount[k] > 0
          \/ status[k] \in Terminal /\ \A w \in Workers : ~Exec(w, k))'
  BY DEF Registered
<1>3. (\A w \in Workers :
          held[w] = k /\ pc[w] = "handler" /\ snap[w] = 0 => active[ProcOf[w]][k] = w)'
  BY DEF Registered
<1> QED BY <1>1, <1>2, <1>3 DEF Registered

\* Nobody is registered at first.
LEMMA RegisterInit == Init => RegisterInv
BY DEF Init, RegisterInv, Registered, Exec, Late, Executing, Outcome, OpWrites

\* Every step keeps the executor of a first attempt registered.  Unregister removes an
\* entry whoever made it; while retry_count is 0 the only worker that can do so is the
\* one that made it.
LEMMA RegisterStep == TypeOK /\ LeaseInv /\ RegisterInv /\ [Next]_vars => RegisterInv'
<1> SUFFICES ASSUME TypeOK, LeaseInv, RegisterInv, [Next]_vars, NEW k \in Jobs, k \notin lost'
             PROVE  Registered(k)'
  BY DEF RegisterInv
<1>a. k \notin lost
  BY DEF Next, WorkerStep, Enqueue, Cancel, Dequeue, Begin, Heartbeat, JobTimeout,
         HandlerReturns, HandlerPanics, WriteJob, WriteOp, WriteError, LeaseExpires,
         BackoffElapses, CancelOp, Stop, Crash, Restart, ProcessEnds, bookVars, vars
<1>b. Covered(k) /\ Registered(k)
  BY <1>a DEF LeaseInv, RegisterInv
<1>c. /\ status \in [Jobs -> JobStatus] /\ retryCount \in [Jobs -> Nat]
      /\ pc \in [Workers -> PC] /\ held \in [Workers -> Jobs \cup {None}]
      /\ snap \in [Workers -> Nat]
      /\ active \in [Procs -> [Jobs -> Workers \cup {None}]]
      /\ ProcOf \in [Workers -> Procs] /\ None \notin Jobs
      /\ \A w \in Workers : held[w] = None <=> pc[w] = "idle"
  BY JobQueueAssumption DEF TypeOK
<1>1. ASSUME NEW p \in Procs, NEW j \in Jobs, Enqueue(p, j) PROVE Registered(k)'
  <2>1. /\ retryCount' = retryCount /\ held' = held /\ pc' = pc /\ snap' = snap
        /\ active' = active /\ (status'[k] = status[k] \/ status[k] = "absent")
    BY <1>1, <1>c DEF Enqueue, workerVars
  <2>2. QED
    BY <1>b, <2>1, RegisteredKept DEF Exec, Late, Terminal
<1>2. ASSUME NEW p \in Procs, NEW j \in Jobs, Cancel(p, j) PROVE Registered(k)'
  <2>1. /\ retryCount' = retryCount /\ held' = held /\ pc' = pc /\ snap' = snap
        /\ active' = active /\ (status'[k] = status[k] \/ status'[k] = "failed")
    BY <1>2, <1>c DEF Cancel, SetTerminal
  <2>2. QED
    BY <1>b, <2>1, RegisteredKept DEF Exec, Late, Terminal
<1>3. ASSUME NEW w \in Workers, NEW j \in Jobs, Dequeue(w, j) PROVE Registered(k)'
  <2>1. /\ retryCount' = retryCount /\ active' = active
        /\ \A v \in Workers \ {w} : pc'[v] = pc[v] /\ held'[v] = held[v] /\ snap'[v] = snap[v]
        /\ held'[w] = j /\ pc'[w] = "claimed" /\ snap'[w] = retryCount[j]
    BY <1>3, <1>c DEF Dequeue
  <2>2. CASE j # k
    <3>1. status'[k] = status[k]
      BY <1>3, <1>c, <2>2 DEF Dequeue
    <3>2. QED
      BY <1>b, <2>1, <2>2, <3>1, RegisteredKept DEF Exec, Late
  <2>3. CASE j = k
    <3>1. status[k] = "pending"
      BY <1>3, <1>b, <2>3 DEF Dequeue, Candidates, Covered
    <3>2. \A v \in Workers : ~Exec(v, k)
      BY <1>b, <3>1 DEF Covered, Terminal
    <3>3. \A v \in Workers : Late(v, k) => retryCount[k] > 0
      BY <1>b, <3>1 DEF Registered, Terminal
    <3>4. \A v \in Workers : (Exec(v, k)' => v = w) /\ (Late(v, k)' => Late(v, k))
      BY <2>1, <3>2 DEF Exec, Late, OpWrites
    <3>5. \A v \in Workers : ~(held'[v] = k /\ pc'[v] = "handler")
      BY <2>1, <3>2 DEF Exec, Executing
    <3>6. QED
      BY <2>1, <2>3, <3>3, <3>4, <3>5 DEF Registered
  <2>4. QED
    BY <2>2, <2>3
<1>4. ASSUME NEW w \in Workers, Begin(w) PROVE Registered(k)'
  <2>1. /\ status' = status /\ retryCount' = retryCount /\ held' = held /\ snap' = snap
        /\ \A v \in Workers \ {w} : pc'[v] = pc[v]
        /\ pc[w] = "claimed" /\ pc'[w] \in {"handler", "Fail"}
        /\ held[w] \in Jobs
    BY <1>4, <1>c DEF Begin, rowVars
  <2>2. \A v \in Workers : (Exec(v, k)' => Exec(v, k)) /\ (Late(v, k)' => Late(v, k))
    BY <2>1 DEF Exec, Late, Executing, Outcome, OpWrites
  <2>3. CASE held[w] = k
    <3>1. active'[ProcOf[w]][k] = w
      BY <1>4, <1>c, <2>3 DEF Begin
    <3>2. \A v \in Workers : Exec(v, k) => v = w
      BY <1>b, <2>1, <2>3 DEF Covered, Exec, Executing
    <3>3. \A v \in Workers : held'[v] = k /\ pc'[v] = "handler" => Exec(v, k)'
      BY DEF Exec, Executing
    <3>4. QED
      BY <1>b, <2>1, <2>2, <3>1, <3>2, <3>3, RegisteredKept
  <2>4. CASE held[w] # k
    <3>1. \A p \in Procs : active'[p][k] = active[p][k]
      BY <1>4, <1>c, <2>1, <2>4 DEF Begin
    <3>2. QED
      BY <1>b, <1>c, <2>1, <2>2, <2>4, <3>1, RegisteredKept
  <2>5. QED
    BY <2>3, <2>4
<1>5. ASSUME NEW w \in Workers, HandlerReturns(w) PROVE Registered(k)'
  <2>1. /\ status' = status /\ retryCount' = retryCount /\ held' = held /\ snap' = snap
        /\ active' = active /\ \A v \in Workers \ {w} : pc'[v] = pc[v]
        /\ pc[w] = "handler" /\ pc'[w] \in Outcome
    BY <1>5, <1>c DEF HandlerReturns, FailureOutcome, Outcome, rowVars
  <2>2. \A v \in Workers : (Exec(v, k)' => Exec(v, k)) /\ (Late(v, k)' => Late(v, k))
    BY <2>1 DEF Exec, Late, Executing, Outcome, OpWrites
  <2>3. \A v \in Workers : pc'[v] = "handler" => pc[v] = "handler"
    BY <2>1
  <2>4. QED
    BY <1>b, <2>1, <2>2, <2>3, RegisteredKept
<1>6. ASSUME NEW w \in Workers, HandlerPanics(w) PROVE Registered(k)'
  <2>1. /\ status' = status /\ retryCount' = retryCount /\ held' = held /\ snap' = snap
        /\ \A v \in Workers \ {w} : pc'[v] = pc[v]
        /\ pc[w] = "handler" /\ pc'[w] \in Outcome /\ held[w] \in Jobs
    BY <1>6, <1>c DEF HandlerPanics, FailureOutcome, Outcome, rowVars
  <2>2. \A v \in Workers : (Exec(v, k)' => Exec(v, k)) /\ (Late(v, k)' => Late(v, k))
    BY <2>1 DEF Exec, Late, Executing, Outcome, OpWrites
  <2>3. CASE held[w] = k
    <3>1. \A v \in Workers : ~(held'[v] = k /\ pc'[v] = "handler")
      BY <1>b, <2>1, <2>3 DEF Covered, Exec, Executing, Outcome
    <3>2. QED
      BY <1>b, <2>1, <2>2, <3>1, RegisteredKept
  <2>4. CASE held[w] # k
    <3>1. \A p \in Procs : active'[p][k] = active[p][k]
      BY <1>6, <1>c, <2>1, <2>4 DEF HandlerPanics, Unregister
    <3>2. QED
      BY <1>b, <1>c, <2>1, <2>2, <2>4, <3>1, RegisteredKept
  <2>5. QED
    BY <2>3, <2>4
<1>7. ASSUME NEW w \in Workers, WriteJob(w) PROVE Registered(k)'
  <2>1. /\ held' = held /\ snap' = snap /\ active' = active
        /\ \A v \in Workers \ {w} : pc'[v] = pc[v]
        /\ pc[w] \in Outcome /\ pc'[w] \in OpWrites /\ held[w] \in Jobs
    BY <1>7, <1>c DEF WriteJob, OpAfter, Outcome, OpWrites
  <2>2. \A v \in Workers : Exec(v, k)' => Exec(v, k) /\ v # w
    BY <2>1 DEF Exec, Executing, Outcome, OpWrites
  <2>3. \A v \in Workers : pc'[v] = "handler" => pc[v] = "handler"
    BY <2>1 DEF OpWrites
  <2>4. CASE held[w] # k
    <3>1. status'[k] = status[k] /\ retryCount'[k] = retryCount[k]
      BY <1>7, <1>c, <2>1, <2>4 DEF WriteJob, SetTerminal, SetRetry
    <3>2. \A v \in Workers : Late(v, k)' => Late(v, k)
      BY <2>1, <2>4 DEF Late
    <3>3. QED
      BY <1>b, <2>1, <2>2, <2>3, <3>1, <3>2, RegisteredKept
  <2>5. CASE held[w] = k
    <3>1. \A v \in Workers : ~Exec(v, k)'
      BY <1>b, <2>1, <2>2, <2>5 DEF Covered, Exec, Executing
    <3>2. \A v \in Workers : ~(held'[v] = k /\ pc'[v] = "handler")
      BY <3>1 DEF Exec, Executing
    <3>3. retryCount'[k] > 0 \/ status'[k] \in Terminal
      BY <1>7, <1>c, <2>5 DEF WriteJob, SetTerminal, SetRetry, Terminal
    <3>4. QED
      BY <3>1, <3>2, <3>3 DEF Registered
  <2>6. QED
    BY <2>4, <2>5
<1>8. ASSUME NEW w \in Workers, WriteOp(w) \/ WriteError(w) PROVE Registered(k)'
  <2>1. /\ status' = status /\ retryCount' = retryCount
        /\ \A v \in Workers \ {w} : pc'[v] = pc[v] /\ held'[v] = held[v] /\ snap'[v] = snap[v]
        /\ pc[w] \in Outcome \cup OpWrites /\ pc'[w] = "idle" /\ held[w] \in Jobs
    BY <1>8, <1>c DEF WriteOp, WriteError, Return, Outcome, OpWrites, rowVars
  <2>2. /\ \A v \in Workers : Exec(v, k)' => Exec(v, k) /\ snap'[v] = snap[v] /\ v # w
        /\ \A v \in Workers : Late(v, k)' => Late(v, k)
    BY <2>1 DEF Exec, Late, Executing, Outcome, OpWrites
  <2>3. \A v \in Workers : held'[v] = k /\ pc'[v] = "handler" => Exec(v, k)' /\ pc[v] = "handler"
    BY <2>1 DEF Exec, Executing
  <2>4. CASE held[w] # k
    <3>1. \A p \in Procs : active'[p][k] = active[p][k]
      <4>1. active' = active \/ active' = Unregister(w)
        BY <1>8 DEF WriteOp, WriteError, Return
      <4>2. \A p \in Procs : Unregister(w)[p][k] = active[p][k]
        BY <1>c, <2>1, <2>4 DEF Unregister
      <4>3. QED
        BY <4>1, <4>2
    <3>2. QED
      BY <1>b, <1>c, <2>1, <2>2, <2>3, <3>1, RegisteredKept DEF Exec
  <2>5. CASE held[w] = k
    <3>1. Exec(w, k) \/ Late(w, k)
      BY <2>1, <2>5 DEF Exec, Late, Executing
    <3>2. ASSUME NEW v \in Workers PROVE ~(held'[v] = k /\ pc'[v] = "handler" /\ snap'[v] = 0)
      <4>1. SUFFICES ASSUME held'[v] = k, pc'[v] = "handler", snap'[v] = 0 PROVE FALSE
        OBVIOUS
      <4>2. Exec(v, k) /\ v # w /\ retryCount[k] = 0
        BY <1>b, <2>2, <2>3, <4>1 DEF Registered
      <4>3. ~Late(w, k)
        BY <1>b, <4>2 DEF Registered
      <4>4. ~Exec(w, k)
        BY <1>b, <4>2 DEF Covered
      <4>5. QED
        BY <3>1, <4>3, <4>4
    <3>3. QED
      BY <1>b, <2>1, <2>2, <3>2, RegisteredKept
  <2>6. QED
    BY <2>4, <2>5
<1>9. ASSUME NEW p \in Procs, Crash(p) \/ Restart(p) PROVE Registered(k)'
  <2>1. /\ status' = status /\ retryCount' = retryCount
        /\ \A v \in Workers : \/ pc'[v] = "idle"
                              \/ /\ pc'[v] = pc[v] /\ held'[v] = held[v] /\ snap'[v] = snap[v]
                                 /\ ProcOf[v] # p
        /\ \A q \in Procs \ {p} : active'[q] = active[q]
    BY <1>9, <1>c DEF Crash, Restart, ProcessEnds, rowVars
  <2>2. /\ \A v \in Workers : Exec(v, k)' => Exec(v, k) /\ snap'[v] = snap[v]
        /\ \A v \in Workers : Late(v, k)' => Late(v, k)
    BY <2>1 DEF Exec, Late, Executing, Outcome, OpWrites
  <2>3. QED
    BY <1>b, <1>c, <2>1, <2>2, RegisteredKept
<1>10. CASE UNCHANGED <<status, retryCount, pc, held, snap, active>>
  BY <1>b, <1>10, RegisteredKept DEF Exec, Late
<1>11. QED
  BY <1>1, <1>2, <1>3, <1>4, <1>5, <1>6, <1>7, <1>8, <1>9, <1>10
     DEF Next, WorkerStep, Heartbeat, JobTimeout, LeaseExpires, BackoffElapses, CancelOp,
         Stop, vars, rowVars, workerVars

\* The registration invariant.
THEOREM RegistrationHolds == Spec => []RegisterInv
BY RegisterInit, RegisterStep, TypeCorrect, LeaseCovers, PTL DEF Spec

\* A registered executor is the one Cancel finds.
LEMMA RegisterImplies == TypeOK /\ RegisterInv => FirstAttemptCancellable
BY DEF TypeOK, RegisterInv, Registered, FirstAttemptCancellable

\* During the first attempt of a job whose lease held, Cancel finds the handler.
THEOREM FirstAttemptsAreCancellable == Spec => []FirstAttemptCancellable
BY RegisterImplies, TypeCorrect, RegistrationHolds, PTL

-----------------------------------------------------------------------------
\* Retriers are finitely many.
LEMMA RetriersFinite ==
    \A j : IsFiniteSet(Retriers(j)) /\ Cardinality(Retriers(j)) \in Nat
    /\ Cardinality(Workers) \in Nat \ {0}
<1>1. \A j : Retriers(j) \subseteq Workers
  BY DEF Retriers, Executors
<1>2. Cardinality(Workers) \in Nat \ {0}
  BY JobQueueAssumption, FS_CardinalityType, FS_EmptySet
<1>3. QED
  BY <1>1, <1>2, JobQueueAssumption, FS_Subset, FS_CardinalityType

\* Nothing is retried at first.
LEMMA RetryInit == TypeOK /\ Init => RetryInv
<1>1. \A j : Init => Retriers(j) = {}
  BY DEF Init, Retriers, Executors, Executing, Outcome
<1>2. Cardinality({}) = 0 /\ MaxRetries \in Nat \ {0}
  BY FS_EmptySet, JobQueueAssumption
<1>3. ASSUME Init, NEW j \in Jobs
      PROVE  retryCount[j] + Cardinality(Retriers(j)) <= MaxRetries + Cardinality(Workers) - 2
  <2>1. Cardinality(Retriers(j)) = 0 /\ retryCount[j] = 0
    BY <1>1, <1>2, <1>3 DEF Init
  <2>2. QED
    BY <1>2, <2>1, RetriersFinite
<1>4. QED
  BY <1>3 DEF Init, RetryInv

\* Every step keeps the bound: an increment past it uses up a retrier.
LEMMA RetryStep == TypeOK /\ RetryInv /\ [Next]_vars => RetryInv'
<1> SUFFICES ASSUME TypeOK, RetryInv, [Next]_vars PROVE RetryInv'
  OBVIOUS
<1>a. /\ retryCount \in [Jobs -> Nat] /\ snap \in [Workers -> Nat]
      /\ pc \in [Workers -> PC] /\ held \in [Workers -> Jobs \cup {None}]
      /\ MaxRetries \in Nat \ {0} /\ None \notin Jobs
      /\ \A w \in Workers : held[w] = None <=> pc[w] = "idle"
  BY JobQueueAssumption DEF TypeOK
<1> DEFINE NoNewRetry == \A w \in Workers :
              pc'[w] = "Retry" => snap'[w] + 1 < MaxRetries
           Fewer(j) == Retriers(j)' \subseteq Retriers(j)
\* An action that makes no new retrier of j and leaves its retry_count alone.
<1>b. ASSUME NoNewRetry, retryCount' = retryCount,
             \A j \in Jobs : retryCount[j] <= MaxRetries - 2 \/ Fewer(j)
      PROVE  RetryInv'
  <2>1. ASSUME NEW j \in Jobs, Fewer(j)
        PROVE  Cardinality(Retriers(j)') \in Nat
               /\ Cardinality(Retriers(j)') <= Cardinality(Retriers(j))
    BY <2>1, RetriersFinite, FS_Subset, FS_CardinalityType
  <2>2. QED
    BY <1>b, <2>1, RetriersFinite, <1>a DEF RetryInv
<1>1. ASSUME NEW w \in Workers, NEW j \in Jobs, Dequeue(w, j) PROVE RetryInv'
  <2>1. NoNewRetry /\ retryCount' = retryCount
    BY <1>1, <1>a DEF Dequeue, RetryInv, PC
  <2>2. \A i \in Jobs : retryCount[i] <= MaxRetries - 2 \/ Fewer(i)
    BY <1>1, <1>a DEF Dequeue, Retriers, Executors
  <2>3. QED
    BY <1>b, <2>1, <2>2
<1>2. ASSUME NEW w \in Workers, Begin(w) PROVE RetryInv'
  <2>1. NoNewRetry /\ retryCount' = retryCount
    BY <1>2, <1>a DEF Begin, RetryInv, rowVars
  <2>2. \A i \in Jobs : Fewer(i)
    BY <1>2, <1>a DEF Begin, Executing, Retriers, Executors
  <2>3. QED
    BY <1>b, <2>1, <2>2
<1>3. ASSUME NEW w \in Workers, HandlerReturns(w) \/ HandlerPanics(w) PROVE RetryInv'
  <2>1. NoNewRetry /\ retryCount' = retryCount
    BY <1>3, <1>a DEF HandlerReturns, HandlerPanics, FailureOutcome, RetryInv, rowVars
  <2>2. \A i \in Jobs : Fewer(i)
    BY <1>3, <1>a DEF HandlerReturns, HandlerPanics, FailureOutcome, Executing, Retriers, Executors
  <2>3. QED
    BY <1>b, <2>1, <2>2
<1>4. ASSUME NEW w \in Workers, WriteJob(w) PROVE RetryInv'
  <2>1. NoNewRetry /\ \A i \in Jobs : Fewer(i)
    BY <1>4, <1>a DEF WriteJob, OpAfter, RetryInv, Executing, Outcome, Retriers, Executors
  <2>2. CASE retryCount' = retryCount
    BY <1>b, <2>1, <2>2
  <2>3. CASE retryCount' # retryCount
    <3> DEFINE j == held[w]
    <3>1. pc[w] = "Retry" /\ j \in Jobs
          /\ retryCount' = [retryCount EXCEPT ![j] = @ + 1]
      BY <1>4, <1>a, <2>3 DEF WriteJob, SetTerminal, SetRetry
    <3>2. w \in Retriers(j)
      BY <3>1 DEF RetryInv, Executing, Outcome, Retriers, Executors
    <3>3. Retriers(j)' \subseteq Retriers(j) \ {w}
      BY <1>4, <1>a, <2>1 DEF WriteJob, OpAfter, Executing, Outcome, Retriers, Executors
    <3>4. Cardinality(Retriers(j)') <= Cardinality(Retriers(j)) - 1
          /\ Cardinality(Retriers(j)') \in Nat
      <4>1. /\ IsFiniteSet(Retriers(j) \ {w})
            /\ Cardinality(Retriers(j) \ {w}) = Cardinality(Retriers(j)) - 1
        BY <3>2, RetriersFinite, FS_RemoveElement
      <4>2. /\ IsFiniteSet(Retriers(j)')
            /\ Cardinality(Retriers(j)') <= Cardinality(Retriers(j) \ {w})
        BY <3>3, <4>1, FS_Subset
      <4>3. QED
        BY <4>1, <4>2, FS_CardinalityType
    <3>5. Cardinality(Retriers(j)') <= Cardinality(Workers) - 1
      <4>1. Retriers(j) \subseteq Workers
        BY DEF Retriers, Executors
      <4>2. Cardinality(Retriers(j)) <= Cardinality(Workers)
        BY <4>1, JobQueueAssumption, FS_Subset
      <4>3. QED
        BY <3>4, <4>2, RetriersFinite
    <3>6. \A i \in Jobs \ {j} : Cardinality(Retriers(i)') <= Cardinality(Retriers(i))
                               /\ Cardinality(Retriers(i)') \in Nat
      <4>1. ASSUME NEW i \in Jobs
            PROVE  IsFiniteSet(Retriers(i)')
                   /\ Cardinality(Retriers(i)') <= Cardinality(Retriers(i))
        BY <2>1, RetriersFinite, FS_Subset
      <4>2. QED
        BY <4>1, FS_CardinalityType
    <3> DEFINE Bound(i) ==
          \/ retryCount'[i] <= MaxRetries - 2
          \/ retryCount'[i] + Cardinality(Retriers(i)') <= MaxRetries + Cardinality(Workers) - 2
    <3>7. Bound(j)
      <4>1. retryCount'[j] = retryCount[j] + 1 /\ retryCount[j] \in Nat
        BY <1>a, <3>1
      <4>2. \/ retryCount[j] <= MaxRetries - 2
            \/ retryCount[j] + Cardinality(Retriers(j)) <= MaxRetries + Cardinality(Workers) - 2
        BY <3>1 DEF RetryInv
      <4>3. QED
        BY <1>a, <4>1, <4>2, <3>4, <3>5, RetriersFinite
    <3>8. ASSUME NEW i \in Jobs, i # j PROVE Bound(i)
      <4>1. retryCount'[i] = retryCount[i] /\ retryCount[i] \in Nat
        BY <1>a, <3>1, <3>8
      <4>2. \/ retryCount[i] <= MaxRetries - 2
            \/ retryCount[i] + Cardinality(Retriers(i)) <= MaxRetries + Cardinality(Workers) - 2
        BY DEF RetryInv
      <4>3. QED
        BY <1>a, <4>1, <4>2, <3>6, <3>8, RetriersFinite
    <3> HIDE DEF j, Bound
    <3>9. \A i \in Jobs : Bound(i)
      BY <3>7, <3>8
    <3> USE DEF Bound
    <3>10. QED
      BY <2>1, <3>9 DEF RetryInv
  <2>4. QED
    BY <2>2, <2>3
<1>5. ASSUME NEW w \in Workers, WriteOp(w) \/ WriteError(w) PROVE RetryInv'
  <2>1. NoNewRetry /\ retryCount' = retryCount
    BY <1>5, <1>a DEF WriteOp, WriteError, Return, RetryInv, rowVars
  <2>2. \A i \in Jobs : Fewer(i)
    BY <1>5, <1>a DEF WriteOp, WriteError, Return, Executing, Outcome, Retriers, Executors
  <2>3. QED
    BY <1>b, <2>1, <2>2
<1>6. ASSUME NEW p \in Procs, Crash(p) \/ Restart(p) PROVE RetryInv'
  <2>1. NoNewRetry /\ retryCount' = retryCount
    BY <1>6, <1>a DEF Crash, Restart, ProcessEnds, RetryInv, rowVars
  <2>2. \A i \in Jobs : Fewer(i)
    BY <1>6, <1>a DEF Crash, Restart, ProcessEnds, Executing, Outcome, Retriers, Executors
  <2>3. QED
    BY <1>b, <2>1, <2>2
<1>7. CASE UNCHANGED <<retryCount, pc, held, snap>>
  <2>1. NoNewRetry /\ retryCount' = retryCount /\ \A i \in Jobs : Fewer(i)
    BY <1>7 DEF RetryInv, Retriers, Executors
  <2>2. QED
    BY <1>b, <2>1
<1>8. QED
  BY <1>1, <1>2, <1>3, <1>4, <1>5, <1>6, <1>7
     DEF Next, WorkerStep, Enqueue, Cancel, SetTerminal, Heartbeat, JobTimeout,
         LeaseExpires, BackoffElapses, CancelOp, Stop, vars, rowVars, workerVars

\* The invariant implies the bound.
LEMMA RetryImplies == TypeOK /\ RetryInv => RetryBound
<1>1. MaxRetries \in Nat
  BY JobQueueAssumption
<1>2. QED
  BY RetriersFinite, <1>1 DEF RetryInv, RetryBound, TypeOK

\* retry_count stays within MaxRetries plus the number of workers, less two.
THEOREM RetryIsBounded == Spec => []RetryBound
BY RetryInit, RetryStep, RetryImplies, TypeCorrect, PTL DEF Spec

-----------------------------------------------------------------------------
(* The queue and the operation service on one table *)

\* The part of the service's state that its claims on the queue's rows depend on: a
\* worker that holds a row of the queue has only claimed it.
ClaimInv ==
    /\ opc \in [OWorkers -> Service!PC]
    /\ oheld \in [OWorkers -> Ops \cup Jobs \cup {None}]
    /\ steps \in SUBSET Ops
    /\ dispatching \in SUBSET Ops
    /\ \A w \in OWorkers : oheld[w] \in Jobs => opc[w] = "claimed"

\* The operations row reads succeeded, or is about to, only for a completed job.
OutcomeInv ==
    \A j \in Jobs \ (lost \cup cancelled) :
        \/ op[j] = "succeeded"
        \/ \E w \in Workers : held[w] = j /\ pc[w] = "succeeded"
        => status[j] = "completed"

QueueInv == TypeOK /\ LeaseInv /\ RegisterInv /\ RetryInv

\* What a step of the service may do to a row of the queue.
Claimed(j) == op'[j] = op[j] \/ op'[j] = "running"

\* A step of the service keeps ClaimInv, and does nothing to the rows of the queue but
\* to claim them: the outcome writes are out of reach without a step row.
LEMMA ServiceStep ==
    ASSUME TypeOK, ClaimInv, Service!Next
    PROVE  ClaimInv' /\ op' \in [Jobs -> OpStatus] /\ \A j \in Jobs : Claimed(j)
<1> DEFINE Goal == ClaimInv' /\ op' \in [Jobs -> OpStatus] /\ \A j \in Jobs : Claimed(j)
<1>a. /\ op \in [Jobs -> OpStatus] /\ "running" \in OpStatus
      /\ opc \in [OWorkers -> Service!PC]
      /\ oheld \in [OWorkers -> Ops \cup Jobs \cup {None}]
      /\ steps \in SUBSET Ops /\ dispatching \in SUBSET Ops
      /\ \A w \in OWorkers : oheld[w] \in Jobs => opc[w] = "claimed"
      /\ None \notin Jobs /\ Ops \cap Jobs = {}
      /\ OProcOf \in [OWorkers -> OProcs]
  BY WorkAssumption DEF TypeOK, ClaimInv, OpStatus
<1> USE DEF ClaimInv, Claimed, Service!PC, Service!Writes
<1>1. ASSUME NEW o \in Ops,
             \/ Service!CreateOperation(o) \/ Service!CreateStep(o)
             \/ Service!CreateFails(o) \/ Service!CancelOperation(o)
      PROVE  Goal
  BY <1>1, <1>a DEF Service!CreateOperation, Service!CreateStep, Service!CreateFails,
     Service!CancelOperation, Service!workerVars, Service!tableVars
<1>2. ASSUME NEW w \in OWorkers, NEW o \in Ops \cup Jobs, Service!Claim(w, o) PROVE Goal
  BY <1>2, <1>a DEF Service!Claim, Service!SetRow
<1>3. ASSUME NEW w \in OWorkers, Service!MarkRunning(w) PROVE Goal
  <2>1. oheld[w] \in Ops /\ oheld[w] \notin Jobs
    BY <1>3, <1>a DEF Service!MarkRunning
  <2>2. op' = op /\ oheld' = oheld /\ steps' = steps /\ dispatching' = dispatching
    BY <1>3, <2>1 DEF Service!MarkRunning, Service!SetRow
  <2>3. \E s \in {"handler", "failed"} : opc' = [opc EXCEPT ![w] = s]
    BY <1>3 DEF Service!MarkRunning
  <2>4. QED
    BY <1>a, <2>1, <2>2, <2>3
<1>4. ASSUME NEW w \in OWorkers,
             \/ Service!MarkRunningFails(w) \/ Service!HandlerReturns(w)
             \/ Service!HandlerPanics(w) \/ Service!BackoffEnds(w)
             \/ Service!WriteOutcomeFails(w)
      PROVE  Goal
  BY <1>4, <1>a DEF Service!MarkRunningFails, Service!HandlerReturns, Service!AfterError,
     Service!HandlerPanics, Service!BackoffEnds, Service!WriteOutcomeFails, Service!Release,
     Service!tableVars
<1>5. ASSUME NEW w \in OWorkers, Service!WriteOutcome(w) PROVE Goal
  <2>1. oheld[w] \notin Jobs
    BY <1>5, <1>a DEF Service!WriteOutcome
  <2>2. op' \in [Jobs -> OpStatus] /\ \A j \in Jobs : Claimed(j)
    BY <1>5, <1>a, <2>1 DEF Service!WriteOutcome, Service!SetRow
  <2>3. ClaimInv'
    BY <1>5, <1>a DEF Service!WriteOutcome, Service!Release
  <2>4. QED
    BY <2>2, <2>3
<1>6. ASSUME NEW p \in OProcs,
             Service!StopService(p) \/ Service!CrashService(p) \/ Service!RestartService(p)
      PROVE  Goal
  BY <1>6, <1>a DEF Service!StopService, Service!CrashService, Service!RestartService,
     Service!workerVars, Service!tableVars
<1>7. QED
  BY <1>1, <1>2, <1>3, <1>4, <1>5, <1>6 DEF Service!Next, Service!WorkerStep

\* A step of the service touches nothing that the queue's invariant is about but the
\* operations rows.
LEMMA QueueUndisturbed ==
    ASSUME QueueInv, UNCHANGED queueVars, op' \in [Jobs -> OpStatus]
    PROVE  QueueInv'
<1>1. TypeOK'
  BY DEF QueueInv, TypeOK, queueVars, rowVars, workerVars, bookVars
<1>2. \A j : Retriers(j)' = Retriers(j)
  BY DEF Retriers, Executors, queueVars, workerVars
<1>3. LeaseInv' /\ RegisterInv'
  BY DEF QueueInv, LeaseInv, RegisterInv, Covered, Registered, Exec, Late, queueVars,
         rowVars, workerVars, bookVars
<1>4. RetryInv'
  BY <1>2 DEF QueueInv, RetryInv, queueVars, rowVars, workerVars
<1>5. QED
  BY <1>1, <1>3, <1>4 DEF QueueInv

\* A step of the queue keeps OutcomeInv: the row of a job turns succeeded only after its
\* executor completed it, and nothing but a cancel or a lost lease undoes that.
LEMMA OutcomeStep == TypeOK /\ LeaseInv /\ OutcomeInv /\ [Next]_vars => OutcomeInv'
<1> SUFFICES ASSUME TypeOK, LeaseInv, OutcomeInv, [Next]_vars,
                    NEW k \in Jobs, k \notin lost', k \notin cancelled',
                    op'[k] = "succeeded" \/ \E w \in Workers : held'[w] = k /\ pc'[w] = "succeeded"
             PROVE  status'[k] = "completed"
  BY DEF OutcomeInv
<1>a. k \notin lost /\ k \notin cancelled
  BY DEF Next, WorkerStep, Enqueue, Cancel, Dequeue, Begin, Heartbeat, JobTimeout,
         HandlerReturns, HandlerPanics, WriteJob, WriteOp, WriteError, LeaseExpires,
         BackoffElapses, CancelOp, Stop, Crash, Restart, ProcessEnds, bookVars, vars
<1>b. /\ op \in [Jobs -> OpStatus] /\ pc \in [Workers -> PC]
      /\ held \in [Workers -> Jobs \cup {None}] /\ status \in [Jobs -> JobStatus]
      /\ \A w \in Workers : held[w] = None <=> pc[w] = "idle"
      /\ None \notin Jobs
  BY JobQueueAssumption DEF TypeOK
<1> DEFINE Won == op[k] = "succeeded" \/ \E w \in Workers : held[w] = k /\ pc[w] = "succeeded"
<1>c. ASSUME Won PROVE status'[k] = "completed"
  <2>1. status[k] = "completed"
    BY <1>c, <1>a DEF OutcomeInv
  <2>2. CASE UNCHANGED vars
    BY <2>1, <2>2 DEF vars, rowVars
  <2>3. CASE ~UNCHANGED vars
    BY <1>a, <2>1, <2>3, TerminalStep DEF Terminal
  <2>4. QED
    BY <2>2, <2>3
<1>1. CASE \E w \in Workers : WriteJob(w)
  <2>1. PICK w \in Workers : WriteJob(w)
    BY <1>1
  <2>2. /\ held[w] \in Jobs /\ op' = op /\ held' = held
        /\ \A v \in Workers \ {w} : pc'[v] = pc[v]
    BY <2>1, <1>b DEF WriteJob, Outcome
  <2>3. CASE Won
    BY <1>c, <2>3
  <2>4. CASE ~Won
    <3>1. held[w] = k /\ pc'[w] = "succeeded"
      BY <2>2, <2>4
    <3>2. pc[w] = "Acknowledge"
      BY <2>1, <1>b, <3>1 DEF WriteJob, OpAfter
    <3>3. QED
      BY <2>1, <1>b, <3>1, <3>2 DEF WriteJob, SetTerminal
  <2>5. QED
    BY <2>3, <2>4
<1>2. CASE ~\E w \in Workers : WriteJob(w)
  <2>1. op'[k] = "succeeded" => Won
    BY <1>2, <1>b DEF Next, WorkerStep, Enqueue, Cancel, Dequeue, Begin, Heartbeat, JobTimeout,
         HandlerReturns, HandlerPanics, WriteOp, WriteError, LeaseExpires,
         BackoffElapses, CancelOp, Stop, Crash, Restart, ProcessEnds, vars
  <2>2. ASSUME NEW w \in Workers, held'[w] = k, pc'[w] = "succeeded"
        PROVE  held[w] = k /\ pc[w] = "succeeded"
    <3>1. CASE \E v \in Workers : \/ \E j \in Jobs : Dequeue(v, j)
                                  \/ Begin(v) \/ HandlerReturns(v) \/ HandlerPanics(v)
      BY <2>2, <3>1, <1>b
         DEF Dequeue, Begin, HandlerReturns, HandlerPanics, FailureOutcome
    <3>2. CASE \E v \in Workers : WriteOp(v) \/ WriteError(v)
      BY <2>2, <3>2, <1>b DEF WriteOp, WriteError, Return
    <3>3. CASE \E p \in Procs : Crash(p) \/ Restart(p)
      BY <2>2, <3>3, <1>b DEF Crash, Restart, ProcessEnds
    <3>4. CASE UNCHANGED <<pc, held>>
      BY <2>2, <3>4
    <3>5. QED
      BY <1>2, <3>1, <3>2, <3>3, <3>4
         DEF Next, WorkerStep, Enqueue, Cancel, Heartbeat, JobTimeout, LeaseExpires,
             BackoffElapses, CancelOp, Stop, vars, workerVars
  <2>3. QED
    BY <1>c, <2>1, <2>2
<1>3. QED
  BY <1>1, <1>2

\* The invariant of the two services together.
WorkInv == QueueInv /\ ClaimInv /\ OutcomeInv

\* WorkInv holds at first and every step of either service keeps it.
THEOREM WorkInvariant == WorkSpec => []WorkInv
<1>1. WorkInit => WorkInv
  <2>1. WorkInit => QueueInv
    BY TypeInit, LeaseInit, RegisterInit, RetryInit DEF WorkInit, QueueInv
  <2>2. WorkInit => ClaimInv
    BY WorkAssumption
       DEF WorkInit, Service!OwnInit, ClaimInv, Service!PC
  <2>3. WorkInit => OutcomeInv
    BY DEF WorkInit, Init, OutcomeInv
  <2>4. QED
    BY <2>1, <2>2, <2>3 DEF WorkInv
<1>2. WorkInv /\ [WorkNext]_allVars => WorkInv'
  <2> SUFFICES ASSUME WorkInv, [WorkNext]_allVars PROVE WorkInv'
    OBVIOUS
  <2>1. CASE [Next]_vars /\ UNCHANGED serviceVars
    <3>1. QueueInv'
      BY <2>1, TypeStep, LeaseStep, RegisterStep, RetryStep DEF WorkInv, QueueInv
    <3>2. OutcomeInv'
      BY <2>1, OutcomeStep DEF WorkInv, QueueInv
    <3>3. ClaimInv'
      BY <2>1 DEF WorkInv, ClaimInv, serviceVars
    <3>4. QED
      BY <3>1, <3>2, <3>3 DEF WorkInv
  <2>2. CASE Service!Next /\ UNCHANGED queueVars
    <3>1. ClaimInv' /\ op' \in [Jobs -> OpStatus] /\ \A j \in Jobs : Claimed(j)
      BY <2>2, ServiceStep DEF WorkInv, QueueInv
    <3>2. QueueInv'
      BY <2>2, <3>1, QueueUndisturbed DEF WorkInv
    <3>3. OutcomeInv'
      BY <2>2, <3>1 DEF WorkInv, OutcomeInv, Claimed, queueVars, rowVars, workerVars, bookVars
    <3>4. QED
      BY <3>1, <3>2, <3>3 DEF WorkInv
  <2>3. QED
    BY <2>1, <2>2 DEF WorkNext, allVars
<1>3. QED
  BY <1>1, <1>2, PTL DEF WorkSpec

\* Next to the operation service the queue's row never reads succeeded for a job that is
\* not completed, unless it was cancelled or lost its lease.
THEOREM SuccessMeansCompletion == WorkSpec => []SucceededMeansCompleted
<1>1. WorkInv => SucceededMeansCompleted
  BY DEF WorkInv, OutcomeInv, SucceededMeansCompleted
<1>2. QED
  BY <1>1, WorkInvariant, PTL

\* What the queue promises alone it keeps next to the operation service.
THEOREM QueuePromisesKept ==
    WorkSpec => /\ [](SingleExecutor /\ RetryBound /\ FirstAttemptCancellable)
                /\ TerminalStable
<1>1. WorkInv => SingleExecutor /\ RetryBound /\ FirstAttemptCancellable
  BY LeaseImplies, RetryImplies, RegisterImplies DEF WorkInv, QueueInv
<1>2. WorkInv /\ [WorkNext]_allVars =>
        [\A j \in Jobs \ (lost \cup cancelled') :
            status[j] \in Terminal => status'[j] = status[j]]_vars
  <2> SUFFICES ASSUME WorkInv, [WorkNext]_allVars
               PROVE  [\A j \in Jobs \ (lost \cup cancelled') :
                          status[j] \in Terminal => status'[j] = status[j]]_vars
    OBVIOUS
  <2>1. CASE [Next]_vars
    BY <2>1, TerminalStep DEF WorkInv, QueueInv
  <2>2. CASE UNCHANGED queueVars
    BY <2>2 DEF queueVars, rowVars
  <2>3. QED
    BY <2>1, <2>2 DEF WorkNext, allVars
<1>3. QED
  BY <1>1, <1>2, WorkInvariant, PTL DEF WorkSpec, TerminalStable
=============================================================================
