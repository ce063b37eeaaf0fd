---------------------------- MODULE CommandQueue ----------------------------
(***************************************************************************)
(* The journaled queue of power commands of a Beacon daemon                *)
(* (beacon/internal/server/queue.go): the operations in memory, their rows *)
(* in the SQLite journal, the channel, the workers, the requests that      *)
(* enqueue and report on commands, and the shutdown and start of the       *)
(* daemon.                                                                 *)
(*                                                                         *)
(* One critical section of q.mu or one use of the channel is one step; the *)
(* handler returns in the step that records its result.  A command is      *)
(* named by its command id.  Commands carry no TTL, as no caller passes    *)
(* one.  A process that cannot load the journal runs a queue in memory     *)
(* only.                                                                   *)
(***************************************************************************)
EXTENDS Integers, Sequences

CONSTANTS
    Cmds,           \* commands
    Workers,        \* worker goroutines of one process
    ChanCap,        \* capacity of the channel
    JournalErrors,  \* TRUE: a statement on the journal may fail
    MaxBoots,       \* bound: starts of the daemon after the first
    Nil

ASSUME CommandAssumption ==
    /\ ChanCap \in Nat
    /\ JournalErrors \in BOOLEAN
    /\ MaxBoots \in Nat
    /\ Nil \notin Cmds

VARIABLES
    mem, row,   \* status of each command in q.operations and in the journal
    ch, feed,   \* the channel, and what Start has still to put into it
    sending,    \* commands whose Enqueue is between its row and its answer
    told,       \* what the callers of Enqueue were told of a command
    held,       \* the command each worker has taken, or Nil
    busy,       \* workers whose handler runs
    daemon,     \* "up", "cancelled" by Server.Shutdown, "closed" for commands, "down"
    journal,    \* FALSE: this process has the queue without a journal (q.db is nil)
    gap,        \* history: commands with a journal statement that failed or was not made
    boots

statusVars == <<mem, row, gap>>
workerVars == <<held, busy>>
hostVars == <<daemon, journal, boots>>
vars == <<statusVars, ch, feed, sending, told, workerVars, hostVars>>

Verdict == {"completed", "failed"}
Status == {"none", "pending", "running", "cancelled"} \cup Verdict
Answer == {"none", "accepted", "unjournaled", "early", "refused"}

TypeOK ==
    /\ mem \in [Cmds -> Status]
    /\ row \in [Cmds -> Status]
    /\ ch \in Seq(Cmds) /\ Len(ch) <= ChanCap
    /\ feed \subseteq Cmds
    /\ sending \subseteq Cmds
    /\ told \in [Cmds -> Answer]
    /\ held \in [Workers -> Cmds \cup {Nil}]
    /\ busy \subseteq {w \in Workers : held[w] # Nil}
    /\ daemon \in {"up", "cancelled", "closed", "down"}
    /\ journal \in BOOLEAN
    /\ gap \subseteq Cmds
    /\ boots \in 0..MaxBoots

Init ==
    /\ mem = [o \in Cmds |-> "none"]
    /\ row = [o \in Cmds |-> "none"]
    /\ ch = <<>> /\ feed = {}
    /\ sending = {}
    /\ told = [o \in Cmds |-> "none"]
    /\ held = [w \in Workers |-> Nil]
    /\ busy = {}
    /\ daemon = "up"
    /\ journal \in BOOLEAN /\ (~journal => JournalErrors)
    /\ gap = {}
    /\ boots = 0

-----------------------------------------------------------------------------
(* Helpers *)

\* A statement on the row of a command, whose error is only logged.
Journal(o, status) ==
    \/ journal /\ row' = [row EXCEPT ![o] = status] /\ UNCHANGED gap
    \/ journal /\ JournalErrors /\ gap' = gap \cup {o} /\ UNCHANGED row
    \/ ~journal /\ UNCHANGED <<row, gap>>

\* persist of a status that memory has already.
Record(o, status) ==
    /\ mem' = [mem EXCEPT ![o] = status]
    /\ Journal(o, status)

Queueing == IF journal THEN "accepted" ELSE "unjournaled"

Room == Len(ch) < ChanCap

-----------------------------------------------------------------------------
(* EnqueueCommandWithTTL *)

\* Mutant: the command is queued first and journaled by whoever takes it.
EnqueueUnjournaled(o) ==
    /\ daemon \in {"up", "cancelled"}
    /\ mem[o] = "none"
    /\ mem' = [mem EXCEPT ![o] = "pending"]
    /\ sending' = sending \cup {o}
    /\ told' = [told EXCEPT ![o] = "none"]
    /\ UNCHANGED <<row, gap, ch, feed, workerVars, hostVars>>

\* A new command: the row is inserted before the channel is tried.  The insert
\* fails where a row of the same command is left, and may fail with effect.  With
\* no journal there is nothing to insert, or to know an older command by.
Enqueue(o) ==
    /\ daemon \in {"up", "cancelled"}
    /\ mem[o] = "none"
    /\ \/ /\ journal => row[o] = "none"
          /\ row' = IF journal THEN [row EXCEPT ![o] = "pending"] ELSE row
          /\ gap' = IF journal THEN gap ELSE gap \cup {o}
          /\ mem' = [mem EXCEPT ![o] = "pending"]
          /\ sending' = sending \cup {o}
          /\ told' = [told EXCEPT ![o] = "none"]
       \/ /\ journal /\ (JournalErrors \/ row[o] # "none")
          /\ row' \in {row, [row EXCEPT ![o] = IF row[o] = "none" THEN "pending" ELSE row[o]]}
          /\ gap' = gap \cup {o}
          /\ told' = [told EXCEPT ![o] = "refused"]
          /\ UNCHANGED <<mem, sending>>
    /\ UNCHANGED <<ch, feed, workerVars, hostVars>>

\* The same command again: the caller is given the operation there is, even one
\* that its first caller has not queued yet.
Duplicate(o) ==
    /\ daemon \in {"up", "cancelled"}
    /\ mem[o] # "none"
    /\ told' = [told EXCEPT ![o] = IF o \in sending THEN "early" ELSE Queueing]
    /\ UNCHANGED <<statusVars, ch, feed, sending, workerVars, hostVars>>

Accept(o) ==
    /\ o \in sending
    /\ Room
    /\ ch' = Append(ch, o)
    /\ sending' = sending \ {o}
    /\ told' = [told EXCEPT ![o] = Queueing]
    /\ UNCHANGED <<statusVars, feed, workerVars, hostVars>>

\* Mutant: a withdrawn command is forgotten in memory only.
RefuseKeepsRow(o) ==
    /\ o \in sending
    /\ mem' = IF mem[o] = "pending" THEN [mem EXCEPT ![o] = "none"] ELSE mem
    /\ sending' = sending \ {o}
    /\ told' = [told EXCEPT ![o] = "refused"]
    /\ UNCHANGED <<row, gap, ch, feed, workerVars, hostVars>>

\* The channel is full or the request has gone: removeUnqueued takes a command
\* that is still pending back, from memory and from the journal.
Refuse(o) ==
    /\ o \in sending
    /\ IF mem[o] = "pending"
         THEN /\ mem' = [mem EXCEPT ![o] = "none"]
              /\ Journal(o, IF row[o] = "pending" THEN "none" ELSE row[o])
         ELSE UNCHANGED statusVars
    /\ sending' = sending \ {o}
    /\ told' = [told EXCEPT ![o] = "refused"]
    /\ UNCHANGED <<ch, feed, workerVars, hostVars>>

-----------------------------------------------------------------------------
(* Reports of the panel on a command *)

\* SetError, of a command in any state.
SetError(o) ==
    /\ daemon # "down"
    /\ mem[o] # "none"
    /\ Record(o, "failed")
    /\ UNCHANGED <<ch, feed, sending, told, workerVars, hostVars>>

\* AckCommand, SetProgress and SetResult write the row with the status it has in
\* memory.
Touch(o) ==
    /\ daemon # "down"
    /\ mem[o] # "none"
    /\ Record(o, mem[o])
    /\ UNCHANGED <<ch, feed, sending, told, workerVars, hostVars>>

-----------------------------------------------------------------------------
(* Workers *)

\* Start's goroutine puts what it found pending into the channel, in no order.
Feed(o) ==
    /\ daemon # "down"
    /\ o \in feed
    /\ Room
    /\ ch' = Append(ch, o)
    /\ feed' = feed \ {o}
    /\ UNCHANGED <<statusVars, sending, told, workerVars, hostVars>>

\* The select of worker: a cancelled context does not keep it from taking.
Take(w) ==
    /\ daemon # "down"
    /\ held[w] = Nil
    /\ ch # <<>>
    /\ held' = [held EXCEPT ![w] = Head(ch)]
    /\ ch' = Tail(ch)
    /\ UNCHANGED <<statusVars, feed, sending, told, busy, hostVars>>

\* Mutant: a command that got its verdict while it waited is run all the same.
BeginUnchecked(w) ==
    /\ daemon # "down"
    /\ held[w] # Nil /\ w \notin busy
    /\ Record(held[w], "running")
    /\ busy' = busy \cup {w}
    /\ UNCHANGED <<held, ch, feed, sending, told, hostVars>>

\* processOp up to the handler.
Begin(w) ==
    /\ daemon # "down"
    /\ held[w] # Nil /\ w \notin busy
    /\ \/ /\ mem[held[w]] = "pending"
          /\ Record(held[w], "running")
          /\ busy' = busy \cup {w}
          /\ UNCHANGED held
       \/ /\ mem[held[w]] # "pending"
          /\ held' = [held EXCEPT ![w] = Nil]
          /\ UNCHANGED <<statusVars, busy>>
    /\ UNCHANGED <<ch, feed, sending, told, hostVars>>

\* What becomes of a command that a shutdown cuts short.
Unfinished == IF journal THEN "pending" ELSE "cancelled"

\* Mutant: a clean return retires a failure that was reported meanwhile.
FinishOverwrites(w) ==
    /\ daemon # "down"
    /\ w \in busy
    /\ \E status \in IF daemon # "up" THEN {Unfinished} ELSE Verdict : Record(held[w], status)
    /\ held' = [held EXCEPT ![w] = Nil]
    /\ busy' = busy \ {w}
    /\ UNCHANGED <<ch, feed, sending, told, hostVars>>

\* processOp from the handler's return.  A cancelled context leaves no verdict; a
\* failure reported meanwhile stands.
Finish(w) ==
    /\ daemon # "down"
    /\ w \in busy
    /\ \/ daemon # "up" /\ Record(held[w], Unfinished)
       \/ daemon = "up" /\ Record(held[w], "failed")
       \/ daemon = "up" /\ mem[held[w]] # "failed" /\ Record(held[w], "completed")
    /\ held' = [held EXCEPT ![w] = Nil]
    /\ busy' = busy \ {w}
    /\ UNCHANGED <<ch, feed, sending, told, hostVars>>

-----------------------------------------------------------------------------
(* The daemon *)

\* Server.Shutdown cancels the context, and the queue closes: without a journal,
\* what waits is given up.
Cancel ==
    /\ daemon = "up"
    /\ boots < MaxBoots
    /\ daemon' = "cancelled"
    /\ UNCHANGED <<statusVars, ch, feed, sending, told, workerVars, journal, boots>>

Close ==
    /\ daemon = "cancelled"
    /\ daemon' = "closed"
    /\ mem' = [o \in Cmds |-> IF mem[o] = "pending" THEN Unfinished ELSE mem[o]]
    /\ UNCHANGED <<row, gap, ch, feed, sending, told, workerVars, journal, boots>>

\* The end of OperationQueue.Shutdown, workers done or not: what has no verdict is
\* journaled as pending, or given up, and the journal is closed.
ShutdownEnds ==
    /\ daemon = "closed"
    /\ LET open == {o \in Cmds : mem[o] \in {"pending", "running"}}
       IN \E lost \in SUBSET open :
            /\ lost # {} => journal /\ JournalErrors
            /\ row' = [o \in Cmds |->
                         IF journal /\ o \in open \ lost THEN "pending" ELSE row[o]]
            /\ mem' = [o \in Cmds |-> IF o \in open THEN Unfinished ELSE mem[o]]
            /\ gap' = gap \cup lost
    /\ daemon' = "down"
    /\ UNCHANGED <<ch, feed, sending, told, workerVars, journal, boots>>

NewProcess ==
    /\ boots < MaxBoots
    /\ boots' = boots + 1
    /\ ch' = <<>>
    /\ sending' = {}
    /\ held' = [w \in Workers |-> Nil]
    /\ busy' = {}
    /\ daemon' = "up"
    /\ UNCHANGED <<told, gap>>

\* Mutant: rows left running are loaded as they are.
BootKeepsRunning ==
    /\ NewProcess
    /\ journal' = TRUE
    /\ mem' = row
    /\ feed' = {o \in Cmds : row[o] = "pending"}
    /\ UNCHANGED row

\* The process ends, at any moment, and the next one loads the journal: a command
\* left running is pending again, and Start queues all that is pending.
Boot ==
    /\ NewProcess
    /\ journal' = TRUE
    /\ row' = [o \in Cmds |-> IF row[o] = "running" THEN "pending" ELSE row[o]]
    /\ mem' = row'
    /\ feed' = {o \in Cmds : row'[o] = "pending"}

\* The next process cannot open or load the journal, or not write all of what was
\* running back: New gives it a queue in memory, and the rows are left to a later
\* process.
BootMemory ==
    /\ JournalErrors
    /\ NewProcess
    /\ journal' = FALSE
    /\ mem' = [o \in Cmds |-> "none"]
    /\ feed' = {}
    /\ \E reset \in SUBSET {o \in Cmds : row[o] = "running"} :
         row' = [o \in Cmds |-> IF o \in reset THEN "pending" ELSE row[o]]

WorkerStep(w) == Take(w) \/ Begin(w) \/ Finish(w)

Next ==
    \/ \E o \in Cmds :
         \/ Enqueue(o) \/ Duplicate(o) \/ Accept(o) \/ Refuse(o)
         \/ SetError(o) \/ Touch(o)
         \/ Feed(o)
    \/ \E w \in Workers : WorkerStep(w)
    \/ Cancel \/ Close \/ ShutdownEnds
    \/ Boot \/ BootMemory

Spec == Init /\ [][Next]_vars

\* The workers take and begin, and Start's goroutine goes on; a shutdown ends
\* within its grace and the daemon is started again.  Nothing is assumed of the
\* handlers: Kill, Signal and ContainerStop run on the server's context, which has
\* no deadline, and may block for good.
Fairness ==
    /\ \A w \in Workers : WF_vars(Take(w) \/ Begin(w))
    /\ WF_vars(\E o \in Cmds : Feed(o))
    /\ WF_vars(Close \/ ShutdownEnds)
    /\ WF_vars(daemon = "down" /\ (Boot \/ BootMemory))

FairSpec == Spec /\ Fairness

-----------------------------------------------------------------------------
(* Properties *)

\* A command whose caller was told it is queued is in the journal from then on,
\* through crashes and shutdowns (EnqueueCommandWithTTL journals it before it
\* answers, and nothing but removeUnqueued deletes).
AcceptedKept == \A o \in Cmds : told[o] = "accepted" /\ o \notin gap => row[o] # "none"

\* A command whose caller was told it is refused is not executed, by this process
\* or by one that replays the journal (removeUnqueued).
RefusedNeverRuns ==
    \A o \in Cmds, w \in Workers :
        told[o] = "refused" /\ o \notin gap => ~(w \in busy /\ held[w] = o)

\* A command that has its verdict is not executed again, in whatever order it was
\* reported failed, taken from the channel, shut down and reloaded (processOp,
\* loadJournal).  A command still in its handler when the daemon stops is the
\* exception: it has its verdict withdrawn.
NotReplayed ==
    [][\A o \in Cmds :
         /\ row[o] \in Verdict /\ mem[o] = row[o]
         /\ o \notin {held[w] : w \in busy}
         => row'[o] \in Verdict]_vars

\* A failure that the panel reported and the journal took is not turned into a
\* success (processOp keeps it when the handler returns without error).
FailureStands ==
    [][\A o \in Cmds : mem[o] = "failed" /\ o \notin gap => mem'[o] # "completed"]_vars

\* Every command that was accepted gets a verdict, whichever crash, shutdown or
\* process without a journal comes between, if no handler blocks for good and the
\* journal can be loaded in the end (loadJournal, Start).
CommandSettles ==
    (\A w \in Workers : []<>(w \notin busy)) /\ <>[]journal
    => \A o \in Cmds : told[o] = "accepted" ~> mem[o] \in Verdict
=============================================================================
