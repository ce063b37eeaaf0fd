-------------------------- MODULE CommandQueueProofs --------------------------
(***************************************************************************)
(* Proofs about CommandQueue, for any commands, workers, capacity of the   *)
(* channel and number of starts, with and without errors of the journal:   *)
(* what a caller was told stays true (AcceptedKept, RefusedNeverRuns), and *)
(* a verdict stands (NotReplayed, FailureStands).                          *)
(***************************************************************************)
EXTENDS CommandQueue, SequenceTheorems, TLAPS

\* The tuples that UNCHANGED names are always expanded.
USE DEF statusVars, workerVars, hostVars

-----------------------------------------------------------------------------
(* The inductive invariant *)

\* A command that waits to be run or is with a worker.
InChannel(o) == \E i \in 1..Len(ch) : ch[i] = o
WithWorker(o) == \E w \in Workers : held[w] = o
Queued(o) == o \in feed \/ InChannel(o) \/ WithWorker(o)

\* Memory and journal agree where no statement failed; a process without a journal
\* knows only the commands that it was given itself.
Synced == \A o \in Cmds : o \notin gap => mem[o] = IF journal THEN row[o] ELSE "none"

\* A command is known as long as its Enqueue has not answered, and until then
\* nobody can take it.
Sent == \A o \in Cmds : o \in sending => mem[o] # "none" /\ ~Queued(o)
Known == \A o \in Cmds : Queued(o) => mem[o] # "none"

\* Who runs a command holds it.
Running == \A o \in Cmds : mem[o] = "running" => \E w \in busy : held[w] = o

\* A refused command neither waits nor would be replayed.
Withdrawn ==
    \A o \in Cmds : told[o] = "refused" /\ o \notin gap =>
        /\ ~Queued(o)
        /\ mem[o] \notin {"pending", "running"}
        /\ row[o] \notin {"pending", "running"}

Inv == TypeOK /\ Synced /\ Sent /\ Known /\ Running /\ Withdrawn /\ AcceptedKept

-----------------------------------------------------------------------------
(* The channel *)

LEMMA ChannelAppend ==
  ASSUME TypeOK, NEW o \in Cmds, ch' = Append(ch, o), Room
  PROVE  /\ ch' \in Seq(Cmds) /\ Len(ch') <= ChanCap
         /\ \A x : InChannel(x)' <=> InChannel(x) \/ x = o
  <1>1. ch' \in Seq(Cmds) /\ Len(ch') = Len(ch) + 1 /\ Len(ch) \in Nat
        /\ (\A i \in 1..Len(ch) : ch'[i] = ch[i]) /\ ch'[Len(ch) + 1] = o
    BY AppendProperties DEF TypeOK
  <1>2. Len(ch') <= ChanCap  BY <1>1, CommandAssumption DEF Room
  <1>3. ASSUME NEW x PROVE InChannel(x)' <=> InChannel(x) \/ x = o
    <2>1. InChannel(x)' => InChannel(x) \/ x = o
      <3> SUFFICES ASSUME NEW i \in 1..Len(ch'), ch'[i] = x PROVE InChannel(x) \/ x = o
        BY DEF InChannel
      <3>1. i \in 1..Len(ch) \/ i = Len(ch) + 1  BY <1>1
      <3> QED  BY <1>1, <3>1 DEF InChannel
    <2>2. InChannel(x) => InChannel(x)'
      <3> SUFFICES ASSUME NEW i \in 1..Len(ch), ch[i] = x PROVE InChannel(x)'
        BY DEF InChannel
      <3>1. i \in 1..Len(ch') /\ ch'[i] = x  BY <1>1
      <3> QED  BY <3>1 DEF InChannel
    <2>3. x = o => InChannel(x)'
      <3>1. Len(ch) + 1 \in 1..Len(ch')  BY <1>1
      <3> QED  BY <1>1, <3>1 DEF InChannel
    <2> QED  BY <2>1, <2>2, <2>3
  <1> QED  BY <1>1, <1>2, <1>3

LEMMA ChannelTail ==
  ASSUME TypeOK, ch # <<>>, ch' = Tail(ch)
  PROVE  /\ ch' \in Seq(Cmds) /\ Len(ch') <= ChanCap
         /\ Head(ch) \in Cmds /\ InChannel(Head(ch))
         /\ \A x : InChannel(x)' => InChannel(x)
  <1>1. /\ Len(ch) \in Nat /\ Len(ch) > 0 /\ Head(ch) = ch[1] /\ Head(ch) \in Cmds
        /\ ch' \in Seq(Cmds) /\ Len(ch') = Len(ch) - 1
        /\ \A i \in 1..Len(ch') : ch'[i] = ch[i + 1]
    BY HeadTailProperties, LenProperties, EmptySeq DEF TypeOK
  <1>2. Len(ch') <= ChanCap  BY <1>1, CommandAssumption DEF TypeOK
  <1>3. InChannel(Head(ch))
    <2>1. 1 \in 1..Len(ch)  BY <1>1
    <2> QED  BY <1>1, <2>1 DEF InChannel
  <1>4. ASSUME NEW x, InChannel(x)' PROVE InChannel(x)
    <2>1. PICK i \in 1..Len(ch') : ch'[i] = x  BY <1>4 DEF InChannel
    <2>2. i + 1 \in 1..Len(ch) /\ ch[i + 1] = x  BY <1>1, <2>1
    <2> QED  BY <2>2 DEF InChannel
  <1> QED  BY <1>1, <1>2, <1>3, <1>4

-----------------------------------------------------------------------------
(* What persist does to memory and journal *)

LEMMA RecordSets ==
  ASSUME TypeOK, NEW o \in Cmds, NEW status \in Status, Record(o, status)
  PROVE  /\ mem' \in [Cmds -> Status] /\ row' \in [Cmds -> Status]
         /\ gap \subseteq gap' /\ gap' \subseteq Cmds
         /\ mem'[o] = status
         /\ journal \/ o \in gap => (o \notin gap' => row'[o] = status)
         /\ row'[o] \in {row[o], status}
         /\ \A x \in Cmds : x # o => mem'[x] = mem[x] /\ row'[x] = row[x] /\ (x \in gap <=> x \in gap')
  BY DEF Record, Journal, TypeOK

LEMMA Journaled ==
  ASSUME Inv, NEW o \in Cmds, mem[o] # "none" PROVE journal \/ o \in gap
  BY DEF Inv, Synced

\* A step of the journal for a command that is known, with nobody moving it.
LEMMA InvRecord ==
  ASSUME Inv, NEW o \in Cmds, mem[o] # "none", NEW status \in {"failed", mem[o]},
         Record(o, status),
         UNCHANGED <<ch, feed, sending, told, workerVars, hostVars>>
  PROVE  Inv'
  <1>1. status \in Status /\ status # "none"  BY DEF Inv, TypeOK, Status, Verdict
  <1>2. /\ mem' \in [Cmds -> Status] /\ row' \in [Cmds -> Status]
        /\ gap \subseteq gap' /\ gap' \subseteq Cmds
        /\ mem'[o] = status
        /\ o \notin gap' => row'[o] = status
        /\ \A x \in Cmds : x # o => mem'[x] = mem[x] /\ row'[x] = row[x] /\ (x \in gap <=> x \in gap')
    BY <1>1, RecordSets, Journaled DEF Inv
  <1>3. \A x : Queued(x)' <=> Queued(x)  BY DEF Queued, InChannel, WithWorker
  <1>4. TypeOK'  BY <1>2 DEF Inv, TypeOK
  <1>5. Synced'  BY <1>2, Journaled DEF Inv, Synced
  <1>6. Sent' /\ Known'  BY <1>1, <1>2, <1>3 DEF Inv, Sent, Known
  <1>7. Running'  BY <1>2 DEF Inv, Running
  <1>8. Withdrawn'  BY <1>2, <1>3 DEF Inv, Withdrawn
  <1>9. AcceptedKept'  BY <1>1, <1>2 DEF Inv, AcceptedKept
  <1> QED  BY <1>4, <1>5, <1>6, <1>7, <1>8, <1>9 DEF Inv

\* Commands move on towards a worker, or nothing moves.
LEMMA InvMoves ==
  ASSUME Inv, TypeOK', UNCHANGED <<mem, row, gap, sending, told, busy, journal>>,
         \A x \in Cmds : Queued(x)' => Queued(x),
         \A w \in busy : held'[w] = held[w]
  PROVE  Inv'
  <1>1. Synced' /\ AcceptedKept'  BY DEF Inv, Synced, AcceptedKept
  <1>2. Sent' /\ Known' /\ Withdrawn'  BY DEF Inv, Sent, Known, Withdrawn
  <1>3. Running'  BY DEF Inv, Running
  <1> QED  BY <1>1, <1>2, <1>3 DEF Inv

-----------------------------------------------------------------------------
(* Requests *)

LEMMA InvEnqueue ==
  ASSUME Inv, NEW o \in Cmds, Enqueue(o) PROVE Inv'
  <1> USE DEF Enqueue
  <1>1. ~Queued(o) /\ o \notin sending /\ mem[o] = "none"  BY DEF Inv, Known, Sent
  <1>2. \A x : Queued(x)' <=> Queued(x)  BY DEF Queued, InChannel, WithWorker
  <1>3. CASE /\ row' = IF journal THEN [row EXCEPT ![o] = "pending"] ELSE row
             /\ gap' = IF journal THEN gap ELSE gap \cup {o}
             /\ mem' = [mem EXCEPT ![o] = "pending"] /\ sending' = sending \cup {o}
             /\ told' = [told EXCEPT ![o] = "none"]
    <2>1. /\ mem'[o] = "pending" /\ told'[o] = "none"
          /\ o \notin gap' => journal /\ row'[o] = "pending"
          /\ \A x \in Cmds : x # o => /\ mem'[x] = mem[x] /\ row'[x] = row[x] /\ told'[x] = told[x]
                                      /\ (x \in gap <=> x \in gap')
      BY <1>3 DEF Inv, TypeOK
    <2>2. TypeOK'  BY <1>3 DEF Inv, TypeOK, Status, Answer
    <2>3. Synced' /\ AcceptedKept'  BY <1>3, <2>1 DEF Inv, Synced, AcceptedKept
    <2>4. Sent' /\ Known'  BY <1>1, <1>2, <1>3, <2>1 DEF Inv, Sent, Known
    <2>5. Running'  BY <1>3, <2>1 DEF Inv, Running
    <2>6. Withdrawn'  BY <1>2, <1>3, <2>1 DEF Inv, Withdrawn
    <2> QED  BY <2>2, <2>3, <2>4, <2>5, <2>6 DEF Inv
  <1>4. CASE /\ row' \in {row, [row EXCEPT ![o] = IF row[o] = "none" THEN "pending" ELSE row[o]]}
             /\ gap' = gap \cup {o} /\ told' = [told EXCEPT ![o] = "refused"]
             /\ UNCHANGED <<mem, sending>>
    <2>1. /\ told'[o] = "refused" /\ o \in gap'
          /\ \A x \in Cmds : x # o => /\ row'[x] = row[x] /\ told'[x] = told[x]
                                      /\ (x \in gap <=> x \in gap')
      BY <1>4 DEF Inv, TypeOK
    <2>2. row' \in [Cmds -> Status]  BY <1>4 DEF Inv, TypeOK, Status
    <2>3. TypeOK'  BY <1>4, <2>2 DEF Inv, TypeOK, Answer
    <2>4. Synced' /\ AcceptedKept'  BY <1>4, <2>1 DEF Inv, Synced, AcceptedKept
    <2>5. Sent' /\ Known' /\ Running'  BY <1>2, <1>4 DEF Inv, Sent, Known, Running
    <2>6. Withdrawn'  BY <1>2, <1>4, <2>1 DEF Inv, Withdrawn
    <2> QED  BY <2>3, <2>4, <2>5, <2>6 DEF Inv
  <1> QED  BY <1>3, <1>4

LEMMA InvDuplicate ==
  ASSUME Inv, NEW o \in Cmds, Duplicate(o) PROVE Inv'
  <1> USE DEF Duplicate
  <1>1. /\ told'[o] \in {"early", "unjournaled", "accepted"} /\ (told'[o] = "accepted" => journal)
        /\ \A x \in Cmds : x # o => told'[x] = told[x]
    BY DEF Inv, TypeOK, Queueing
  <1>2. \A x : Queued(x)' <=> Queued(x)  BY DEF Queued, InChannel, WithWorker
  <1>3. TypeOK'  BY DEF Inv, TypeOK, Answer, Queueing
  <1>4. Synced' /\ Running'  BY DEF Inv, Synced, Running
  <1>5. Sent' /\ Known'  BY <1>2 DEF Inv, Sent, Known
  <1>6. Withdrawn'  BY <1>1, <1>2 DEF Inv, Withdrawn
  <1>7. AcceptedKept'  BY <1>1 DEF Inv, AcceptedKept, Synced
  <1> QED  BY <1>3, <1>4, <1>5, <1>6, <1>7 DEF Inv

LEMMA InvAccept ==
  ASSUME Inv, NEW o \in Cmds, Accept(o) PROVE Inv'
  <1> USE DEF Accept
  <1>1. /\ ch' \in Seq(Cmds) /\ Len(ch') <= ChanCap
        /\ \A x : InChannel(x)' <=> InChannel(x) \/ x = o
    BY ChannelAppend DEF Inv
  <1>2. \A x \in Cmds : x # o => (Queued(x)' <=> Queued(x))  BY <1>1 DEF Queued, WithWorker
  <1>3. /\ told'[o] \in {"unjournaled", "accepted"} /\ (told'[o] = "accepted" => journal)
        /\ \A x \in Cmds : x # o => told'[x] = told[x]
    BY DEF Inv, TypeOK, Queueing
  <1>4. mem[o] # "none"  BY DEF Inv, Sent
  <1>5. TypeOK'  BY <1>1 DEF Inv, TypeOK, Answer, Queueing
  <1>6. Synced' /\ Running'  BY DEF Inv, Synced, Running
  <1>7. Sent' /\ Known'  BY <1>2, <1>4 DEF Inv, Sent, Known
  <1>8. Withdrawn'  BY <1>2, <1>3 DEF Inv, Withdrawn
  <1>9. AcceptedKept'  BY <1>3, <1>4 DEF Inv, AcceptedKept, Synced
  <1> QED  BY <1>5, <1>6, <1>7, <1>8, <1>9 DEF Inv

LEMMA InvRefuse ==
  ASSUME Inv, NEW o \in Cmds, Refuse(o) PROVE Inv'
  <1> USE DEF Refuse
  <1>1. ~Queued(o) /\ mem[o] # "none"  BY DEF Inv, Sent
  <1>2. \A x : Queued(x)' <=> Queued(x)  BY DEF Queued, InChannel, WithWorker
  <1>3. told'[o] = "refused" /\ \A x \in Cmds : x # o => told'[x] = told[x]
    BY DEF Inv, TypeOK
  <1>4. mem[o] # "running"
    <2> SUFFICES ASSUME mem[o] = "running" PROVE FALSE
      OBVIOUS
    <2>1. PICK w \in busy : held[w] = o  BY DEF Inv, Running
    <2>2. w \in Workers  BY DEF Inv, TypeOK
    <2> QED  BY <1>1, <2>1, <2>2 DEF Queued, WithWorker
  <1>5. /\ mem' \in [Cmds -> Status] /\ row' \in [Cmds -> Status]
        /\ gap \subseteq gap' /\ gap' \subseteq Cmds
        /\ mem'[o] \notin {"pending", "running"}
        /\ o \notin gap' => journal /\ mem'[o] = row'[o]
        /\ \A x \in Cmds : x # o => mem'[x] = mem[x] /\ row'[x] = row[x] /\ (x \in gap <=> x \in gap')
    <2>0. journal \/ o \in gap  BY <1>1, Journaled
    <2>1. CASE mem[o] # "pending"  BY <1>4, <2>0, <2>1 DEF Inv, TypeOK, Synced
    <2>2. CASE mem[o] = "pending"
      <3>1. mem' = [mem EXCEPT ![o] = "none"]  BY <2>2
      <3>2. mem' \in [Cmds -> Status] /\ mem'[o] = "none"
            /\ \A x \in Cmds : x # o => mem'[x] = mem[x]
        BY <3>1 DEF Inv, TypeOK, Status
      <3>3. CASE gap' = gap \cup {o} /\ row' = row  BY <3>2, <3>3 DEF Inv, TypeOK
      <3>4. CASE gap' = gap /\ row' = [row EXCEPT ![o] = IF row[o] = "pending" THEN "none" ELSE row[o]]
        <4>1. o \notin gap => row[o] = "pending"  BY <2>0, <2>2 DEF Inv, Synced
        <4>2. row' \in [Cmds -> Status] /\ (o \notin gap => row'[o] = "none")
              /\ \A x \in Cmds : x # o => row'[x] = row[x]
          BY <3>4, <4>1 DEF Inv, TypeOK, Status
        <4> QED  BY <2>0, <3>2, <3>4, <4>2 DEF Inv, TypeOK
      <3>5. CASE ~journal /\ gap' = gap /\ row' = row
        BY <2>0, <3>2, <3>5 DEF Inv, TypeOK
      <3> QED  BY <2>2, <3>3, <3>4, <3>5 DEF Journal
    <2> QED  BY <2>1, <2>2
  <1>6. TypeOK'  BY <1>5 DEF Inv, TypeOK, Answer
  <1>7. Synced'  BY <1>5 DEF Inv, Synced
  <1>8. Sent' /\ Known'  BY <1>1, <1>2, <1>5 DEF Inv, Sent, Known
  <1>9. Running'  BY <1>5 DEF Inv, Running
  <1>10. Withdrawn'  BY <1>1, <1>2, <1>3, <1>5 DEF Inv, Withdrawn
  <1>11. AcceptedKept'  BY <1>3, <1>5 DEF Inv, AcceptedKept
  <1> QED  BY <1>6, <1>7, <1>8, <1>9, <1>10, <1>11 DEF Inv

-----------------------------------------------------------------------------
(* Workers *)

LEMMA InvFeed ==
  ASSUME Inv, NEW o \in Cmds, Feed(o) PROVE Inv'
  <1> USE DEF Feed
  <1>1. /\ ch' \in Seq(Cmds) /\ Len(ch') <= ChanCap
        /\ \A x : InChannel(x)' <=> InChannel(x) \/ x = o
    BY ChannelAppend DEF Inv
  <1>2. TypeOK'  BY <1>1 DEF Inv, TypeOK
  <1>3. \A x \in Cmds : Queued(x)' => Queued(x)  BY <1>1 DEF Queued, WithWorker
  <1> QED  BY <1>2, <1>3, InvMoves

LEMMA InvTake ==
  ASSUME Inv, NEW w \in Workers, Take(w) PROVE Inv'
  <1> USE DEF Take
  <1>1. /\ ch' \in Seq(Cmds) /\ Len(ch') <= ChanCap
        /\ Head(ch) \in Cmds /\ InChannel(Head(ch))
        /\ \A x : InChannel(x)' => InChannel(x)
    BY ChannelTail DEF Inv
  <1>2. w \notin busy  BY DEF Inv, TypeOK
  <1>3. held' \in [Workers -> Cmds \cup {Nil}] /\ held'[w] = Head(ch)
        /\ \A v \in Workers : v # w => held'[v] = held[v]
    BY <1>1 DEF Inv, TypeOK
  <1>4. busy' \subseteq {v \in Workers : held'[v] # Nil}  BY <1>2, <1>3 DEF Inv, TypeOK
  <1>5. TypeOK'  BY <1>1, <1>3, <1>4 DEF Inv, TypeOK
  <1>6. \A x \in Cmds : Queued(x)' => Queued(x)  BY <1>1, <1>3 DEF Queued, WithWorker
  <1>7. \A v \in busy : held'[v] = held[v]  BY <1>2, <1>3 DEF Inv, TypeOK
  <1> QED  BY <1>5, <1>6, <1>7, InvMoves

LEMMA InvBegin ==
  ASSUME Inv, NEW w \in Workers, Begin(w) PROVE Inv'
  <1> USE DEF Begin
  <1>1. PICK o \in Cmds : o = held[w]  BY DEF Inv, TypeOK
  <1>2. Queued(o)  BY <1>1 DEF Queued, WithWorker
  <1>3. CASE mem[o] = "pending" /\ Record(o, "running") /\ busy' = busy \cup {w} /\ UNCHANGED held
    <2>1. /\ mem' \in [Cmds -> Status] /\ row' \in [Cmds -> Status]
          /\ gap \subseteq gap' /\ gap' \subseteq Cmds
          /\ mem'[o] = "running"
          /\ o \notin gap' => row'[o] = "running"
          /\ \A x \in Cmds : x # o => mem'[x] = mem[x] /\ row'[x] = row[x] /\ (x \in gap <=> x \in gap')
      BY <1>3, RecordSets, Journaled DEF Inv, Status
    <2>2. \A x : Queued(x)' <=> Queued(x)  BY <1>3 DEF Queued, InChannel, WithWorker
    <2>3. busy' \subseteq {v \in Workers : held'[v] # Nil}  BY <1>3 DEF Inv, TypeOK
    <2>4. TypeOK'  BY <1>3, <2>1, <2>3 DEF Inv, TypeOK
    <2>5. Synced' /\ AcceptedKept'  BY <1>3, <2>1, Journaled DEF Inv, Synced, AcceptedKept
    <2>6. Sent' /\ Known'  BY <2>1, <2>2 DEF Inv, Sent, Known
    <2>7. Running'  BY <1>1, <1>3, <2>1 DEF Inv, Running
    <2>8. Withdrawn'  BY <1>2, <2>1, <2>2 DEF Inv, Withdrawn
    <2> QED  BY <2>4, <2>5, <2>6, <2>7, <2>8 DEF Inv
  <1>4. CASE held' = [held EXCEPT ![w] = Nil] /\ UNCHANGED <<mem, row, gap, busy>>
    <2>1. held' \in [Workers -> Cmds \cup {Nil}] /\ held'[w] = Nil
          /\ \A v \in Workers : v # w => held'[v] = held[v]
      BY <1>4 DEF Inv, TypeOK
    <2>2. \A v \in busy : v \in Workers /\ v # w /\ held'[v] = held[v]  BY <2>1 DEF Inv, TypeOK
    <2>3. busy' \subseteq {v \in Workers : held'[v] # Nil}  BY <1>4, <2>2 DEF Inv, TypeOK
    <2>4. TypeOK'  BY <1>4, <2>1, <2>3 DEF Inv, TypeOK
    <2>5. \A x \in Cmds : Queued(x)' => Queued(x)
      BY <2>1, CommandAssumption DEF Queued, InChannel, WithWorker
    <2> QED  BY <1>4, <2>2, <2>4, <2>5, InvMoves
  <1> QED  BY <1>1, <1>3, <1>4

LEMMA InvFinish ==
  ASSUME Inv, NEW w \in Workers, Finish(w) PROVE Inv'
  <1> USE DEF Finish
  <1>1. PICK o \in Cmds : o = held[w]  BY DEF Inv, TypeOK
  <1>2. Queued(o)  BY <1>1 DEF Queued, WithWorker
  <1>3. PICK status \in {"pending", "cancelled", "completed", "failed"} : Record(o, status)
    BY <1>1 DEF Unfinished
  <1>4. status \in Status /\ mem[o] # "none"  BY <1>2 DEF Status, Verdict, Inv, Known
  <1>5. /\ mem' \in [Cmds -> Status] /\ row' \in [Cmds -> Status]
        /\ gap \subseteq gap' /\ gap' \subseteq Cmds
        /\ mem'[o] = status
        /\ o \notin gap' => row'[o] = status
        /\ \A x \in Cmds : x # o => mem'[x] = mem[x] /\ row'[x] = row[x] /\ (x \in gap <=> x \in gap')
    BY <1>3, <1>4, RecordSets, Journaled DEF Inv
  <1>6. held' \in [Workers -> Cmds \cup {Nil}] /\ held'[w] = Nil
        /\ \A v \in Workers : v # w => held'[v] = held[v]
    BY DEF Inv, TypeOK
  <1>7. /\ ch' = ch /\ feed' = feed /\ sending' = sending /\ told' = told /\ busy' = busy \ {w}
        /\ journal' = journal
    OBVIOUS
  <1>8. busy' \subseteq {v \in Workers : held'[v] # Nil}  BY <1>6, <1>7 DEF Inv, TypeOK
  <1>9. TypeOK'  BY <1>5, <1>6, <1>8 DEF Inv, TypeOK
  <1> HIDE DEF Finish
  <1>10. \A x \in Cmds : Queued(x)' => Queued(x)
    BY <1>6, <1>7, CommandAssumption DEF Queued, InChannel, WithWorker
  <1>11. Synced' /\ AcceptedKept'
    BY <1>3, <1>4, <1>5, <1>7, Journaled DEF Inv, Synced, AcceptedKept
  <1>12. Sent' /\ Known'  BY <1>5, <1>7, <1>10 DEF Inv, Sent, Known
  <1>13. Running'
    <2> SUFFICES ASSUME NEW x \in Cmds, mem'[x] = "running" PROVE \E v \in busy' : held'[v] = x
      BY DEF Running
    <2>1. x # o /\ mem[x] = "running"  BY <1>5
    <2>2. PICK v \in busy : held[v] = x  BY <2>1 DEF Inv, Running
    <2>3. v # w /\ v \in Workers  BY <1>1, <2>1, <2>2 DEF Inv, TypeOK
    <2> QED  BY <1>6, <1>7, <2>2, <2>3
  <1>14. Withdrawn'  BY <1>2, <1>5, <1>7, <1>10 DEF Inv, Withdrawn
  <1> QED  BY <1>9, <1>11, <1>12, <1>13, <1>14 DEF Inv

-----------------------------------------------------------------------------
(* The daemon *)

LEMMA InvClose ==
  ASSUME Inv, Close PROVE Inv'
  <1> USE DEF Close
  <1>1. mem' \in [Cmds -> Status]  BY DEF Inv, TypeOK, Status, Unfinished
  <1>2. \A o \in Cmds : \/ mem'[o] = mem[o]
                        \/ ~journal /\ mem[o] = "pending" /\ mem'[o] = "cancelled"
    BY DEF Unfinished
  <1>3. \A x : Queued(x)' <=> Queued(x)  BY DEF Queued, InChannel, WithWorker
  <1>4. TypeOK'  BY <1>1 DEF Inv, TypeOK
  <1>5. Synced' /\ AcceptedKept'  BY <1>2 DEF Inv, Synced, AcceptedKept
  <1>6. Sent' /\ Known' /\ Withdrawn'  BY <1>2, <1>3 DEF Inv, Sent, Known, Withdrawn
  <1>7. Running'  BY <1>2 DEF Inv, Running
  <1> QED  BY <1>4, <1>5, <1>6, <1>7 DEF Inv

LEMMA InvShutdownEnds ==
  ASSUME Inv, ShutdownEnds PROVE Inv'
  <1> USE DEF ShutdownEnds
  <1> DEFINE open == {o \in Cmds : mem[o] \in {"pending", "running"}}
  <1>1. PICK lost \in SUBSET open :
          /\ row' = [o \in Cmds |-> IF journal /\ o \in open \ lost THEN "pending" ELSE row[o]]
          /\ mem' = [o \in Cmds |-> IF o \in open THEN Unfinished ELSE mem[o]]
          /\ gap' = gap \cup lost
    OBVIOUS
  <1>2. UNCHANGED <<ch, feed, sending, told, held, busy, journal, boots>> /\ daemon' = "down"
    OBVIOUS
  <1> HIDE DEF ShutdownEnds
  <1>3. mem' \in [Cmds -> Status] /\ row' \in [Cmds -> Status]
    BY <1>1 DEF Inv, TypeOK, Status, Unfinished
  <1>4. TypeOK'  BY <1>1, <1>2, <1>3 DEF Inv, TypeOK
  <1>5. \A o \in Cmds :
          /\ mem[o] \in {"pending", "running"} => mem'[o] \in {"pending", "cancelled"}
          /\ mem[o] \notin {"pending", "running"} => mem'[o] = mem[o] /\ row'[o] = row[o]
          /\ o \notin gap' => o \notin gap /\ o \notin lost
          /\ o \notin gap' /\ mem[o] \in {"pending", "running"} /\ journal
             => row'[o] = "pending" /\ mem'[o] = "pending"
    BY <1>1 DEF Unfinished
  <1> HIDE DEF open
  <1>6. \A x : Queued(x)' <=> Queued(x)  BY <1>2 DEF Queued, InChannel, WithWorker
  <1>7. Synced'  BY <1>2, <1>5 DEF Inv, Synced
  <1>8. Sent' /\ Known'  BY <1>2, <1>5, <1>6 DEF Inv, Sent, Known
  <1>9. Running'  BY <1>5 DEF Running
  <1>10. Withdrawn'  BY <1>2, <1>5, <1>6 DEF Inv, Withdrawn
  <1>11. AcceptedKept'
    <2> SUFFICES ASSUME NEW o \in Cmds, told'[o] = "accepted", o \notin gap' PROVE row'[o] # "none"
      BY DEF AcceptedKept
    <2>1. mem[o] \in {"pending", "running"} => journal  BY <1>5, Journaled
    <2> QED  BY <1>2, <1>5, <2>1 DEF Inv, AcceptedKept
  <1> QED  BY <1>4, <1>7, <1>8, <1>9, <1>10, <1>11 DEF Inv

\* What a new process starts from.
LEMMA FreshQueue ==
  ASSUME Inv, NewProcess,
         mem' \in [Cmds -> Status], row' \in [Cmds -> Status], journal' \in BOOLEAN,
         feed' \subseteq {o \in Cmds : mem'[o] = "pending"},
         \A o \in Cmds : mem'[o] # "running",
         \A o \in Cmds : mem'[o] = IF journal' THEN row'[o] ELSE "none",
         \A o \in Cmds : row'[o] # row[o] => row[o] = "running" /\ row'[o] = "pending"
  PROVE  Inv'
  <1> USE DEF NewProcess
  <1>1. ch' \in Seq(Cmds) /\ Len(ch') = 0  OBVIOUS
  <1>2. boots' \in 0..MaxBoots  BY CommandAssumption DEF Inv, TypeOK
  <1>3. feed' \subseteq Cmds  OBVIOUS
  <1>4. TypeOK'  BY <1>1, <1>2, <1>3, CommandAssumption DEF Inv, TypeOK
  <1>5. \A o \in Cmds : Queued(o)' => mem'[o] = "pending"
    BY <1>1, CommandAssumption DEF Queued, InChannel, WithWorker
  <1>6. Synced' /\ Sent'  BY DEF Synced, Sent
  <1>7. Known' /\ Running'  BY <1>5 DEF Known, Running
  <1>8. Withdrawn'
    <2> SUFFICES ASSUME NEW o \in Cmds, told[o] = "refused", o \notin gap
                 PROVE  /\ ~Queued(o)'
                        /\ mem'[o] \notin {"pending", "running"}
                        /\ row'[o] \notin {"pending", "running"}
      BY DEF Withdrawn
    <2>1. row[o] \notin {"pending", "running"}  BY DEF Inv, Withdrawn
    <2>2. row'[o] = row[o]  BY <2>1
    <2>3. mem'[o] \notin {"pending", "running"}  BY <2>1, <2>2
    <2> QED  BY <1>5, <2>1, <2>2, <2>3
  <1>9. AcceptedKept'  BY DEF Inv, AcceptedKept
  <1> QED  BY <1>4, <1>6, <1>7, <1>8, <1>9 DEF Inv

LEMMA InvBoot ==
  ASSUME Inv, Boot \/ BootMemory PROVE Inv'
  <1>1. CASE Boot
    <2>1. row' \in [Cmds -> Status] /\ mem' = row' /\ journal' = TRUE
      BY <1>1 DEF Boot, Inv, TypeOK, Status
    <2>2. \A o \in Cmds : /\ row[o] = "running" => row'[o] = "pending"
                          /\ row[o] # "running" => row'[o] = row[o]
      BY <1>1 DEF Boot
    <2>3. \A o \in Cmds : mem'[o] # "running"  BY <2>1, <2>2
    <2>4. feed' \subseteq {o \in Cmds : mem'[o] = "pending"}  BY <1>1, <2>1 DEF Boot
    <2>5. \A o \in Cmds : row'[o] # row[o] => row[o] = "running" /\ row'[o] = "pending"
      BY <2>2
    <2>6. NewProcess  BY <1>1 DEF Boot
    <2>7. \A o \in Cmds : mem'[o] = IF journal' THEN row'[o] ELSE "none"  BY <2>1
    <2> QED  BY <2>1, <2>3, <2>4, <2>5, <2>6, <2>7, FreshQueue
  <1>2. CASE BootMemory
    <2>1. /\ mem' = [o \in Cmds |-> "none"] /\ journal' = FALSE /\ feed' = {}
          /\ row' \in [Cmds -> Status]
      BY <1>2 DEF BootMemory, Inv, TypeOK, Status
    <2>2. mem' \in [Cmds -> Status]  BY <2>1 DEF Status
    <2>3. \A o \in Cmds : row'[o] # row[o] => row[o] = "running" /\ row'[o] = "pending"
      BY <1>2 DEF BootMemory
    <2>4. NewProcess  BY <1>2 DEF BootMemory
    <2> QED  BY <2>1, <2>2, <2>3, <2>4, FreshQueue
  <1> QED  BY <1>1, <1>2

LEMMA InvStep ==
  ASSUME Inv, [Next]_vars PROVE Inv'
  <1>1. ASSUME NEW o \in Cmds, SetError(o) \/ Touch(o) PROVE Inv'
    BY <1>1, InvRecord DEF SetError, Touch
  <1>2. CASE Cancel \/ UNCHANGED vars
    <2>1. UNCHANGED <<mem, row, gap, sending, told, busy, held, ch, feed, journal, boots>>
      BY <1>2 DEF Cancel, vars
    <2>2. TypeOK'  BY <1>2, <2>1 DEF Cancel, vars, Inv, TypeOK
    <2>3. \A x \in Cmds : Queued(x)' => Queued(x)  BY <2>1 DEF Queued, InChannel, WithWorker
    <2> QED  BY <2>1, <2>2, <2>3, InvMoves
  <1> QED
    BY <1>1, <1>2, InvEnqueue, InvDuplicate, InvAccept, InvRefuse, InvFeed, InvTake, InvBegin,
       InvFinish, InvClose, InvShutdownEnds, InvBoot DEF Next, WorkerStep

LEMMA InvInit == Init => Inv
  <1> SUFFICES ASSUME Init PROVE Inv
    OBVIOUS
  <1> USE DEF Init
  <1>1. Len(ch) = 0 /\ ch \in Seq(Cmds)  OBVIOUS
  <1>2. TypeOK  BY <1>1, CommandAssumption DEF TypeOK, Status, Answer
  <1>3. \A o \in Cmds : ~Queued(o)
    <2> TAKE o \in Cmds
    <2>1. ~InChannel(o)  BY <1>1 DEF InChannel
    <2>2. ~WithWorker(o)  BY CommandAssumption DEF WithWorker
    <2> QED  BY <2>1, <2>2 DEF Queued
  <1>4. Synced /\ Sent /\ Known /\ Running /\ Withdrawn /\ AcceptedKept
    BY <1>3 DEF Synced, Sent, Known, Running, Withdrawn, AcceptedKept
  <1> QED  BY <1>2, <1>4 DEF Inv

LEMMA InvAlways == Spec => []Inv
  BY InvInit, InvStep, PTL DEF Spec

-----------------------------------------------------------------------------
(* The theorems *)

\* Every reachable state of the queue, its journal, channel and workers is
\* well-typed; in particular only workers that hold a command run one.
THEOREM TypeCorrect == Spec => []TypeOK
  <1>1. Inv => TypeOK  BY DEF Inv
  <1> QED  BY <1>1, InvAlways, PTL

\* A command whose caller was told it is queued stays in the journal, for any
\* number of crashes, shutdowns and reloads (EnqueueCommandWithTTL).
THEOREM AcceptedIsKept == Spec => []AcceptedKept
  <1>1. Inv => AcceptedKept  BY DEF Inv
  <1> QED  BY <1>1, InvAlways, PTL

\* A command that was refused is run by no worker of this or a later process
\* (removeUnqueued, loadJournal).
THEOREM RefusedIsNeverRun == Spec => []RefusedNeverRuns
  <1>1. Inv => RefusedNeverRuns
    <2> SUFFICES ASSUME Inv, NEW o \in Cmds, NEW w \in Workers, told[o] = "refused", o \notin gap,
                        held[w] = o
                 PROVE  FALSE
      BY DEF RefusedNeverRuns
    <2> QED  BY DEF Inv, Withdrawn, Queued, WithWorker
  <1> QED  BY <1>1, InvAlways, PTL

\* A failure that the panel reported is never turned into a success, whether the
\* handler returns, the daemon restarts or the row is written again (processOp).
THEOREM FailuresStand == Spec => FailureStands
  <1>1. ASSUME Inv, [Next]_vars, NEW o \in Cmds, mem[o] = "failed", o \notin gap
        PROVE  mem'[o] # "completed"
    <2>0. TypeOK  BY <1>1 DEF Inv
    <2>1. ASSUME NEW x \in Cmds, NEW status, x = o => status # "completed",
                 mem' = [mem EXCEPT ![x] = status] PROVE mem'[o] # "completed"
      BY <1>1, <2>0, <2>1 DEF TypeOK
    <2>2. ASSUME NEW x \in Cmds, Enqueue(x) \/ Refuse(x) \/ SetError(x) \/ Touch(x)
          PROVE mem'[o] # "completed"
      BY <1>1, <2>1, <2>2 DEF Enqueue, Refuse, SetError, Touch, Record
    <2>3. ASSUME NEW w \in Workers, Begin(w) PROVE mem'[o] # "completed"
      <3>1. held[w] \in Cmds  BY <2>0, <2>3 DEF Begin, TypeOK
      <3> QED  BY <1>1, <2>1, <2>3, <3>1 DEF Begin, Record
    <2>4. ASSUME NEW w \in Workers, Finish(w) PROVE mem'[o] # "completed"
      <3>1. held[w] \in Cmds  BY <2>0, <2>4 DEF Finish, TypeOK
      <3>2. PICK status : /\ mem' = [mem EXCEPT ![held[w]] = status]
                          /\ held[w] = o => status # "completed"
        BY <1>1, <2>4 DEF Finish, Record, Unfinished
      <3> QED  BY <2>1, <3>1, <3>2
    <2>5. CASE Close \/ ShutdownEnds  BY <1>1, <2>5 DEF Close, ShutdownEnds
    <2>6. CASE Boot
      <3>1. row[o] = "failed"  BY <1>1 DEF Inv, Synced
      <3> QED  BY <2>6, <3>1 DEF Boot
    <2>7. CASE BootMemory  BY <2>7 DEF BootMemory
    <2>8. CASE mem' = mem  BY <1>1, <2>8
    <2> QED
      BY <1>1, <2>2, <2>3, <2>4, <2>5, <2>6, <2>7, <2>8
         DEF Next, WorkerStep, Duplicate, Accept, Feed, Take, Cancel, vars
  <1>2. Inv /\ [Next]_vars
          => [\A o \in Cmds : mem[o] = "failed" /\ o \notin gap => mem'[o] # "completed"]_vars
    BY <1>1
  <1> QED  BY <1>2, InvAlways, PTL DEF Spec, FailureStands

\* A command with a verdict in memory and journal that is in no handler keeps one:
\* nothing puts it back to be replayed (removeUnqueued, processOp, Shutdown,
\* loadJournal).
THEOREM VerdictsAreNotReplayed == Spec => NotReplayed
  <1>1. ASSUME Inv, [Next]_vars, NEW o \in Cmds, row[o] \in Verdict, mem[o] = row[o],
               o \notin {held[w] : w \in busy}
        PROVE  row'[o] \in Verdict
    <2>0. TypeOK /\ mem[o] \notin {"none", "pending", "running"}  BY <1>1 DEF Inv, Verdict
    <2>1. ASSUME NEW x \in Cmds, NEW status \in Status, x = o => status \in Verdict, Record(x, status)
          PROVE row'[o] \in Verdict
      BY <1>1, <2>0, <2>1, RecordSets
    <2>2. ASSUME NEW x \in Cmds, Enqueue(x) PROVE row'[o] \in Verdict
      BY <1>1, <2>0, <2>2 DEF Enqueue, TypeOK
    <2>3. ASSUME NEW x \in Cmds, Refuse(x) PROVE row'[o] \in Verdict
      BY <1>1, <2>0, <2>3 DEF Refuse, Journal, TypeOK
    <2>4. ASSUME NEW x \in Cmds, SetError(x) PROVE row'[o] \in Verdict
      BY <2>1, <2>4 DEF SetError, Status, Verdict
    <2>5. ASSUME NEW x \in Cmds, Touch(x) PROVE row'[o] \in Verdict
      BY <1>1, <2>0, <2>1, <2>5 DEF Touch, TypeOK
    <2>6. ASSUME NEW w \in Workers, Begin(w) PROVE row'[o] \in Verdict
      <3>1. held[w] \in Cmds  BY <2>0, <2>6 DEF Begin, TypeOK
      <3>2. CASE UNCHANGED row  BY <1>1, <3>2
      <3>3. CASE mem[held[w]] = "pending" /\ Record(held[w], "running")
        BY <2>0, <2>1, <3>1, <3>3 DEF Status
      <3> QED  BY <2>6, <3>2, <3>3 DEF Begin
    <2>7. ASSUME NEW w \in Workers, Finish(w) PROVE row'[o] \in Verdict
      <3>1. held[w] \in Cmds /\ held[w] # o  BY <1>1, <2>0, <2>7 DEF Finish, TypeOK
      <3>2. PICK status \in {"pending", "cancelled", "failed", "completed"} : Record(held[w], status)
        BY <2>7 DEF Finish, Unfinished
      <3> QED  BY <2>1, <3>1, <3>2 DEF Status, Verdict
    <2>8. CASE ShutdownEnds  BY <1>1, <2>0, <2>8 DEF ShutdownEnds
    <2>9. CASE Boot \/ BootMemory  BY <1>1, <2>0, <2>9 DEF Boot, BootMemory
    <2>10. CASE row' = row  BY <1>1, <2>10
    <2> QED
      BY <1>1, <2>2, <2>3, <2>4, <2>5, <2>6, <2>7, <2>8, <2>9, <2>10
         DEF Next, WorkerStep, Duplicate, Accept, Feed, Take, Cancel, Close, vars
  <1>2. Inv /\ [Next]_vars
          => [\A o \in Cmds :
                /\ row[o] \in Verdict /\ mem[o] = row[o]
                /\ o \notin {held[w] : w \in busy}
                => row'[o] \in Verdict]_vars
    BY <1>1
  <1> QED  BY <1>2, InvAlways, PTL DEF Spec, NotReplayed
=============================================================================
