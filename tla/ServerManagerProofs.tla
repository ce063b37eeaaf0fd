------------------------- MODULE ServerManagerProofs -------------------------
(***************************************************************************)
(* Proofs about ServerManager, for any number of callers, any capacity of  *)
(* the event stream and any bound of the crash-loop breaker: who is inside *)
(* an operation (Exclusive, ClaimOwned) and how often a server is          *)
(* restarted (RestartBound).                                               *)
(***************************************************************************)
EXTENDS ServerManager, SequenceTheorems, TLAPS

\* The tuples that UNCHANGED names are always expanded.
USE DEF stateVars, runtimeVars, flowVars, bootVars, historyVars

-----------------------------------------------------------------------------
(* The inductive invariant *)

\* A goroutine inside an operation knows which one it is.
Kinds ==
    \A a \in Actors :
        /\ at[a] \in InPower => sig[a] \in Signal
        /\ at[a] \in {"install", "installer"} => sig[a] = "install"
        /\ at[a] = "restore" => sig[a] = "restore"

\* As long as no claim was taken, the slot names the operation that is inside.
Named == taken \/ \A a \in Inside(at) : action = sig[a]

\* A restart that the watcher has decided on is counted already.
Breaker ==
    /\ restarts <= crashCount + 1 /\ restarts <= MaxRestarts + 1
    /\ at[Watcher] = "crashed" => crashCount <= MaxRestarts /\ restarts <= crashCount

Inv == TypeOK /\ Kinds /\ Named /\ Exclusive /\ ClaimOwned /\ Breaker

\* What the slot and the goroutines have to do with each other.
Slot == Kinds /\ Named /\ Exclusive /\ ClaimOwned

-----------------------------------------------------------------------------
(* The event stream *)

LEMMA WithType ==
  ASSUME NEW es \in Seq(Event), Len(es) <= EventCap, NEW e \in Event
  PROVE  With(es, e) \in Seq(Event) /\ Len(With(es, e)) <= EventCap
  BY ManagerAssumption DEF With

LEMMA WithExitType ==
  ASSUME NEW es \in Seq(Event), Len(es) <= EventCap, NEW f \in WithExit(es)
  PROVE  f \in Seq(Event) /\ Len(f) <= EventCap
  <1>1. "exit" \in Event  BY DEF Event
  <1>2. With(es, "exit") \in Seq(Event) /\ Len(With(es, "exit")) <= EventCap  BY <1>1, WithType
  <1>3. With(With(es, "exit"), "exit") \in Seq(Event) /\ Len(With(With(es, "exit"), "exit")) <= EventCap
    BY <1>1, <1>2, WithType
  <1> QED  BY <1>2, <1>3 DEF WithExit

LEMMA TailType ==
  ASSUME NEW es \in Seq(Event), Len(es) <= EventCap, es # <<>>
  PROVE  Tail(es) \in Seq(Event) /\ Len(Tail(es)) <= EventCap
  <1>1. Tail(es) \in Seq(Event) /\ Len(Tail(es)) = Len(es) - 1  BY HeadTailProperties
  <1> QED  BY <1>1, ManagerAssumption, LenProperties

-----------------------------------------------------------------------------
(* How the slot is kept.  A lemma for each way a step treats the goroutines. *)

\* Nobody enters or leaves an operation, and the slot stays.
LEMMA SlotStays ==
  ASSUME TypeOK, Slot, at' \in [Actors -> Place],
         \A a \in Actors : /\ at[a] \in Holding <=> at'[a] \in Holding
                           /\ at'[a] \in InPower => at[a] \in InPower
                           /\ at'[a] \in {"install", "installer"} => at[a] \in {"install", "installer"}
                           /\ at'[a] = "restore" => at[a] = "restore",
         UNCHANGED <<sig, action, taken>>
  PROVE  Slot'
  <1>1. Inside(at') = Inside(at)  BY DEF Inside
  <1>2. Kinds'  BY DEF Slot, Kinds
  <1>3. Named'  BY <1>1 DEF Slot, Named
  <1>4. Exclusive'  BY <1>1 DEF Slot, Exclusive
  <1>5. ClaimOwned'  BY <1>1 DEF Slot, ClaimOwned
  <1> QED  BY <1>2, <1>3, <1>4, <1>5 DEF Slot

\* A free slot is claimed.
LEMMA SlotClaimed ==
  ASSUME TypeOK, Slot, NEW a \in Actors, at[a] \notin Holding, action = "none",
         NEW place \in Holding, NEW kind \in Signal \cup {"install", "restore"},
         place \in InPower => kind \in Signal,
         place \in {"install", "installer"} => kind = "install",
         place = "restore" => kind = "restore",
         action' = kind, at' = [at EXCEPT ![a] = place], sig' = [sig EXCEPT ![a] = kind],
         UNCHANGED taken
  PROVE  Slot'
  <1>1. at'[a] = place /\ sig'[a] = kind
        /\ \A b \in Actors : b # a => at'[b] = at[b] /\ sig'[b] = sig[b]
    BY DEF TypeOK
  <1>2. Inside(at') = Inside(at) \cup {a}  BY <1>1 DEF Inside
  <1>3. taken \/ Inside(at) = {}
    <2> SUFFICES ASSUME ~taken, NEW b \in Inside(at) PROVE FALSE
      OBVIOUS
    <2>1. sig[b] = "none"  BY DEF Slot, Named
    <2>2. sig[b] # "none"  BY DEF Slot, Kinds, Inside, Holding, Signal
    <2> QED  BY <2>1, <2>2
  <1>4. Kinds'  BY <1>1 DEF Slot, Kinds
  <1>5. Named'  BY <1>1, <1>2, <1>3 DEF Named
  <1>6. Exclusive'  BY <1>2, <1>3 DEF Exclusive
  <1>7. ClaimOwned'  BY <1>1, <1>2 DEF ClaimOwned
  <1> QED  BY <1>4, <1>5, <1>6, <1>7 DEF Slot

\* A goroutine leaves, and frees the slot if it holds the claim it knows of.
LEMMA SlotLeft ==
  ASSUME TypeOK, Slot, NEW a \in Actors, at[a] \in Holding, NEW place \in {"idle", "restored"},
         action' = IF action = sig[a] THEN "none" ELSE action,
         at' = [at EXCEPT ![a] = place],
         sig' = sig \/ sig' = [sig EXCEPT ![a] = "none"],
         taken => taken' \/ Inside(at') = {}
  PROVE  Slot'
  <1>1. at'[a] = place /\ \A b \in Actors : b # a => at'[b] = at[b] /\ sig'[b] = sig[b]
    BY DEF TypeOK
  <1>2. Inside(at') = Inside(at) \ {a} /\ a \in Inside(at)
    BY <1>1 DEF Inside, Holding, InPower
  <1>3. Kinds'  BY <1>1 DEF Slot, Kinds, InPower
  <1>4. ~taken => Inside(at') = {}  BY <1>2 DEF Slot, Exclusive
  <1>5. taken' \/ Inside(at') = {}  BY <1>4
  <1>6. Named' /\ Exclusive'  BY <1>5 DEF Named, Exclusive
  <1>7. ClaimOwned'
    <2> SUFFICES ASSUME action' # "none" PROVE \E b \in Inside(at') : sig'[b] = action'
      BY DEF ClaimOwned
    <2>1. action' = action /\ action # sig[a] /\ action # "none"  OBVIOUS
    <2>2. PICK b \in Inside(at) : sig[b] = action  BY <2>1 DEF Slot, ClaimOwned
    <2>3. b # a /\ b \in Actors  BY <2>1, <2>2 DEF Inside
    <2> QED  BY <1>1, <1>2, <2>1, <2>2, <2>3
  <1> QED  BY <1>3, <1>6, <1>7 DEF Slot

\* An exit is seen: the slot is free whoever is inside.
LEMMA SlotExit ==
  ASSUME TypeOK, Slot, ExitSeen, at' \in [Actors -> Place], sig' = sig,
         \A a \in Actors : at'[a] = at[a] \/ (at[a] \notin Holding /\ at'[a] \in {"idle", "crashed"})
  PROVE  Slot'
  <1>1. Inside(at') = Inside(at)  BY DEF Inside, Holding, InPower
  <1>2. Kinds'  BY DEF Slot, Kinds, InPower
  <1>3. taken' \/ Inside(at') = {}  BY <1>1 DEF ExitSeen
  <1>4. Named' /\ Exclusive' /\ ClaimOwned'
    BY <1>3 DEF Named, Exclusive, ClaimOwned, ExitSeen
  <1> QED  BY <1>2, <1>4 DEF Slot

\* Reconcile clears the slot: whoever is inside has lost the claim.
LEMMA SlotReset ==
  ASSUME TypeOK, Slot, ReconcileResets
  PROVE  Slot'
  <1>1. Kinds'  BY DEF ReconcileResets, Slot, Kinds
  <1>2. taken' \/ Inside(at') = {}  BY DEF ReconcileResets
  <1>3. Named' /\ Exclusive' /\ ClaimOwned'
    BY <1>2 DEF Named, Exclusive, ClaimOwned, ReconcileResets
  <1> QED  BY <1>1, <1>3 DEF Slot

\* The second EndRestore of a restore, which may free the claim of the next one.
LEMMA SlotFreedTwice ==
  ASSUME TypeOK, Slot, NEW c \in Actors, at[c] = "restored", RestoreReturns(c)
  PROVE  Slot'
  <1> USE DEF RestoreReturns, EndRestore
  <1>1. at'[c] = "idle" /\ \A b \in Actors : b # c => at'[b] = at[b] /\ sig'[b] = sig[b]
    BY DEF TypeOK
  <1>2. Inside(at') = Inside(at) /\ c \notin Inside(at)  BY <1>1 DEF Inside, Holding, InPower
  <1>3. Kinds'  BY <1>1 DEF Slot, Kinds, InPower
  <1>4. \A b \in Inside(at) : sig'[b] = sig[b]  BY <1>1, <1>2 DEF Inside
  <1>5. CASE action = "restore"
    <2>1. taken' \/ Inside(at') = {}  BY <1>5
    <2>2. action' = "none"  BY <1>5
    <2> QED  BY <1>3, <2>1, <2>2 DEF Slot, Named, Exclusive, ClaimOwned
  <1>6. CASE action # "restore"
    <2>1. action' = action /\ (taken => taken' \/ Inside(at') = {})  BY <1>6
    <2>2. Named'  BY <1>2, <1>4, <2>1 DEF Slot, Named
    <2>3. Exclusive'  BY <1>2, <2>1 DEF Slot, Exclusive
    <2>4. ClaimOwned'  BY <1>2, <1>4, <2>1 DEF Slot, ClaimOwned
    <2> QED  BY <1>3, <2>2, <2>3, <2>4 DEF Slot
  <1> QED  BY <1>5, <1>6

\* Within a power operation nobody enters or leaves before Release.
LEMMA SlotPower ==
  ASSUME TypeOK, Slot, NEW a \in Actors, PowerStep(a)
  PROVE  Slot'
  <1>1. ASSUME NEW place \in InPower, at[a] \in InPower, Goto(a, place), UNCHANGED <<action, taken>>
        PROVE  Slot'
    <2>1. at' \in [Actors -> Place] /\ at'[a] = place /\ \A b \in Actors : b # a => at'[b] = at[b]
      BY <1>1 DEF Goto, TypeOK, Place, Holding
    <2>2. sig' = sig  BY <1>1 DEF Goto
    <2> QED  BY <1>1, <2>1, <2>2, SlotStays DEF Holding, InPower
  <1>2. CASE BeforeStart(a)  BY <1>1, <1>2 DEF BeforeStart, InPower
  <1>3. CASE MarkStopping(a)  BY <1>1, <1>3 DEF MarkStopping, InPower
  <1>4. CASE StopCall(a)
    <2>1. PICK place \in InPower : Goto(a, place)  BY <1>4 DEF StopCall, CallFails, InPower
    <2> QED  BY <1>1, <1>4, <2>1 DEF StopCall, InPower
  <1>5. CASE StartCall(a)
    <2>1. PICK place \in InPower : Goto(a, place)  BY <1>5 DEF StartCall, CallFails, InPower
    <2> QED  BY <1>1, <1>5, <2>1 DEF StartCall, InPower
  <1>6. CASE Record(a)  BY <1>1, <1>6 DEF Record, InPower
  <1>7. CASE Release(a)
    <2>1. at[a] \in Holding  BY <1>7 DEF Release, Holding, InPower
    <2>2. taken => taken' \/ Inside(at') = {}  BY <1>7 DEF Release, Leave
    <2> QED  BY <1>7, <2>1, <2>2, SlotLeft DEF Release, Leave
  <1> QED  BY <1>2, <1>3, <1>4, <1>5, <1>6, <1>7 DEF PowerStep

LEMMA SlotAdmit ==
  ASSUME TypeOK, Slot, NEW a \in Actors, at[a] \notin Holding, NEW s \in Signal, Admit(a, s),
         UNCHANGED taken
  PROVE  Slot'
  <1> DEFINE place == IF s \in {"start", "restart"} THEN "before" ELSE "mark"
  <1>1. place \in InPower /\ place \in Holding /\ place \notin {"install", "installer", "restore"}
    BY DEF InPower, Holding
  <1>2. at' = [at EXCEPT ![a] = place] /\ sig' = [sig EXCEPT ![a] = s] /\ action' = s /\ action = "none"
    BY DEF Admit
  <1> HIDE DEF place
  <1> QED  BY <1>1, <1>2, SlotClaimed

LEMMA SlotStep ==
  ASSUME TypeOK, Slot, TypeOK', [Next]_vars
  PROVE  Slot'
  <1>1. ASSUME NEW c \in Callers, Request(c) PROVE Slot'
    <2>1. at[c] \notin Holding /\ c \in Actors
      BY <1>1 DEF Request, Power, BeginInstall, BeginRestore, Holding, InPower, Actors
    <2>2. CASE \E s \in Signal : Power(c, s)  BY <2>1, <2>2, SlotAdmit DEF Power
    <2>3. CASE BeginInstall(c)
      BY <2>1, <2>3, SlotClaimed DEF BeginInstall, Holding, InPower
    <2>4. CASE BeginRestore(c)
      BY <2>1, <2>4, SlotClaimed DEF BeginRestore, Holding, InPower
    <2> QED  BY <1>1, <2>2, <2>3, <2>4 DEF Request
  <1>2. ASSUME NEW c \in Callers, CallerStep(c) PROVE Slot'
    <2>0. c \in Actors  BY DEF Actors
    <2>1. CASE PowerStep(c)  BY <2>0, <2>1, SlotPower
    <2>2. CASE InstallerStarts(c)
      <3>1. at' \in [Actors -> Place] /\ at'[c] = "installer"
            /\ \A b \in Actors : b # c => at'[b] = at[b]
        BY <2>0, <2>2 DEF InstallerStarts, Goto, TypeOK
      <3>2. UNCHANGED <<sig, action, taken>> /\ at[c] = "install"  BY <2>2 DEF InstallerStarts, Goto
      <3> QED  BY <3>1, <3>2, SlotStays DEF Holding, InPower
    <2>3. CASE EndInstall(c)
      <3>1. at[c] \in Holding /\ sig[c] = "install"  BY <2>0, <2>3 DEF EndInstall, Holding, Slot, Kinds
      <3>2. taken => taken' \/ Inside(at') = {}  BY <2>3 DEF EndInstall, Leave
      <3>3. /\ action' = IF action = sig[c] THEN "none" ELSE action
            /\ at' = [at EXCEPT ![c] = "idle"] /\ sig' = [sig EXCEPT ![c] = "none"]
        BY <2>3, <3>1 DEF EndInstall, Leave
      <3> QED  BY <2>0, <3>1, <3>2, <3>3, SlotLeft
    <2>4. CASE RestoreDone(c)
      <3>1. at[c] \in Holding /\ sig[c] = "restore"  BY <2>0, <2>4 DEF RestoreDone, Holding, Slot, Kinds
      <3>2. /\ action' = IF action = sig[c] THEN "none" ELSE action
            /\ at' = [at EXCEPT ![c] = "restored"] /\ sig' = sig /\ taken' = taken
        BY <2>4, <3>1 DEF RestoreDone, EndRestore, Goto
      <3> QED  BY <2>0, <3>1, <3>2, SlotLeft
    <2>5. CASE RestoreReturns(c) /\ at[c] = "restored"  BY <2>0, <2>5, SlotFreedTwice
    <2>6. CASE RestoreReturns(c) /\ at[c] # "restored"
      <3>1. at[c] \in Holding /\ sig[c] = "restore"
        BY <2>0, <2>6 DEF RestoreReturns, Holding, Slot, Kinds
      <3>2. taken => taken' \/ Inside(at') = {}  BY <2>6 DEF RestoreReturns
      <3>3. /\ action' = IF action = sig[c] THEN "none" ELSE action
            /\ at' = [at EXCEPT ![c] = "idle"] /\ sig' = [sig EXCEPT ![c] = "none"]
        BY <2>6, <3>1 DEF RestoreReturns, EndRestore
      <3> QED  BY <2>0, <3>1, <3>2, <3>3, SlotLeft
    <2> QED  BY <1>2, <2>1, <2>2, <2>3, <2>4, <2>5, <2>6 DEF CallerStep
  <1>3. ASSUME WatcherStep PROVE Slot'
    <2>0. Watcher \in Actors  BY DEF Actors
    <2>1. CASE StartSeen  BY <2>1, SlotStays DEF StartSeen, TypeOK
    <2>2. CASE ExpectedExit \/ QuietExit
      BY <2>2, SlotExit DEF ExpectedExit, QuietExit, TypeOK
    <2>3. CASE CrashSeen
      <3>1. /\ at'[Watcher] \in {"idle", "crashed"} /\ at[Watcher] \notin Holding
            /\ \A a \in Actors : a # Watcher => at'[a] = at[a]
        BY <2>0, <2>3 DEF CrashSeen, Goto, TypeOK, Holding, InPower
      <3>2. sig' = sig /\ ExitSeen  BY <2>3 DEF CrashSeen, Goto
      <3>3. at' \in [Actors -> Place]  BY DEF TypeOK
      <3> QED  BY <3>1, <3>2, <3>3, SlotExit
    <2>4. CASE AutoRestart
      <3>1. at[Watcher] \notin Holding  BY <2>4 DEF AutoRestart, Holding, InPower
      <3>2. CASE Admit(Watcher, "start")
        BY <2>0, <2>4, <3>1, <3>2, SlotAdmit DEF AutoRestart, Signal
      <3>3. CASE Goto(Watcher, "idle") /\ UNCHANGED action
        <4>1. at'[Watcher] = "idle" /\ \A b \in Actors : b # Watcher => at'[b] = at[b]
          BY <2>0, <3>3 DEF Goto, TypeOK
        <4>2. UNCHANGED <<sig, action, taken>> /\ at' \in [Actors -> Place]
          BY <2>4, <3>3 DEF AutoRestart, Goto, TypeOK
        <4> QED  BY <3>1, <4>1, <4>2, SlotStays DEF Holding, InPower
      <3> QED  BY <2>4, <3>2, <3>3 DEF AutoRestart
    <2>5. CASE PowerStep(Watcher)  BY <2>0, <2>5, SlotPower
    <2> QED  BY <1>3, <2>1, <2>2, <2>3, <2>4, <2>5 DEF WatcherStep
  <1>4. CASE Environment
    BY <1>4, SlotStays DEF Environment, ContainerExits, EventLost, TypeOK
  <1>5. CASE Boot
    <2>1. Inside(at') = {}  BY <1>5 DEF Boot, Inside, Holding, InPower
    <2>2. Kinds'  BY <1>5 DEF Boot, Kinds, InPower
    <2> QED  BY <1>5, <2>1, <2>2 DEF Boot, Slot, Named, Exclusive, ClaimOwned
  <1>6. CASE UNCHANGED vars  BY <1>6, SlotStays DEF vars, TypeOK
  <1>7. CASE BootStep
    <2>1. CASE ReconcileResets  BY <2>1, SlotReset
    <2>2. CASE ~ReconcileResets
      <3>1. UNCHANGED <<at, sig, action, taken>>
        BY <1>7, <2>2 DEF BootStep, ReconcileInspects, ReconcileSetsPower, CheckCrashed,
                          StartCrashed, RecordCrashed, BootEnds
      <3> QED  BY <3>1, SlotStays DEF TypeOK
    <2> QED  BY <2>1, <2>2
  <1> QED  BY <1>1, <1>2, <1>3, <1>4, <1>5, <1>6, <1>7 DEF Next
-----------------------------------------------------------------------------
(* Type correctness *)

FlowType == at \in [Actors -> Place] /\ sig \in [Actors -> Signal \cup {"none", "install", "restore"}]
EventsType == events \in Seq(Event) /\ Len(events) <= EventCap
CountType == crashCount \in 0..(MaxRestarts + 1) /\ restarts \in Nat
StateType ==
    /\ power \in {"offline", "starting", "running", "stopping"}
    /\ action \in Signal \cup {"none", "install", "restore"}
    /\ installing \in BOOLEAN /\ restoring \in BOOLEAN
    /\ expectedStop \in BOOLEAN
    /\ running \in BOOLEAN
    /\ taken \in BOOLEAN
BootType == boot \in BootPlace /\ passes \in 0..MaxPasses /\ started \in BOOLEAN
Types == FlowType /\ EventsType /\ CountType /\ StateType /\ BootType

LEMMA GotoType ==
  ASSUME FlowType, NEW a \in Actors, NEW place \in Place, Goto(a, place) PROVE FlowType'
  BY DEF FlowType, Goto

LEMMA LeaveType ==
  ASSUME FlowType, NEW a \in Actors, Leave(a) PROVE FlowType'
  BY DEF FlowType, Leave, Place

LEMMA AdmitType ==
  ASSUME FlowType, NEW a \in Actors, NEW s \in Signal, Admit(a, s) PROVE FlowType'
  BY DEF FlowType, Admit, Place, Holding, InPower

LEMMA TypePower ==
  ASSUME Types, NEW a \in Actors, PowerStep(a) PROVE Types'
  <1> USE DEF Types
  <1>1. CASE BeforeStart(a)
    <2>1. FlowType'  BY <1>1, GotoType DEF BeforeStart, Place, Holding, InPower
    <2> QED  BY <1>1, <2>1 DEF BeforeStart, EventsType, CountType, StateType, BootType
  <1>2. CASE MarkStopping(a)
    <2>1. FlowType'  BY <1>2, GotoType DEF MarkStopping, Place, Holding, InPower
    <2>2. CountType'
      <3>1. crashCount' \in {0, crashCount} /\ restarts' \in {0, restarts}  BY <1>2 DEF MarkStopping
      <3> QED  BY <3>1, ManagerAssumption DEF CountType
    <2> QED  BY <1>2, <2>1, <2>2 DEF MarkStopping, EventsType, CountType, StateType, BootType
  <1>3. CASE StopCall(a)
    <2>1. FlowType'  BY <1>3, GotoType DEF StopCall, CallFails, Place, Holding, InPower
    <2>2. EventsType'  BY <1>3, WithExitType DEF StopCall, EventsType
    <2>3. running' \in BOOLEAN  BY <1>3 DEF StopCall, CountType, StateType
    <2> QED  BY <1>3, <2>1, <2>2, <2>3 DEF StopCall, CountType, StateType, BootType
  <1>4. CASE StartCall(a)
    <2>1. FlowType'  BY <1>4, GotoType DEF StartCall, CallFails, Place, Holding, InPower
    <2>2. EventsType'  BY <1>4, WithType DEF StartCall, EventsType, Event
    <2>3. running' \in BOOLEAN  BY <1>4 DEF StartCall, CountType, StateType
    <2> QED  BY <1>4, <2>1, <2>2, <2>3 DEF StartCall, CountType, StateType, BootType
  <1>5. CASE Record(a)
    <2>1. FlowType'  BY <1>5, GotoType DEF Record, Place, Holding, InPower
    <2>2. power' \in {"offline", "starting", "running", "stopping"} /\ expectedStop' \in BOOLEAN
      BY <1>5 DEF Record
    <2>3. started' \in BOOLEAN  BY <1>5 DEF Record
    <2> QED  BY <1>5, <2>1, <2>2, <2>3 DEF Record, EventsType, CountType, StateType, BootType
  <1>6. CASE Release(a)
    <2>1. FlowType'  BY <1>6, LeaveType DEF Release
    <2>2. taken' \in BOOLEAN  BY <1>6 DEF Release, Leave
    <2> QED  BY <1>6, <2>1, <2>2 DEF Release, EventsType, CountType, StateType, BootType
  <1> QED  BY <1>1, <1>2, <1>3, <1>4, <1>5, <1>6 DEF PowerStep

LEMMA TypeWatcher ==
  ASSUME Types, WatcherStep PROVE Types'
  <1> USE DEF Types
  <1>0. Watcher \in Actors  BY DEF Actors
  <1>1. CASE StartSeen
    <2>1. EventsType'  BY <1>1, TailType DEF StartSeen, EventsType
    <2> QED  BY <1>1, <2>1 DEF StartSeen, FlowType, CountType, StateType, BootType
  <1>2. CASE ExpectedExit \/ QuietExit
    <2>1. EventsType'  BY <1>2, TailType DEF ExpectedExit, QuietExit, EventsType
    <2>2. power' = "offline" /\ action' = "none" /\ taken' \in BOOLEAN /\ expectedStop' \in BOOLEAN
      BY <1>2 DEF ExpectedExit, QuietExit, ExitSeen, StateType
    <2> QED  BY <1>2, <2>1, <2>2 DEF ExpectedExit, QuietExit, FlowType, CountType, StateType, BootType
  <1>3. CASE CrashSeen
    <2>1. EventsType'  BY <1>3, TailType DEF CrashSeen, EventsType
    <2>2. power' = "offline" /\ action' = "none" /\ taken' \in BOOLEAN  BY <1>3 DEF CrashSeen, ExitSeen
    <2>3. CountType'
      BY <1>3, ManagerAssumption DEF CrashSeen, Counted, CountType
    <2>4. FlowType'
      <3>1. PICK place \in {"idle", "crashed"} : Goto(Watcher, place)  BY <1>3 DEF CrashSeen
      <3> QED  BY <1>0, <3>1, GotoType DEF Place
    <2> QED  BY <1>3, <2>1, <2>2, <2>3, <2>4 DEF CrashSeen, CountType, StateType, BootType
  <1>4. CASE AutoRestart
    <2>1. FlowType'  BY <1>0, <1>4, GotoType, AdmitType DEF AutoRestart, Place, Signal
    <2>2. action' \in Signal \cup {"none", "install", "restore"}
      BY <1>4 DEF AutoRestart, Admit, StateType, Signal
    <2>3. restarts' \in {restarts, restarts + 1} /\ crashCount' = crashCount  BY <1>4 DEF AutoRestart
    <2>4. CountType'  BY <2>3 DEF CountType
    <2> QED  BY <1>4, <2>1, <2>2, <2>4 DEF AutoRestart, EventsType, CountType, StateType, BootType
  <1>5. CASE PowerStep(Watcher)  BY <1>0, <1>5, TypePower
  <1> QED  BY <1>1, <1>2, <1>3, <1>4, <1>5 DEF WatcherStep

\* None of the passes is made, and all of them; where a pass leads.
LEMMA NoPasses == 0 \in 0..MaxPasses /\ MaxPasses \in 0..MaxPasses
  BY ManagerAssumption

LEMMA AfterPass == Reconciled \in BootPlace
  BY DEF Reconciled, BootPlace

\* The start of the daemon keeps the types.
LEMMA TypeBoot ==
  ASSUME Types, BootStep PROVE Types'
  <1> USE DEF Types
  <1>1. CASE ReconcileResets
    <2>1. BootType'
      <3>1. passes' \in 0..MaxPasses  BY <1>1, ManagerAssumption DEF ReconcileResets, BootType
      <3> QED  BY <1>1, <3>1 DEF ReconcileResets, BootType, BootPlace
    <2>2. taken' \in BOOLEAN  BY <1>1 DEF ReconcileResets
    <2> QED  BY <1>1, <2>1, <2>2 DEF ReconcileResets, FlowType, EventsType, CountType, StateType
  <1>2. CASE ReconcileInspects \/ BootEnds
    <2>1. boot' \in BootPlace
      BY <1>2, AfterPass DEF ReconcileInspects, BootEnds, BootPlace
    <2>2. BootType'
      BY <1>2, <2>1, NoPasses DEF ReconcileInspects, BootEnds, BootType
    <2> QED
      BY <1>2, <2>2 DEF ReconcileInspects, BootEnds, FlowType, EventsType, CountType, StateType
  <1>3. CASE ReconcileSetsPower \/ CheckCrashed \/ RecordCrashed
    <2>1. boot' \in BootPlace
      BY <1>3, AfterPass DEF ReconcileSetsPower, CheckCrashed, RecordCrashed, BootPlace
    <2>2. BootType'
      BY <1>3, <2>1 DEF ReconcileSetsPower, CheckCrashed, RecordCrashed, BootType
    <2>3. power' \in {"offline", "running"} /\ expectedStop' \in BOOLEAN
      BY <1>3 DEF ReconcileSetsPower, CheckCrashed, RecordCrashed, StateType
    <2> QED
      BY <1>3, <2>2, <2>3 DEF ReconcileSetsPower, CheckCrashed, RecordCrashed, FlowType,
                              EventsType, CountType, StateType
  <1>4. CASE StartCrashed
    <2>4. boot' \in BootPlace  BY <1>4, AfterPass DEF StartCrashed, BootPlace
    <2>1. BootType'  BY <1>4, <2>4 DEF StartCrashed, BootType
    <2>2. EventsType'  BY <1>4, WithType DEF StartCrashed, EventsType, Event
    <2>3. running' \in BOOLEAN  BY <1>4 DEF StartCrashed, StateType
    <2> QED  BY <1>4, <2>1, <2>2, <2>3 DEF StartCrashed, FlowType, CountType, StateType
  <1> QED  BY <1>1, <1>2, <1>3, <1>4 DEF BootStep

LEMMA TypeStep ==
  ASSUME Types, [Next]_vars PROVE Types'
  <1> USE DEF Types
  <1>1. ASSUME NEW c \in Callers, Request(c) PROVE Types'
    <2>0. c \in Actors  BY DEF Actors
    <2>1. CASE \E s \in Signal : Power(c, s)
      <3>1. PICK s \in Signal : Power(c, s)  BY <2>1
      <3>2. FlowType'  BY <2>0, <3>1, AdmitType DEF Power
      <3> QED  BY <3>1, <3>2 DEF Power, Admit, EventsType, CountType, StateType, BootType
    <2>2. CASE BeginInstall(c)
      <3>1. FlowType'  BY <2>0, <2>2 DEF BeginInstall, FlowType, Place, Holding
      <3> QED  BY <2>2, <3>1 DEF BeginInstall, EventsType, CountType, StateType, BootType
    <2>3. CASE BeginRestore(c)
      <3>1. FlowType'  BY <2>0, <2>3 DEF BeginRestore, FlowType, Place, Holding
      <3> QED  BY <2>3, <3>1 DEF BeginRestore, EventsType, CountType, StateType, BootType
    <2> QED  BY <1>1, <2>1, <2>2, <2>3 DEF Request
  <1>2. ASSUME NEW c \in Callers, CallerStep(c) PROVE Types'
    <2>0. c \in Actors  BY DEF Actors
    <2>1. CASE PowerStep(c)  BY <2>0, <2>1, TypePower
    <2>2. CASE InstallerStarts(c)
      <3>1. FlowType'  BY <2>0, <2>2, GotoType DEF InstallerStarts, Place, Holding
      <3>2. EventsType'  BY <2>2, WithType DEF InstallerStarts, EventsType, Event
      <3> QED  BY <2>2, <3>1, <3>2 DEF InstallerStarts, CountType, StateType, BootType
    <2>3. CASE EndInstall(c)
      <3>1. FlowType'  BY <2>0, <2>3, LeaveType DEF EndInstall
      <3>2. EventsType'  BY <2>3, WithExitType DEF EndInstall, EventsType
      <3>3. taken' \in BOOLEAN  BY <2>3 DEF EndInstall, Leave
      <3> QED  BY <2>3, <3>1, <3>2, <3>3 DEF EndInstall, CountType, StateType, BootType
    <2>4. CASE RestoreDone(c)
      <3>1. FlowType'  BY <2>0, <2>4, GotoType DEF RestoreDone, Place
      <3> QED  BY <2>4, <3>1 DEF RestoreDone, EndRestore, EventsType, CountType, StateType, BootType
    <2>5. CASE RestoreReturns(c)
      <3>1. FlowType'  BY <2>0, <2>5 DEF RestoreReturns, FlowType, Place
      <3>2. taken' \in BOOLEAN  BY <2>5 DEF RestoreReturns
      <3> QED  BY <2>5, <3>1, <3>2 DEF RestoreReturns, EndRestore, EventsType, CountType, StateType, BootType
    <2> QED  BY <1>2, <2>1, <2>2, <2>3, <2>4, <2>5 DEF CallerStep
  <1>3. CASE WatcherStep  BY <1>3, TypeWatcher
  <1>4. CASE ContainerExits
    <2>1. EventsType'  BY <1>4, WithExitType DEF ContainerExits, EventsType
    <2> QED  BY <1>4, <2>1 DEF ContainerExits, FlowType, CountType, StateType, BootType
  <1>5. CASE EventLost
    <2>1. EventsType'  BY <1>5, TailType DEF EventLost, EventsType
    <2> QED  BY <1>5, <2>1 DEF EventLost, FlowType, CountType, StateType, BootType
  <1>6. CASE Boot
    <2>1. FlowType'  BY <1>6 DEF Boot, FlowType, Place
    <2>2. EventsType'  BY <1>6, ManagerAssumption DEF Boot, EventsType
    <2>3. CountType'  BY <1>6, ManagerAssumption DEF Boot, CountType
    <2>4. BootType'  BY <1>6, NoPasses DEF Boot, BootType, BootPlace
    <2> QED  BY <1>6, <2>1, <2>2, <2>3, <2>4 DEF Boot, StateType
  <1>7. CASE UNCHANGED vars
    BY <1>7 DEF vars, FlowType, EventsType, CountType, StateType, BootType
  <1>8. CASE BootStep  BY <1>8, TypeBoot
  <1> QED  BY <1>1, <1>2, <1>3, <1>4, <1>5, <1>6, <1>7, <1>8 DEF Next, Environment

LEMMA TypeOKStep ==
  ASSUME TypeOK, [Next]_vars PROVE TypeOK'
  <1>1. Types  BY DEF TypeOK, Types, FlowType, EventsType, CountType, StateType, BootType
  <1>2. Types'  BY <1>1, TypeStep
  <1> QED  BY <1>2 DEF TypeOK, Types, FlowType, EventsType, CountType, StateType, BootType

-----------------------------------------------------------------------------
(* The crash-loop breaker *)

\* Nothing is counted and nothing restarted, unless by a stop that forgets both.
LEMMA BreakerStays ==
  ASSUME TypeOK, Breaker,
         at'[Watcher] = "crashed" => at[Watcher] = "crashed",
         \/ UNCHANGED <<crashCount, restarts>>
         \/ crashCount' = 0 /\ restarts' = 0
  PROVE  Breaker'
  BY ManagerAssumption DEF Breaker, TypeOK

LEMMA BreakerPower ==
  ASSUME TypeOK, Breaker, NEW a \in Actors, PowerStep(a) PROVE Breaker'
  <1>0. Watcher \in Actors  BY DEF Actors
  <1>1. at'[Watcher] = "crashed" => at[Watcher] = "crashed"
    BY <1>0 DEF PowerStep, BeforeStart, MarkStopping, StopCall, StartCall, CallFails, Record,
                Release, Leave, Goto, TypeOK
  <1>2. UNCHANGED <<crashCount, restarts>> \/ (crashCount' = 0 /\ restarts' = 0)
    BY DEF PowerStep, BeforeStart, MarkStopping, StopCall, StartCall, Record, Release
  <1> QED  BY <1>1, <1>2, BreakerStays

LEMMA BreakerStep ==
  ASSUME TypeOK, Breaker, [Next]_vars PROVE Breaker'
  <1>0. Watcher \in Actors  BY DEF Actors
  <1>1. ASSUME NEW c \in Callers, Request(c) PROVE Breaker'
    <2>1. c # Watcher /\ c \in Actors  BY ManagerAssumption DEF Actors
    <2>2. at'[Watcher] = at[Watcher] /\ UNCHANGED <<crashCount, restarts>>
      BY <1>0, <1>1, <2>1 DEF Request, Power, Admit, BeginInstall, BeginRestore, TypeOK
    <2> QED  BY <2>2, BreakerStays
  <1>2. ASSUME NEW c \in Callers, CallerStep(c) PROVE Breaker'
    <2>1. c # Watcher /\ c \in Actors  BY ManagerAssumption DEF Actors
    <2>2. CASE PowerStep(c)  BY <2>1, <2>2, BreakerPower
    <2>3. CASE ~PowerStep(c)
      <3>1. at'[Watcher] = at[Watcher] /\ UNCHANGED <<crashCount, restarts>>
        BY <1>0, <1>2, <2>1, <2>3 DEF CallerStep, InstallerStarts, EndInstall, RestoreDone,
           RestoreReturns, Goto, Leave, TypeOK
      <3> QED  BY <3>1, BreakerStays
    <2> QED  BY <2>2, <2>3
  <1>3. CASE StartSeen \/ ExpectedExit \/ QuietExit
    BY <1>3, BreakerStays DEF StartSeen, ExpectedExit, QuietExit
  <1>4. CASE CrashSeen
    <2>1. restarts' = restarts /\ crashCount' = Counted  BY <1>4 DEF CrashSeen
    <2>2. at'[Watcher] = "crashed" => crashCount' <= MaxRestarts
      BY <1>0, <1>4, <2>1, ManagerAssumption DEF CrashSeen, Goto, TypeOK, Counted
    <2> QED  BY <2>1, <2>2, ManagerAssumption DEF Breaker, Counted, TypeOK
  <1>5. CASE AutoRestart
    <2>1. at'[Watcher] # "crashed" /\ at[Watcher] = "crashed"
      BY <1>0, <1>5 DEF AutoRestart, Admit, Goto, TypeOK
    <2>2. crashCount' = crashCount /\ restarts' \in {restarts, restarts + 1}
      BY <1>5 DEF AutoRestart
    <2> QED  BY <2>1, <2>2, ManagerAssumption DEF Breaker, TypeOK
  <1>6. CASE PowerStep(Watcher)  BY <1>0, <1>6, BreakerPower
  <1>7. CASE Environment  BY <1>7, BreakerStays DEF Environment, ContainerExits, EventLost
  <1>8. CASE Boot  BY <1>0, <1>8, BreakerStays DEF Boot
  <1>9. CASE UNCHANGED vars  BY <1>9, BreakerStays DEF vars
  <1>10. CASE BootStep
    <2>1. UNCHANGED <<at, crashCount, restarts>>
      BY <1>10 DEF BootStep, ReconcileResets, ReconcileInspects, ReconcileSetsPower, CheckCrashed,
                   StartCrashed, RecordCrashed, BootEnds
    <2> QED  BY <2>1, BreakerStays
  <1> QED
    BY <1>1, <1>2, <1>3, <1>4, <1>5, <1>6, <1>7, <1>8, <1>9, <1>10 DEF Next, WatcherStep

-----------------------------------------------------------------------------
(* The theorems *)

LEMMA InvInit == Init => Inv
  <1> SUFFICES ASSUME Init PROVE Inv
    OBVIOUS
  <1> USE DEF Init
  <1>1. FlowType  BY DEF FlowType, Place
  <1>2. EventsType  BY ManagerAssumption DEF EventsType
  <1>3. CountType  BY ManagerAssumption DEF CountType
  <1>8. StateType  BY DEF StateType
  <1>10. BootType  BY NoPasses DEF BootType, BootPlace
  <1>9. TypeOK
    BY <1>1, <1>2, <1>3, <1>8, <1>10 DEF TypeOK, FlowType, EventsType, CountType, StateType, BootType
  <1>4. Kinds  BY DEF Kinds, InPower
  <1>5. Inside(at) = {}  BY DEF Inside, Holding, InPower
  <1>6. Named /\ Exclusive /\ ClaimOwned  BY <1>5 DEF Named, Exclusive, ClaimOwned
  <1>7. Breaker  BY ManagerAssumption DEF Breaker, Actors
  <1> QED  BY <1>4, <1>6, <1>7, <1>9 DEF Inv

LEMMA InvAlways == Spec => []Inv
  <1>1. Inv /\ [Next]_vars => Inv'
    BY TypeOKStep, SlotStep, BreakerStep DEF Inv, Slot
  <1> QED  BY <1>1, InvInit, PTL DEF Spec

\* Every reachable state of the manager, its goroutines and the event stream is
\* well-typed; in particular the stream stays within its buffer.
THEOREM TypeCorrect == Spec => []TypeOK
  <1>1. Inv => TypeOK  BY DEF Inv
  <1> QED  BY <1>1, InvAlways, PTL

\* For any number of callers: no two power operations, installs or restores work
\* on the server unless a claim was cleared by somebody else, by the watcher, by the
\* second EndRestore of a restore or by Reconcile while commands are replayed.
THEOREM OperationsAreExclusive == Spec => []Exclusive
  <1>1. Inv => Exclusive  BY DEF Inv
  <1> QED  BY <1>1, InvAlways, PTL

\* RunningAction always names an operation that is under way: no path through
\* HandlePower, an install, a restore or an event leaves the slot claimed.
THEOREM ClaimsAreOwned == Spec => []ClaimOwned
  <1>1. Inv => ClaimOwned  BY DEF Inv
  <1> QED  BY <1>1, InvAlways, PTL

\* The breaker of HandleContainerEvent bounds the automatic restarts.
THEOREM RestartsAreBounded == Spec => []RestartBound
  <1>1. Inv => RestartBound  BY DEF Inv, Breaker, RestartBound
  <1> QED  BY <1>1, InvAlways, PTL
=============================================================================
