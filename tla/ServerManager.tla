--------------------------- MODULE ServerManager ---------------------------
(***************************************************************************)
(* The state that a Beacon daemon keeps of one server                      *)
(* (beacon/internal/server/manager.go): the action slot that power         *)
(* operations, installs and restores claim, the power state, and the       *)
(* watcher that hears of containers through a buffered event stream and    *)
(* restarts a server that crashed.                                         *)
(*                                                                         *)
(* One critical section of state.mu or one call of the container runtime   *)
(* is one step.  The container exists throughout: a server is not deleted  *)
(* under an operation.  Power state files are not modelled because no      *)
(* daemon sets the directory they would go to, so a daemon that starts     *)
(* knows only what Reconcile learns from the runtime and the panel, while  *)
(* the watcher and the commands of the journal are at work already.        *)
(***************************************************************************)
EXTENDS Integers, Sequences

CONSTANTS
    Callers,      \* goroutines that call the manager: queue workers, requests
    Watcher,      \* the goroutine of StartEventWatcher
    MaxRestarts,  \* maxConsecutiveCrashRestarts
    EventCap,     \* capacity of the event channel
    MaxPasses     \* bound: calls of Reconcile when the daemon starts, two in the code

ASSUME ManagerAssumption ==
    /\ Watcher \notin Callers
    /\ MaxRestarts \in Nat
    /\ EventCap \in Nat
    /\ MaxPasses \in Nat

VARIABLES
    power,        \* PowerState
    action,       \* RunningAction, "none" when the slot is free
    installing,   \* InstallationState is "installing"
    restoring,    \* Restoring
    expectedStop, \* ExpectedStop
    crashCount,   \* CrashCount, as far as the breaker tells values apart
    running,      \* the container runs
    events,       \* what the runtime has reported and the watcher not yet seen
    at, sig,      \* where each goroutine is in its operation, and which one it is
    boot, passes, \* where the daemon's start is, and how often it has reconciled or will not
    started,      \* LastStartedAt is set, as long as Reconcile may still read it
    taken,        \* history: a claim was cleared by somebody else
    restarts      \* history: restarts by the watcher since the last stop or boot

stateVars == <<power, action, installing, restoring, expectedStop, crashCount>>
runtimeVars == <<running, events>>
flowVars == <<at, sig>>
bootVars == <<boot, passes, started>>
historyVars == <<taken, restarts>>
vars == <<stateVars, runtimeVars, flowVars, bootVars, historyVars>>

Actors == Callers \cup {Watcher}
Signal == {"start", "stop", "restart", "kill"}
Event == {"start", "exit"}
\* Where an operation holds the slot, or believes so.
InPower == {"before", "mark", "stopCall", "startCall", "record", "failed", "release"}
Holding == InPower \cup {"install", "installer", "restore"}
Place == {"idle", "crashed", "restored"} \cup Holding
BootPlace == {"reset", "inspect", "sawUp", "sawDown", "start", "record", "up"}

TypeOK ==
    /\ power \in {"offline", "starting", "running", "stopping"}
    /\ action \in Signal \cup {"none", "install", "restore"}
    /\ installing \in BOOLEAN /\ restoring \in BOOLEAN
    /\ expectedStop \in BOOLEAN
    /\ crashCount \in 0..(MaxRestarts + 1)
    /\ running \in BOOLEAN
    /\ events \in Seq(Event) /\ Len(events) <= EventCap
    /\ at \in [Actors -> Place]
    /\ sig \in [Actors -> Signal \cup {"none", "install", "restore"}]
    /\ boot \in BootPlace /\ passes \in 0..MaxPasses /\ started \in BOOLEAN
    /\ taken \in BOOLEAN
    /\ restarts \in Nat

\* MarkCreated and MarkConfigurationSynced have run; the server was never started.
Init ==
    /\ power = "offline"
    /\ action = "none"
    /\ installing = FALSE /\ restoring = FALSE
    /\ expectedStop = FALSE
    /\ crashCount = 0
    /\ running = FALSE
    /\ events = <<>>
    /\ at = [a \in Actors |-> "idle"]
    /\ sig = [a \in Actors |-> "none"]
    /\ boot = "up" /\ passes = MaxPasses /\ started = FALSE
    /\ taken = FALSE
    /\ restarts = 0

-----------------------------------------------------------------------------
(* Helpers *)

Inside(places) == {a \in Actors : places[a] \in Holding}

\* WatchEvents drops what the buffer has no room for.
With(es, e) == IF Len(es) < EventCap THEN Append(es, e) ELSE es

\* Docker reports the end of a container as die, and in addition as oom before it
\* or as stop after it: isExitEvent takes each for an exit.
WithExit(es) == {With(es, "exit"), With(With(es, "exit"), "exit")}

Goto(a, place) ==
    /\ at' = [at EXCEPT ![a] = place]
    /\ UNCHANGED sig

\* The goroutine leaves its operation; claims that were taken are forgotten
\* once nobody is left inside.
Leave(a) ==
    /\ at' = [at EXCEPT ![a] = "idle"]
    /\ sig' = [sig EXCEPT ![a] = "none"]
    /\ taken' = (taken /\ Inside(at') # {})

-----------------------------------------------------------------------------
(* HandlePower *)

\* Mutant: an admission that looks at the states and not at the slot.
AdmitUnclaimed(a, s) ==
    /\ ~restoring /\ ~installing
    /\ action' = s
    /\ at' = [at EXCEPT ![a] = IF s \in {"start", "restart"} THEN "before" ELSE "mark"]
    /\ sig' = [sig EXCEPT ![a] = s]

\* The admission checks, and the claim.
Admit(a, s) ==
    /\ action = "none"
    /\ ~restoring /\ ~installing
    /\ action' = s
    /\ at' = [at EXCEPT ![a] = IF s \in {"start", "restart"} THEN "before" ELSE "mark"]
    /\ sig' = [sig EXCEPT ![a] = s]

\* A request, or before those are served a command that the journal still had.
Power(c, s) ==
    /\ at[c] = "idle"
    /\ Admit(c, s)
    /\ UNCHANGED <<power, installing, restoring, expectedStop, crashCount,
                   runtimeVars, historyVars, bootVars>>

\* ConfigurationSynced is set by Reconcile, or by a sync once requests are served.
Synced == boot = "up" \/ passes > 0

\* onBeforeStart and the configuration patches may refuse.  A start clears
\* ExpectedStop before it calls the runtime.
BeforeStart(a) ==
    /\ at[a] = "before"
    /\ \/ Goto(a, "release") /\ UNCHANGED <<power, expectedStop>>
       \/ /\ Synced /\ sig[a] = "start"
          /\ power' = "starting"
          /\ expectedStop' = FALSE
          /\ Goto(a, "startCall")
       \/ /\ Synced /\ sig[a] = "restart"
          /\ Goto(a, "mark")
          /\ UNCHANGED <<power, expectedStop>>
    /\ UNCHANGED <<action, installing, restoring, crashCount, runtimeVars, historyVars, bootVars>>

\* stop, restart and kill announce the exit; a deliberate stop closes the crash
\* loop.
MarkStopping(a) ==
    /\ at[a] = "mark"
    /\ power' = "stopping"
    /\ expectedStop' = TRUE
    /\ crashCount' = IF sig[a] = "stop" THEN 0 ELSE crashCount
    /\ restarts' = IF sig[a] = "stop" THEN 0 ELSE restarts
    /\ Goto(a, "stopCall")
    /\ UNCHANGED <<action, installing, restoring, runtimeVars, taken, bootVars>>

\* A runtime call that fails: restart has something to put back, the others only
\* where the container is missing (a sync removes and creates it anew).
CallFails(a) == Goto(a, "failed") \/ (sig[a] # "restart" /\ Goto(a, "release"))

\* stopServer or Kill.  Signal refuses a container that does not run, Kill and
\* WaitForStop do not mind; any call may fail, with or without effect.
StopCall(a) ==
    /\ at[a] = "stopCall"
    /\ \/ /\ running
          /\ running' = FALSE
          /\ events' \in WithExit(events)
       \/ UNCHANGED runtimeVars
    /\ \/ CallFails(a)
       \/ ~running' /\ Goto(a, IF sig[a] = "restart" THEN "startCall" ELSE "record")
    /\ UNCHANGED <<stateVars, historyVars, bootVars>>

\* runtime.Start: nothing to do for a container that runs.
StartCall(a) ==
    /\ at[a] = "startCall"
    /\ \/ /\ ~running
          /\ running' = TRUE
          /\ events' = With(events, "start")
       \/ UNCHANGED runtimeVars
    /\ CallFails(a) \/ (running' /\ Goto(a, "record"))
    /\ UNCHANGED <<stateVars, historyVars, bootVars>>

\* What LastStartedAt is set to matters until autoRestartCrashed has read it.
StillRead == boot \in {"inspect", "sawDown"}
Started(a) == StillRead /\ at[a] = "record" /\ sig[a] \in {"start", "restart"}

\* Mutant: a successful start clears the crash count.
RecordForgetsCrashes(a) ==
    /\ at[a] \in {"record", "failed"}
    /\ power' = IF at[a] = "record" /\ sig[a] \in {"start", "restart"}
                  THEN "running" ELSE "offline"
    /\ expectedStop' = (expectedStop /\ sig[a] # "restart")
    /\ crashCount' = IF at[a] = "record" /\ sig[a] = "start" THEN 0 ELSE crashCount
    /\ started' = (started \/ Started(a))
    /\ Goto(a, "release")
    /\ UNCHANGED <<action, installing, restoring, runtimeVars, historyVars, boot, passes>>

\* The new power state.  A start that failed otherwise stays starting, a stop or
\* kill stopping.
Record(a) ==
    /\ at[a] \in {"record", "failed"}
    /\ power' = IF at[a] = "record" /\ sig[a] \in {"start", "restart"}
                  THEN "running" ELSE "offline"
    /\ expectedStop' = (expectedStop /\ sig[a] # "restart")
    /\ started' = (started \/ Started(a))
    /\ Goto(a, "release")
    /\ UNCHANGED <<action, installing, restoring, crashCount, runtimeVars, boot, passes,
                   historyVars>>

\* The deferred function: the slot is freed if it holds this signal, whoever
\* claimed it.
Release(a) ==
    /\ at[a] = "release"
    /\ action' = IF action = sig[a] THEN "none" ELSE action
    /\ Leave(a)
    /\ UNCHANGED <<power, installing, restoring, expectedStop, crashCount,
                   runtimeVars, restarts, bootVars>>

PowerStep(a) ==
    BeforeStart(a) \/ MarkStopping(a) \/ StopCall(a) \/ StartCall(a) \/ Record(a) \/ Release(a)

-----------------------------------------------------------------------------
(* Installs and restores *)

BeginInstall(c) ==
    /\ boot = "up"
    /\ at[c] = "idle"
    /\ action = "none" /\ ~restoring
    /\ action' = "install"
    /\ installing' = TRUE
    /\ at' = [at EXCEPT ![c] = "install"]
    /\ sig' = [sig EXCEPT ![c] = "install"]
    /\ UNCHANGED <<power, restoring, expectedStop, crashCount, runtimeVars, historyVars, bootVars>>

\* runtime.Install starts a container that carries the label of the server, so
\* its start and its exit reach the watcher as the server's own.
InstallerStarts(c) ==
    /\ at[c] = "install"
    /\ events' = With(events, "start")
    /\ Goto(c, "installer")
    /\ UNCHANGED <<stateVars, running, historyVars, bootVars>>

\* Mutant: the end of an install clears its state and forgets the slot.
EndInstallKeepsSlot(c) ==
    /\ at[c] \in {"install", "installer"}
    /\ installing' = FALSE
    /\ Leave(c)
    /\ UNCHANGED <<power, action, restoring, expectedStop, crashCount, runtimeVars, restarts,
                   bootVars>>

\* EndInstall, whether or not the slot still says install; the installer may not
\* have come to run, or its exit go unreported.
EndInstall(c) ==
    /\ \/ at[c] \in {"install", "installer"} /\ UNCHANGED events
       \/ at[c] = "installer" /\ events' \in WithExit(events)
    /\ action' = IF action = "install" THEN "none" ELSE action
    /\ installing' = FALSE
    /\ Leave(c)
    /\ UNCHANGED <<power, restoring, expectedStop, crashCount, running, restarts, bootVars>>

BeginRestore(c) ==
    /\ boot = "up"
    /\ at[c] = "idle"
    /\ action = "none" /\ ~restoring
    /\ action' = "restore"
    /\ restoring' = TRUE
    /\ at' = [at EXCEPT ![c] = "restore"]
    /\ sig' = [sig EXCEPT ![c] = "restore"]
    /\ UNCHANGED <<power, installing, expectedStop, crashCount, runtimeVars, historyVars, bootVars>>

EndRestore ==
    /\ action' = IF action = "restore" THEN "none" ELSE action
    /\ restoring' = FALSE

\* restoreBackup ends its claim on success, and the deferred call ends it again:
\* by then it may be the claim of the next restore.
RestoreDone(c) ==
    /\ at[c] = "restore"
    /\ EndRestore
    /\ Goto(c, "restored")
    /\ UNCHANGED <<power, installing, expectedStop, crashCount, runtimeVars, historyVars, bootVars>>

RestoreReturns(c) ==
    /\ at[c] \in {"restore", "restored"}
    /\ EndRestore
    /\ at' = [at EXCEPT ![c] = "idle"]
    /\ sig' = [sig EXCEPT ![c] = "none"]
    /\ taken' = ((taken \/ (at[c] = "restored" /\ action = "restore")) /\ Inside(at') # {})
    /\ UNCHANGED <<power, installing, expectedStop, crashCount, runtimeVars, restarts, bootVars>>

-----------------------------------------------------------------------------
(* HandleContainerEvent *)

\* An exit frees the slot, even while the operation that claimed it goes on.
ExitSeen ==
    /\ power' = "offline"
    /\ action' = "none"
    /\ taken' = (taken \/ Inside(at) # {})

\* The breaker tells counts apart up to MaxRestarts + 1.
Counted == IF crashCount <= MaxRestarts THEN crashCount + 1 ELSE crashCount

StartSeen ==
    /\ at[Watcher] = "idle"
    /\ events # <<>> /\ Head(events) = "start"
    /\ events' = Tail(events)
    /\ power' = "running"
    /\ expectedStop' = FALSE
    /\ started' = (started \/ StillRead)
    /\ UNCHANGED <<action, installing, restoring, crashCount, running, flowVars,
                   historyVars, boot, passes>>

ExpectedExit ==
    /\ at[Watcher] = "idle"
    /\ events # <<>> /\ Head(events) = "exit"
    /\ events' = Tail(events)
    /\ expectedStop
    /\ ExitSeen
    /\ expectedStop' = FALSE
    /\ UNCHANGED <<installing, restoring, crashCount, running, flowVars, restarts, bootVars>>

\* A clean exit, crash detection that is off, or a crash within the cooldown of
\* the last: nothing is restarted.
QuietExit ==
    /\ at[Watcher] = "idle"
    /\ events # <<>> /\ Head(events) = "exit"
    /\ events' = Tail(events)
    /\ ~expectedStop
    /\ ExitSeen
    /\ UNCHANGED <<installing, restoring, expectedStop, crashCount, running, flowVars,
                   restarts, bootVars>>

\* A crash, by the exit code or by DetectCleanExitAsCrash, is counted, and restarted
\* unless the breaker is open.
CrashSeen ==
    /\ at[Watcher] = "idle"
    /\ events # <<>> /\ Head(events) = "exit"
    /\ events' = Tail(events)
    /\ ~expectedStop
    /\ ExitSeen
    /\ crashCount' = Counted
    /\ Goto(Watcher, IF crashCount' > MaxRestarts THEN "idle" ELSE "crashed")
    /\ UNCHANGED <<installing, restoring, expectedStop, running, restarts, bootVars>>

\* HandlePower(start) of the watcher, once crashHandler has returned.  The lock is
\* not held over from the decision.
AutoRestart ==
    /\ at[Watcher] = "crashed"
    /\ \/ /\ Admit(Watcher, "start")
          /\ restarts' = restarts + 1
       \/ /\ Goto(Watcher, "idle")
          /\ UNCHANGED <<action, restarts>>
    /\ UNCHANGED <<power, installing, restoring, expectedStop, crashCount,
                   runtimeVars, taken, bootVars>>

WatcherStep ==
    StartSeen \/ ExpectedExit \/ QuietExit \/ CrashSeen \/ AutoRestart \/ PowerStep(Watcher)

-----------------------------------------------------------------------------
(* The container, the clock, the daemon *)

ContainerExits ==
    /\ running
    /\ running' = FALSE
    /\ events' \in WithExit(events)
    /\ UNCHANGED <<stateVars, flowVars, historyVars, bootVars>>

\* The event stream reconnects and misses what happened meanwhile.
EventLost ==
    /\ events # <<>>
    /\ events' = Tail(events)
    /\ UNCHANGED <<stateVars, running, flowVars, historyVars, bootVars>>

-----------------------------------------------------------------------------
(* The start of the daemon *)

\* The daemon ends and is started again: it watches events and feeds the commands of
\* its journal to the workers, then reconciles, then serves requests.
Boot ==
    /\ power' = "offline"
    /\ action' = "none"
    /\ installing' = FALSE
    /\ restoring' = FALSE
    /\ expectedStop' = FALSE
    /\ crashCount' = 0
    /\ events' = <<>>
    /\ at' = [a \in Actors |-> "idle"]
    /\ sig' = [a \in Actors |-> "none"]
    /\ boot' = "reset" /\ passes' = 0 /\ started' = FALSE
    /\ taken' = FALSE
    /\ restarts' = 0
    /\ UNCHANGED running

\* Once the last Reconcile is over requests are served.
Reconciled == IF passes < MaxPasses THEN "reset" ELSE "up"

\* syncServersFromPanel calls Reconcile, and after an error recoverServersFromDisk does.
\* It clears RunningAction and ExpectedStop, whatever goes on, and takes the
\* installation state from the panel or the cache, which may still say installing.
ReconcileResets ==
    /\ boot = "reset" /\ passes < MaxPasses
    /\ action' = "none"
    /\ installing' \in BOOLEAN
    /\ expectedStop' = FALSE
    /\ boot' = "inspect" /\ passes' = passes + 1 /\ started' = FALSE
    /\ taken' = (taken \/ Inside(at) # {})
    /\ UNCHANGED <<power, restoring, crashCount, runtimeVars, flowVars, restarts>>

\* runtime.Inspect, which may fail.
ReconcileInspects ==
    /\ boot = "inspect"
    /\ \/ ~running /\ boot' = "sawDown" /\ UNCHANGED started
       \/ running /\ boot' = "sawUp" /\ started' = FALSE
       \/ boot' = Reconciled /\ started' = FALSE
    /\ UNCHANGED <<stateVars, runtimeVars, flowVars, passes, historyVars>>

\* The power state that was seen.
ReconcileSetsPower ==
    /\ boot = "sawUp"
    /\ power' = "running"
    /\ boot' = Reconciled
    /\ UNCHANGED <<action, installing, restoring, expectedStop, crashCount, runtimeVars,
                   flowVars, passes, started, historyVars>>

\* The power state that was seen, and autoRestartCrashed: the two critical sections
\* are one step, for nothing reads PowerState in between.  LastStartedAt was just
\* cleared: it is set if a command of the journal has started the server since, or a
\* start event was seen.
CheckCrashed ==
    /\ boot = "sawDown"
    /\ power' = "offline"
    /\ boot' = IF started /\ ~expectedStop THEN "start" ELSE Reconciled
    /\ started' = FALSE
    /\ UNCHANGED <<action, installing, restoring, expectedStop, crashCount, runtimeVars,
                   flowVars, passes, historyVars>>

\* The start is made without the slot.
StartCrashed ==
    /\ boot = "start"
    /\ \/ /\ ~running
          /\ running' = TRUE
          /\ events' = With(events, "start")
       \/ UNCHANGED runtimeVars
    /\ boot' \in {Reconciled} \cup (IF running' THEN {"record"} ELSE {})
    /\ UNCHANGED <<stateVars, flowVars, passes, started, historyVars>>

RecordCrashed ==
    /\ boot = "record"
    /\ power' = "running"
    /\ expectedStop' = FALSE
    /\ boot' = Reconciled
    /\ UNCHANGED <<action, installing, restoring, crashCount, runtimeVars, flowVars, passes,
                   started, historyVars>>

\* No error, no second Reconcile; a server that neither the panel nor the disk names is
\* not reconciled at all.
BootEnds ==
    /\ boot = "reset"
    /\ boot' = "up" /\ passes' = MaxPasses
    /\ UNCHANGED <<stateVars, runtimeVars, flowVars, started, historyVars>>

BootStep ==
    \/ ReconcileResets \/ ReconcileInspects \/ ReconcileSetsPower
    \/ CheckCrashed \/ StartCrashed \/ RecordCrashed \/ BootEnds

-----------------------------------------------------------------------------
CallerStep(c) ==
    \/ PowerStep(c)
    \/ InstallerStarts(c) \/ EndInstall(c)
    \/ RestoreDone(c) \/ RestoreReturns(c)

Request(c) ==
    \/ \E s \in Signal : Power(c, s)
    \/ BeginInstall(c) \/ BeginRestore(c)

Environment == ContainerExits \/ EventLost

Next ==
    \/ \E c \in Callers : Request(c) \/ CallerStep(c)
    \/ WatcherStep
    \/ Environment
    \/ Boot \/ BootStep

Spec == Init /\ [][Next]_vars

-----------------------------------------------------------------------------
(* Properties *)

\* At most one power operation, install or restore works on the server, as long
\* as every claim was ended by its owner: HandlePower, BeginInstall and
\* BeginRestore claim the slot that the others look at.  An exit event, the second
\* EndRestore of a restore, and Reconcile over a command of the journal end the
\* claims of others.
Exclusive == taken \/ \A a, b \in Inside(at) : a = b

\* The slot is never left behind: what RunningAction names is an operation that
\* is still under way, however claims are freed, taken and freed again.
ClaimOwned == action # "none" => \E a \in Inside(at) : sig[a] = action

\* The crash-loop breaker bounds the restarts by the watcher between two deliberate
\* stops.  One more than maxConsecutiveCrashRestarts: a restart decided before a
\* stop resets the count may be carried out after it.
RestartBound == restarts <= MaxRestarts + 1
=============================================================================
