-------------------------- MODULE RuntimeLifecycle --------------------------
(***************************************************************************)
(* The runtimes of the Run Supervisor: the registry, the service handlers  *)
(* that create, launch, stop and release a runtime (or drive all four for  *)
(* a scenario), the Paper processes they start, and the garbage collector. *)
(*                                                                         *)
(* The Supervisor is one Node.js event loop: a handler runs without        *)
(* interruption up to its next await, so an action is one such stretch and *)
(* `calls' holds, for each request in flight, the await it is parked at.   *)
(* A request that a guard refuses changes nothing and is not a step.       *)
(*                                                                         *)
(* Runtimes are numbered in the order they are registered, the order in    *)
(* which a sweep visits them.  Time is abstract: `aged' holds the runtimes *)
(* whose retention period has passed.                                      *)
(***************************************************************************)
EXTENDS Naturals, FiniteSets

CONSTANTS
  Calls,          \* slots for requests in flight at the same time
  MaxRuntimes,    \* bound: runtimes registered in one behaviour
  MaxProcs,       \* bound: Paper processes spawned in one behaviour
  MaxConcurrent,  \* maxConcurrentRuntimes, the quota
  SerialRuntime,  \* clients keep at most one request in flight per runtime
  Scenarios       \* whether clients call scenario.run

ASSUME LifecycleAssumption ==
  /\ IsFiniteSet(Calls) /\ Calls # {}
  /\ MaxRuntimes \in Nat
  /\ MaxProcs \in Nat
  /\ MaxConcurrent \in Nat
  /\ SerialRuntime \in BOOLEAN
  /\ Scenarios \in BOOLEAN

VARIABLES
  state,       \* entry.state of each runtime, UNBORN before register()
  running,     \* entry.running: the process the entry points to, or None
  registered,  \* the runtimes the registry's map holds
  dir,         \* the runtimes whose root directory exists
  marked,      \* the runtimes whose root directory holds its marker file
  aged,        \* the runtimes in RETENTION for retentionMs or longer
  proc,        \* what each Paper process is doing
  host,        \* the runtime each process was spawned for
  calls,       \* the requests in flight
  sweep        \* the garbage collector's current sweep

files == <<dir, marked>>
vars == <<state, running, registered, dir, marked, aged, proc, host, calls, sweep>>

-----------------------------------------------------------------------------
None == 0
Ids == 1..MaxRuntimes
Procs == 1..MaxProcs

ActiveStates == {"CREATED", "STARTING", "READY", "STOPPING", "STOPPED", "CRASHED"}
ReleasedStates == {"RELEASED", "RETENTION", "DELETING", "DELETED"}
States == {"UNBORN"} \cup ActiveStates \cup ReleasedStates

Idle == [pc |-> "idle", op |-> "none", id |-> None, proc |-> None]
CallRecords ==
  [pc : {"idle", "creating", "detecting", "reading", "gating", "launched",
         "stopping", "disposing", "discarding"},
   op : {"none", "create", "launch", "stop", "release", "scenario", "pool"},
   id : Ids \cup {None}, proc : Procs \cup {None}]

NoSweep == [active |-> FALSE, todo |-> {}, due |-> {}, rm |-> None]
Sweeps == [active : BOOLEAN, todo : SUBSET Ids, due : SUBSET Ids, rm : Ids \cup {None}]

InFlight(i) == {c \in Calls : calls[c].pc # "idle" /\ calls[c].id = i}
Addressable(i) ==
  /\ i \in registered
  /\ SerialRuntime => InFlight(i) = {}

Alive(p) == proc[p] \in {"booting", "up"}
Unborn == {p \in Procs : proc[p] = "unborn"}
ActiveCount == Cardinality({i \in registered : state[i] \in ActiveStates})
Creating == {c \in Calls : calls[c].pc = "creating"}

Park(c, pc, op, i, p) ==
  calls' = [calls EXCEPT ![c] = [pc |-> pc, op |-> op, id |-> i, proc |-> p]]
Return(c) == calls' = [calls EXCEPT ![c] = Idle]

(* updateState: the new state, and a retention clock that starts anew.     *)
SetState(i, s) ==
  /\ state' = [state EXCEPT ![i] = s]
  /\ aged' = aged \ {i}

(* rm(root, recursive), done or given up on before or after the marker.    *)
RemoveRoot(i) ==
  /\ dir' = dir \ {i}
  /\ marked' = marked \ {i}
RemoveHalf(i) ==
  /\ marked' \in {marked, marked \ {i}}
  /\ UNCHANGED dir

TypeOK ==
  /\ state \in [Ids -> States]
  /\ running \in [Ids -> Procs \cup {None}]
  /\ registered \subseteq Ids
  /\ dir \subseteq Ids
  /\ marked \subseteq dir
  /\ aged \subseteq Ids
  /\ proc \in [Procs -> {"unborn", "booting", "up", "dead"}]
  /\ host \in [Procs -> Ids \cup {None}]
  /\ calls \in [Calls -> CallRecords]
  /\ sweep \in Sweeps

Init ==
  /\ state = [i \in Ids |-> "UNBORN"]
  /\ running = [i \in Ids |-> None]
  /\ registered = {}
  /\ dir = {}
  /\ marked = {}
  /\ aged = {}
  /\ proc = [p \in Procs |-> "unborn"]
  /\ host = [p \in Procs |-> None]
  /\ calls = [c \in Calls |-> Idle]
  /\ sweep = NoSweep

-----------------------------------------------------------------------------
(* runtime.create, and the first half of scenario.run's runtimeProvider.   *)

\* Mutant: the quota is off by one.
CreateBeginPastQuota(c, op) ==
  /\ calls[c] = Idle
  /\ op = "scenario" => Scenarios
  /\ ActiveCount <= MaxConcurrent
  /\ Park(c, "creating", op, None, None)
  /\ UNCHANGED <<state, running, registered, files, aged, proc, host, sweep>>

CreateBegin(c, op) ==
  /\ calls[c] = Idle
  /\ op = "scenario" => Scenarios
  /\ ActiveCount < MaxConcurrent
  /\ Park(c, "creating", op, None, None)
  /\ UNCHANGED <<state, running, registered, files, aged, proc, host, sweep>>

(* A root directory of its own, with its marker.                           *)
CreateRuntimeImage(i) ==
  /\ dir' = dir \cup {i}
  /\ marked' = marked \cup {i}

Register(i) ==
  /\ SetState(i, "CREATED")
  /\ registered' = registered \cup {i}

(* The image is on disk: register it.  The quota is not looked at again.   *)
CreateEnd(c) ==
  /\ calls[c].pc = "creating"
  /\ \E i \in Ids :
       /\ state[i] = "UNBORN"
       /\ \A j \in Ids : state[j] = "UNBORN" => i <= j
       /\ CreateRuntimeImage(i)
       /\ Register(i)
       /\ IF calls[c].op = "scenario"
          THEN Park(c, "detecting", "scenario", i, None)
          ELSE Return(c)
  /\ UNCHANGED <<running, proc, host, sweep>>

(* Build resolution, download or image creation failed.                    *)
CreateFail(c) ==
  /\ calls[c].pc = "creating"
  /\ Return(c)
  /\ UNCHANGED <<state, running, registered, files, aged, proc, host, sweep>>

-----------------------------------------------------------------------------
(* runtime.launch, which pool.acquire and scenario.run call as well.       *)

\* Mutant: a stopped runtime may be launched again.
LaunchBeginAgain(c, i, op) ==
  /\ calls[c] = Idle
  /\ Addressable(i)
  /\ state[i] \in {"CREATED", "STOPPED"}
  /\ Park(c, "detecting", op, i, None)
  /\ UNCHANGED <<state, running, registered, files, aged, proc, host, sweep>>

LaunchBegin(c, i, op) ==
  /\ calls[c] = Idle
  /\ Addressable(i)
  /\ state[i] = "CREATED"
  /\ Park(c, "detecting", op, i, None)
  /\ UNCHANGED <<state, running, registered, files, aged, proc, host, sweep>>

(* No usable Java: the handler throws before it has touched the entry.     *)
JavaMissing(c) ==
  /\ calls[c].pc = "detecting"
  /\ Return(c)
  /\ UNCHANGED <<state, running, registered, files, aged, proc, host, sweep>>

(* STARTING and spawn(), in one stretch; the state is not checked again.   *)
Spawn(c) ==
  /\ calls[c].pc = "detecting"
  /\ calls[c].id \in dir
  /\ \E p \in Unborn :
       /\ \A q \in Unborn : p <= q
       /\ proc' = [proc EXCEPT ![p] = "booting"]
       /\ host' = [host EXCEPT ![p] = calls[c].id]
       /\ Park(c, "reading", calls[c].op, calls[c].id, p)
  /\ SetState(calls[c].id, "STARTING")
  /\ UNCHANGED <<running, registered, files, sweep>>

(* spawn() failed: the catch block marks the entry CRASHED in the same     *)
(* stretch.  (With ENOENT, a removed working directory say, Node also      *)
(* emits an `error' event that nobody listens to and the Supervisor ends:  *)
(* its end is not part of this module.)                                    *)
SpawnFail(c) ==
  /\ calls[c].pc = "detecting"
  /\ SetState(calls[c].id, "CRASHED")
  /\ Return(c)
  /\ UNCHANGED <<running, registered, files, proc, host, sweep>>

MarkerRead(c) ==
  /\ calls[c].pc = "reading"
  /\ calls[c].id \in marked
  /\ Park(c, "gating", calls[c].op, calls[c].id, calls[c].proc)
  /\ UNCHANGED <<state, running, registered, files, aged, proc, host, sweep>>

(* readFile(markerFile) rejects: CRASHED, and nobody kills the child.      *)
MarkerGone(c) ==
  /\ calls[c].pc = "reading"
  /\ calls[c].id \notin marked
  /\ SetState(calls[c].id, "CRASHED")
  /\ Return(c)
  /\ UNCHANGED <<running, registered, files, proc, host, sweep>>

(* Handshake, health and plugin list agree.  Whatever the entry became in  *)
(* the meantime, it is READY now and points to this process.               *)
GatePass(c) ==
  /\ calls[c].pc = "gating"
  /\ Alive(calls[c].proc)
  /\ \E p \in Procs : host[p] = calls[c].id /\ proc[p] = "up"
  /\ running' = [running EXCEPT ![calls[c].id] = calls[c].proc]
  /\ SetState(calls[c].id, "READY")
  /\ IF calls[c].op = "launch"
     THEN Return(c)
     ELSE Park(c, "launched", calls[c].op, calls[c].id, calls[c].proc)
  /\ UNCHANGED <<registered, files, proc, host, sweep>>

\* Mutant: the ready gate gives up without killing the child.
GateFailLeaking(c) ==
  /\ calls[c].pc = "gating"
  /\ SetState(calls[c].id, "CRASHED")
  /\ Return(c)
  /\ UNCHANGED <<running, registered, files, proc, host, sweep>>

\* Mutant: the ready gate has no deadline.
GateFailNoDeadline(c) ==
  /\ calls[c].pc = "gating"
  /\ proc[calls[c].proc] = "dead"
  /\ SetState(calls[c].id, "CRASHED")
  /\ Return(c)
  /\ UNCHANGED <<running, registered, files, proc, host, sweep>>

(* The process exited, the deadline passed, or the handshake is another    *)
(* runtime's; the last two kill the child first.                           *)
GateFail(c) ==
  /\ calls[c].pc = "gating"
  /\ proc' = [proc EXCEPT ![calls[c].proc] = "dead"]
  /\ SetState(calls[c].id, "CRASHED")
  /\ Return(c)
  /\ UNCHANGED <<running, registered, files, host, sweep>>

-----------------------------------------------------------------------------
(* runtime.stop *)

StopBegin(c, i) ==
  /\ calls[c] = Idle
  /\ Addressable(i)
  /\ state[i] \in {"READY", "STARTING"}
  /\ running[i] # None
  /\ SetState(i, "STOPPING")
  /\ Park(c, "stopping", "stop", i, running[i])
  /\ UNCHANGED <<running, registered, files, proc, host, sweep>>

(* Nothing to stop yet: the entry becomes STOPPED and the caller is told   *)
(* RUNTIME_NOT_RUNNING.                                                    *)
StopNotRunning(i) ==
  /\ \E c \in Calls : calls[c] = Idle
  /\ Addressable(i)
  /\ state[i] \in {"READY", "STARTING"}
  /\ running[i] = None
  /\ SetState(i, "STOPPED")
  /\ UNCHANGED <<running, registered, files, proc, host, calls, sweep>>

\* Mutant: a state of the diagram that the registry does not know.
StopEndForced(c) ==
  /\ calls[c].pc = "stopping"
  /\ proc' = [proc EXCEPT ![calls[c].proc] = "dead"]
  /\ SetState(calls[c].id, "FORCE_STOPPED")
  /\ running' = [running EXCEPT ![calls[c].id] = None]
  /\ Return(c)
  /\ UNCHANGED <<registered, files, host, sweep>>

\* Mutant: a state that changed during the wait is respected, the pointer is not.
StopEndRespectful(c) ==
  /\ calls[c].pc = "stopping"
  /\ proc' = [proc EXCEPT ![calls[c].proc] = "dead"]
  /\ IF state[calls[c].id] = "STOPPING"
     THEN SetState(calls[c].id, "STOPPED")
     ELSE UNCHANGED <<state, aged>>
  /\ running' = [running EXCEPT ![calls[c].id] = None]
  /\ Return(c)
  /\ UNCHANGED <<registered, files, host, sweep>>

\* Mutant: stopRuntime does not wait for the exit.
StopEndUnawaited(c) ==
  /\ calls[c].pc = "stopping"
  /\ SetState(calls[c].id, "STOPPED")
  /\ running' = [running EXCEPT ![calls[c].id] = None]
  /\ Return(c)
  /\ UNCHANGED <<registered, files, proc, host, sweep>>

\* Mutant: a process that ignores the request to stop is waited for.
StopEndPatient(c) ==
  /\ calls[c].pc = "stopping"
  /\ proc[calls[c].proc] = "dead"
  /\ SetState(calls[c].id, "STOPPED")
  /\ running' = [running EXCEPT ![calls[c].id] = None]
  /\ Return(c)
  /\ UNCHANGED <<registered, files, proc, host, sweep>>

(* stopPaper resolves after the exit, forced when the grace period is over.*)
StopEnd(c) ==
  /\ calls[c].pc = "stopping"
  /\ proc' = [proc EXCEPT ![calls[c].proc] = "dead"]
  /\ SetState(calls[c].id, "STOPPED")
  /\ running' = [running EXCEPT ![calls[c].id] = None]
  /\ Return(c)
  /\ UNCHANGED <<registered, files, host, sweep>>

-----------------------------------------------------------------------------
(* runtime.release *)

Release(i) ==
  /\ \E c \in Calls : calls[c] = Idle
  /\ Addressable(i)
  /\ state[i] \in {"STOPPED", "CRASHED"}
  /\ SetState(i, "RELEASED")
  /\ UNCHANGED <<running, registered, files, proc, host, calls, sweep>>

(* The same with discardImmediately: the root is removed at once.          *)
ReleaseDiscarding(c, i) ==
  /\ calls[c] = Idle
  /\ Addressable(i)
  /\ state[i] \in {"STOPPED", "CRASHED"}
  /\ SetState(i, "RELEASED")
  /\ Park(c, "discarding", "release", i, None)
  /\ UNCHANGED <<running, registered, files, proc, host, sweep>>

DiscardDone(c) ==
  /\ calls[c].pc = "discarding"
  /\ RemoveRoot(calls[c].id)
  /\ Return(c)
  /\ UNCHANGED <<state, running, registered, aged, proc, host, sweep>>

DiscardFail(c) ==
  /\ calls[c].pc = "discarding"
  /\ RemoveHalf(calls[c].id)
  /\ Return(c)
  /\ UNCHANGED <<state, running, registered, aged, proc, host, sweep>>

-----------------------------------------------------------------------------
(* scenario.run, from the end of its steps: dispose() stops the process    *)
(* without marking the entry STOPPING, then releases and discards.  Where  *)
(* release refuses the state it finds, dispose() gives up silently.        *)

ScenarioEnd(c) ==
  LET i == calls[c].id IN
  /\ calls[c].pc = "launched"
  /\ calls[c].op = "scenario"
  /\ running[i] # None
  /\ Park(c, "disposing", "scenario", i, running[i])
  /\ UNCHANGED <<state, running, registered, files, aged, proc, host, sweep>>

(* Somebody else stopped it already.                                       *)
ScenarioEndStopped(c) ==
  LET i == calls[c].id IN
  /\ calls[c].pc = "launched"
  /\ calls[c].op = "scenario"
  /\ running[i] = None
  /\ IF i \in registered /\ state[i] \in {"CREATED", "STARTING", "STOPPED", "CRASHED"}
     THEN SetState(i, "RELEASED") /\ Park(c, "discarding", "scenario", i, None)
     ELSE UNCHANGED <<state, aged>> /\ Return(c)
  /\ UNCHANGED <<running, registered, files, proc, host, sweep>>

Dispose(c) ==
  LET i == calls[c].id IN
  /\ calls[c].pc = "disposing"
  /\ proc' = [proc EXCEPT ![calls[c].proc] = "dead"]
  /\ running' = [running EXCEPT ![i] = None]
  /\ SetState(i, IF i \in registered THEN "RELEASED" ELSE "STOPPED")
  /\ IF i \in registered
     THEN Park(c, "discarding", "scenario", i, None)
     ELSE Return(c)
  /\ UNCHANGED <<registered, files, host, sweep>>

-----------------------------------------------------------------------------
(* Paper processes *)

ProcUp(p) ==
  /\ proc[p] = "booting"
  /\ proc' = [proc EXCEPT ![p] = "up"]
  /\ UNCHANGED <<state, running, registered, files, aged, host, calls, sweep>>

ProcExit(p) ==
  /\ Alive(p)
  /\ proc' = [proc EXCEPT ![p] = "dead"]
  /\ UNCHANGED <<state, running, registered, files, aged, host, calls, sweep>>

-----------------------------------------------------------------------------
(* The garbage collector *)

(* retentionMs (a day by default) outlasts any request: the longest, a     *)
(* launch, gives up after its startup timeout of three minutes.            *)
Age(i) ==
  /\ state[i] = "RETENTION"
  /\ i \notin aged
  /\ InFlight(i) = {}
  /\ aged' = aged \cup {i}
  /\ UNCHANGED <<state, running, registered, files, proc, host, calls, sweep>>

\* Mutants: the validation forgets the process, or the retention period.
DueWhileRunning(i, D) == state[i] = "RETENTION" /\ i \in D
DueAtOnce(i, D) == state[i] = "RETENTION" /\ running[i] = None

(* deleteIfValid of an entry that was due when the sweep began.            *)
Due(i, D) == state[i] = "RETENTION" /\ i \in D /\ running[i] = None
(* A directory that lost its marker is left alone.                         *)
ToRemove(T, D) == {i \in T : Due(i, D) /\ i \in marked}

(* The entries of T are visited in one stretch, s and r being the states   *)
(* and the registered runtimes before it.                                  *)
Visit(T, D, s, r) ==
  /\ state' = [i \in Ids |-> IF i \in T /\ s[i] = "RELEASED" THEN "RETENTION" ELSE s[i]]
  /\ aged' = {i \in aged : state'[i] = state[i]}
  /\ registered' = r \ {i \in T : Due(i, D) /\ i \notin dir}

(* A sweep goes through T in order up to the first entry whose directory   *)
(* it has to remove.                                                       *)
Walk(T, D, s, r) ==
  \/ /\ ToRemove(T, D) = {}
     /\ Visit(T, D, s, r)
     /\ sweep' = NoSweep
  \/ \E t \in ToRemove(T, D) :
       /\ \A i \in ToRemove(T, D) : t <= i
       /\ Visit({i \in T : i < t}, D, [s EXCEPT ![t] = "DELETING"], r)
       /\ sweep' = [active |-> TRUE, todo |-> {i \in T : i > t}, due |-> D, rm |-> t]

SweepBegin ==
  /\ ~ sweep.active
  /\ Walk(registered, aged, state, registered)
  /\ UNCHANGED <<running, files, proc, host, calls>>

RmDone ==
  /\ sweep.rm # None
  /\ RemoveRoot(sweep.rm)
  /\ Walk(sweep.todo, sweep.due, [state EXCEPT ![sweep.rm] = "DELETED"], registered \ {sweep.rm})
  /\ UNCHANGED <<running, proc, host, calls>>

\* Mutant: a failed removal leaves the sweep marked as running.
RmFailStuck ==
  /\ sweep.rm # None
  /\ sweep' = [NoSweep EXCEPT !.active = TRUE]
  /\ UNCHANGED <<state, running, registered, files, aged, proc, host, calls>>

(* The entry is left DELETING; later sweeps look at RELEASED and RETENTION *)
(* only.                                                                   *)
RmFail ==
  /\ sweep.rm # None
  /\ RemoveHalf(sweep.rm)
  /\ Walk(sweep.todo, sweep.due, state, registered)
  /\ UNCHANGED <<running, proc, host, calls>>

-----------------------------------------------------------------------------
(* What a request in flight does next, whatever its outcome.               *)
Continue(c) ==
  \/ CreateEnd(c) \/ CreateFail(c)
  \/ JavaMissing(c) \/ Spawn(c) \/ SpawnFail(c)
  \/ MarkerRead(c) \/ MarkerGone(c) \/ GatePass(c) \/ GateFail(c)
  \/ StopEnd(c)
  \/ DiscardDone(c) \/ DiscardFail(c)
  \/ ScenarioEnd(c) \/ ScenarioEndStopped(c) \/ Dispose(c)

Begin(c) ==
  \/ \E op \in {"create", "scenario"} : CreateBegin(c, op)
  \/ \E i \in Ids : LaunchBegin(c, i, "launch") \/ StopBegin(c, i) \/ ReleaseDiscarding(c, i)

Collect == SweepBegin \/ RmDone \/ RmFail

Next ==
  \/ \E c \in Calls : Begin(c) \/ Continue(c)
  \/ \E i \in Ids : StopNotRunning(i) \/ Release(i) \/ Age(i)
  \/ \E p \in Procs : ProcUp(p) \/ ProcExit(p)
  \/ Collect

(* Timers fire and awaits settle: every one of them has a deadline (health *)
(* and stop timeouts, the startup deadline) or is file I/O.                *)
Fairness ==
  /\ \A c \in Calls : WF_vars(Continue(c))
  /\ \A i \in Ids : WF_vars(Age(i))
  /\ WF_vars(Collect)

Spec == Init /\ [][Next]_vars
FairSpec == Spec /\ Fairness
-----------------------------------------------------------------------------
(* Whatever the clients do.                                                *)

(* What bridge.query and the event handlers rely on: a READY entry is in   *)
(* the registry, has a process to talk to, and the process is its own.     *)
(* stopRuntime and dispose() clear `running' in the stretch that leaves    *)
(* the state READY, even when a launch finishes while they wait.           *)
ReadyHasRuntime ==
  \A i \in Ids : state[i] = "READY" =>
    /\ i \in registered
    /\ running[i] # None
    /\ host[running[i]] = i

(* The collector's validation is worth its await: from the moment it        *)
(* starts to remove a root until the entry is gone, no handler that still  *)
(* holds the entry can bring the runtime back, and none points to a        *)
(* process in it.                                                          *)
DeletionIsQuiet ==
  \A i \in Ids : state[i] \in {"DELETING", "DELETED"} =>
    running[i] = None /\ InFlight(i) = {}

(* Agents cannot start DELETING (state-machines.md): a runtime begins to   *)
(* be deleted only out of a whole retention period, in a sweep, and a      *)
(* registered runtime leaves the registry only after retention as well.    *)
DeletionAfterRetention ==
  [][\A i \in Ids :
       /\ state[i] # "DELETING" /\ state'[i] = "DELETING" =>
            state[i] = "RETENTION" /\ i \in aged /\ running[i] = None
       /\ i \in registered /\ i \notin registered' =>
            state[i] = "DELETING" \/ i \in aged]_vars

(* The await that bounds the ready gate is bounded itself: a runtime does  *)
(* not stay STARTING, however Paper behaves.                               *)
LaunchSettles == \A i \in Ids : state[i] = "STARTING" ~> state[i] # "STARTING"

-----------------------------------------------------------------------------
(* What makes them inductive.                                              *)

HostedBy(p, i) == p \in Procs /\ proc[p] # "unborn" /\ host[p] = i

(* A request works on a registered runtime, with a process of it; an entry *)
(* points to a process of its own.                                         *)
CallsWired ==
  \A c \in Calls :
    /\ calls[c].pc \notin {"idle", "creating"} => calls[c].id \in registered
    /\ calls[c].pc \in {"reading", "gating", "launched", "stopping", "disposing"} =>
         HostedBy(calls[c].proc, calls[c].id)
RunningWired == \A i \in Ids : running[i] # None => HostedBy(running[i], i)

(* Only the collector takes an entry out of the registry.                  *)
RegisteredUntilCollected ==
  \A i \in Ids :
    i \in registered \/ state[i] \in {"UNBORN", "RETENTION", "DELETING", "DELETED"}

(* Once the retention period is over, no request works on the runtime, so  *)
(* that what the sweep saw before its awaits still holds after them.       *)
AgedIsQuiet == \A i \in aged : state[i] = "RETENTION" /\ InFlight(i) = {}
SweepIsQuiet ==
  /\ \A i \in sweep.due :
       /\ state[i] \in {"RETENTION", "DELETING", "DELETED"}
       /\ state[i] = "RETENTION" => i \in aged
       /\ InFlight(i) = {}
  /\ sweep.rm # None =>
       sweep.rm \in sweep.due \ sweep.todo /\ state[sweep.rm] = "DELETING"

IInv ==
  /\ TypeOK
  /\ CallsWired
  /\ RunningWired
  /\ RegisteredUntilCollected
  /\ AgedIsQuiet
  /\ SweepIsQuiet
  /\ ReadyHasRuntime
  /\ DeletionIsQuiet

-----------------------------------------------------------------------------
(* With clients that wait for one answer before they send the next request *)
(* about the same runtime.                                                 *)

(* No Paper process is forgotten: each live one is waited for by its       *)
(* launch, or its entry points to it and can still be stopped.             *)
Watched(p) ==
  \/ \E c \in Calls : calls[c].pc \in {"reading", "gating"} /\ calls[c].proc = p
  \/ running[host[p]] = p /\ state[host[p]] \in {"READY", "STOPPING"}
NoForgottenProcess == \A p \in Procs : Alive(p) => Watched(p)

(* A live process never runs in a removed directory, and a runtime has at  *)
(* most one of them: the world and its session lock are not shared.        *)
OneProcessPerRoot ==
  \A p \in Procs : Alive(p) =>
    /\ host[p] \in dir
    /\ \A q \in Procs : Alive(q) /\ host[q] = host[p] => p = q

(* Nobody loses a process, and no two share a directory.                   *)
ProcessesAreHeld == NoForgottenProcess /\ OneProcessPerRoot

(* What makes it inductive: a runtime has one request at most, which stands *)
(* where its state says it does; and the directory of a runtime that is    *)
(* not over has its marker.                                                *)
OneRequest ==
  \A c, d \in Calls : calls[c].id # None /\ calls[c].id = calls[d].id => c = d
RequestsMatch ==
  \A c \in Calls :
    LET i == calls[c].id
        pc == calls[c].pc
    IN
    /\ pc \in {"idle", "creating"} => i = None
    /\ pc = "detecting" => state[i] = "CREATED"
    /\ pc \in {"reading", "gating"} => state[i] = "STARTING"
    /\ pc \in {"launched", "disposing"} => state[i] = "READY" /\ running[i] = calls[c].proc
    /\ pc = "stopping" => state[i] = "STOPPING" /\ running[i] = calls[c].proc
    /\ pc = "discarding" => state[i] \in {"RELEASED", "RETENTION"}
StatesMatch ==
  \A i \in Ids :
    /\ state[i] = "STARTING" => \E c \in Calls : calls[c].id = i /\ calls[c].pc \in {"reading", "gating"}
    /\ state[i] = "STOPPING" => \E c \in Calls : calls[c].id = i /\ calls[c].pc = "stopping"
    /\ running[i] # None => state[i] \in {"READY", "STOPPING"}
    /\ state[i] \in ActiveStates => i \in marked
Hosted == \A p \in Procs : Alive(p) => host[p] \in Ids
SerialInv == OneRequest /\ RequestsMatch /\ StatesMatch /\ NoForgottenProcess /\ Hosted

(* The runtime diagram of state-machines.md, with DELETE_VALIDATION and a  *)
(* STARTING whose spawn fails passed through within one stretch, FAILED    *)
(* named CRASHED, and dispose(), which skips STOPPING and passes STOPPED   *)
(* within one stretch.                                                     *)
Edges ==
  { <<"UNBORN", "CREATED">>, <<"CREATED", "STARTING">>, <<"CREATED", "CRASHED">>,
    <<"STARTING", "READY">>, <<"STARTING", "CRASHED">>, <<"READY", "STOPPING">>,
    <<"READY", "RELEASED">>, <<"STOPPING", "STOPPED">>, <<"STOPPED", "RELEASED">>,
    <<"CRASHED", "RELEASED">>, <<"RELEASED", "RETENTION">>,
    <<"RETENTION", "DELETING">>, <<"DELETING", "DELETED">> }
DocumentedTransitions ==
  [][\A i \in Ids : state'[i] # state[i] => <<state[i], state'[i]>> \in Edges]_vars

(* A released runtime is collected: it leaves the registry, unless the     *)
(* removal of its directory failed and left it DELETING, or half removed   *)
(* and without the marker that the validation asks for.                    *)
ReleasedIsCollected ==
  \A i \in Ids : state[i] = "RELEASED" ~>
    \/ i \notin registered
    \/ state[i] = "DELETING" /\ sweep.rm # i
    \/ i \in dir \ marked

-----------------------------------------------------------------------------
(* The quota is looked at before the image is prepared and never again, so *)
(* that requests which create at the same time get past it together: the   *)
(* runtimes that are active or being prepared exceed it by one for every   *)
(* request in flight beside the last, and by no more, although a launch    *)
(* that is under way makes a released runtime active again.                *)
QuotaHolds ==
  ActiveCount + Cardinality(Creating) <= MaxConcurrent + Cardinality(Calls) - 1

-----------------------------------------------------------------------------
(* What the documentation says and the code does not do.                   *)

(* state-machines.md has no way from RELEASED but RETENTION, none from     *)
(* STOPPED but RELEASED: a runtime that is over never runs again.          *)
NoResurrection ==
  [][\A i \in Ids : state[i] \in {"STOPPED"} \cup ReleasedStates => state'[i] # "READY"]_vars
=============================================================================
