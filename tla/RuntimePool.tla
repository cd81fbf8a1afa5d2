---------------------------- MODULE RuntimePool ----------------------------
(***************************************************************************)
(* The pool of running runtimes (runtime-pool.ts) on top of the runtimes'  *)
(* lifecycle: pool.acquire attaches to a runtime or launches it, the pool  *)
(* stops and releases what it evicts.  The pool's entries live beside the  *)
(* registry's and name a runtime by its image id; nothing but the calls    *)
(* below keeps the two in step.                                            *)
(*                                                                         *)
(* pool.acquire of an id that the registry does not know creates a runtime *)
(* under a new id and then fails: for the state that is a runtime.create.  *)
(***************************************************************************)
EXTENDS RuntimeLifecycle

CONSTANTS
  MaxPoolSize,    \* maxPoolSize
  MaxReuseCount,  \* maxReuseCount (10)
  Polite          \* clients do not stop or release a pooled runtime behind
                  \* the pool's back, nor acquire one that is held

ASSUME PoolAssumption ==
  /\ MaxPoolSize \in Nat
  /\ MaxReuseCount \in Nat \ {0}
  /\ Polite \in BOOLEAN

VARIABLE pool  \* the entries of the pool's map

poolVars == <<vars, pool>>

Entries == 1..MaxPoolSize
Free == [state |-> "FREE", id |-> None, reuse |-> 0]
EntryRecords ==
  [state : {"FREE", "IDLE", "ACQUIRED"}, id : Ids \cup {None}, reuse : 0..(MaxReuseCount - 1)]

PoolTypeOK == pool \in [Entries -> EntryRecords]

EntriesOf(i) == {e \in Entries : pool[e].state # "FREE" /\ pool[e].id = i}
IdleOf(i) == {e \in EntriesOf(i) : pool[e].state = "IDLE"}
Held(i) == EntriesOf(i) # IdleOf(i)
Vacant == {e \in Entries : pool[e].state = "FREE"}

PoolInit == Init /\ pool = [e \in Entries |-> Free]

MayAcquire(i) == Addressable(i) /\ (Polite => ~ Held(i))

-----------------------------------------------------------------------------
(* pool.acquire.  The pool refuses when it is full, be it of idle entries. *)

Enter(i) ==
  \E e \in Vacant :
    /\ \A f \in Vacant : e <= f
    /\ pool' = [pool EXCEPT ![e] = [state |-> "ACQUIRED", id |-> i, reuse |-> 0]]

(* An idle entry is handed out again; what became of its runtime is not    *)
(* looked at.                                                              *)
AcquireIdle(i) ==
  /\ MayAcquire(i)
  /\ Vacant # {}
  /\ \E e \in IdleOf(i) : pool' = [pool EXCEPT ![e].state = "ACQUIRED"]
  /\ UNCHANGED vars

\* Mutant: idle entries are not looked for.
AcquireRunningAgain(i) ==
  /\ MayAcquire(i)
  /\ running[i] # None
  /\ Enter(i)
  /\ UNCHANGED vars

(* A runtime with a process is attached to, whatever its state.            *)
AcquireRunning(i) ==
  /\ MayAcquire(i)
  /\ IdleOf(i) = {}
  /\ running[i] # None
  /\ Enter(i)
  /\ UNCHANGED vars

AcquireLaunch(c, i) ==
  /\ MayAcquire(i)
  /\ IdleOf(i) = {}
  /\ running[i] = None
  /\ LaunchBegin(c, i, "pool")
  /\ UNCHANGED pool

(* The launch is through.  A full pool lets the running runtime go.        *)
AcquireLaunched(c) ==
  /\ calls[c].pc = "launched"
  /\ calls[c].op = "pool"
  /\ IF Vacant = {} THEN UNCHANGED pool ELSE Enter(calls[c].id)
  /\ Return(c)
  /\ UNCHANGED <<state, running, registered, files, aged, proc, host, sweep>>

-----------------------------------------------------------------------------
(* The pool's handler of `expired' and `evicted': stopRuntime and          *)
(* releaseRuntime start in one stretch.  Where the first goes on to wait   *)
(* for the process, the second finds STOPPING and is refused.              *)
Reap(i) ==
  \/ /\ i \in registered /\ state[i] \in {"READY", "STARTING"} /\ running[i] # None
     /\ \E c \in Calls : calls[c] = Idle /\ Park(c, "stopping", "pool", i, running[i])
     /\ SetState(i, "STOPPING")
  \/ /\ i \in registered
     /\ \/ state[i] \in {"STOPPED", "CRASHED"}
        \/ state[i] \in {"READY", "STARTING"} /\ running[i] = None
     /\ SetState(i, "RELEASED")
     /\ UNCHANGED calls
  \/ /\ i \notin registered \/ state[i] \notin {"READY", "STARTING", "STOPPED", "CRASHED"}
     /\ UNCHANGED <<state, aged, calls>>

Remove(e) ==
  /\ pool' = [pool EXCEPT ![e] = Free]
  /\ Reap(pool[e].id)
  /\ UNCHANGED <<running, registered, files, proc, host, sweep>>

(* pool.release: back to idle, or out after its last use.                  *)
ReleaseEntry(e) ==
  /\ pool[e].state = "ACQUIRED"
  /\ IF pool[e].reuse + 1 >= MaxReuseCount
     THEN Remove(e)
     ELSE /\ pool' = [pool EXCEPT ![e].state = "IDLE", ![e].reuse = @ + 1]
          /\ UNCHANGED vars

(* pool.evict, also of an entry in use; pool.reset evicts one entry after  *)
(* the other.                                                              *)
Evict(e) ==
  /\ pool[e].state # "FREE"
  /\ Remove(e)

\* Mutant: the expired entry stays in the map.
ExpireKeeping(e) ==
  /\ pool[e].state = "IDLE"
  /\ Reap(pool[e].id)
  /\ UNCHANGED <<pool, running, registered, files, proc, host, sweep>>

(* The idle check, every 30 seconds.                                       *)
Expire(e) ==
  /\ pool[e].state = "IDLE"
  /\ Remove(e)

-----------------------------------------------------------------------------
(* The lifecycle goes on; polite clients stop no runtime of the pool.      *)
Alone(i) == Polite => EntriesOf(i) = {}

LifecycleNext ==
  /\ \/ \E c \in Calls :
          \/ \E op \in {"create", "scenario"} : CreateBegin(c, op)
          \/ \E i \in Ids : LaunchBegin(c, i, "launch")
          \/ \E i \in Ids : Alone(i) /\ (StopBegin(c, i) \/ ReleaseDiscarding(c, i))
          \/ Continue(c)
     \/ \E i \in Ids : Alone(i) /\ (StopNotRunning(i) \/ Release(i))
     \/ \E i \in Ids : Age(i)
     \/ \E p \in Procs : ProcUp(p) \/ ProcExit(p)
     \/ Collect
  /\ UNCHANGED pool

PoolNext ==
  \/ LifecycleNext
  \/ \E i \in Ids : AcquireIdle(i) \/ AcquireRunning(i)
  \/ \E c \in Calls, i \in Ids : AcquireLaunch(c, i)
  \/ \E c \in Calls : AcquireLaunched(c)
  \/ \E e \in Entries : ReleaseEntry(e) \/ Evict(e) \/ Expire(e)

PoolSpec ==
  /\ PoolInit /\ [][PoolNext]_poolVars
  /\ \A c \in Calls : WF_poolVars(Continue(c) /\ UNCHANGED pool)
  /\ \A c \in Calls : WF_poolVars(AcquireLaunched(c))
  /\ \A i \in Ids : WF_poolVars(Age(i) /\ UNCHANGED pool)
  /\ WF_poolVars(Collect /\ UNCHANGED pool)

-----------------------------------------------------------------------------
(* With polite clients that wait for one answer per runtime, the pool and  *)
(* the registry agree: a pooled runtime is READY with a process of its own *)
(* (which may have crashed: nobody watches it), and is in the pool once.   *)
PooledIsReady ==
  \A i \in Ids : EntriesOf(i) # {} =>
    /\ state[i] = "READY"
    /\ running[i] # None
    /\ Cardinality(EntriesOf(i)) = 1

(* Nobody works on a pooled runtime while it is in the pool.               *)
PooledIsQuiet == \A i \in Ids : EntriesOf(i) # {} => InFlight(i) = {}
PooledOnce ==
  \A d, e \in Entries :
    /\ pool[e].state # "FREE" => pool[e].id \in Ids /\ state[pool[e].id] = "READY"
    /\ pool[d].state # "FREE" /\ pool[e].state # "FREE" /\ pool[d].id = pool[e].id => d = e
PoliteInv == PoolTypeOK /\ IInv /\ SerialInv /\ PooledOnce /\ PooledIsQuiet

(* What the pool stops comes to an end, however Paper takes it.            *)
EvictionStops ==
  \A p \in Procs :
    Alive(p) /\ state[host[p]] = "STOPPING" ~> ~ Alive(p)

\* Under the pool too, a launch comes to an end and what is released is deleted
\* (LaunchSettles, ReleasedIsCollected: launchPaper's deadline, the collector's
\* sweeps).
RuntimesSettle == LaunchSettles /\ ReleasedIsCollected
=============================================================================
