------------------------------- MODULE McpTools -------------------------------
(***************************************************************************)
(* The agent's tools over the runtimes: a tool is a handler of the MCP     *)
(* server that makes one or two IPC calls, each with a time-out of its     *)
(* own, and turns what comes back into an answer.  The Supervisor's        *)
(* handlers are reduced to what they do to the state of a runtime's        *)
(* registry entry (RuntimeLifecycle has them in detail); they go on when   *)
(* the MCP server has given up on them.                                    *)
(***************************************************************************)
EXTENDS Naturals, FiniteSets

CONSTANTS
  Slots,          \* the agents' MCP servers, each with one tool call at a time
  MaxRuntimes,    \* bound: runtimes registered in one behaviour
  MaxConcurrent   \* the quota of the registry

ASSUME ToolsAssumption == MaxRuntimes \in Nat /\ MaxConcurrent \in Nat

VARIABLES
  profile,   \* MCPDEV_TOOL_PROFILE of each MCP server
  tool,      \* each tool call, until the agent has its answer
  handler,   \* the Supervisor's side of the IPC call that a tool makes or made
  state,     \* entry.state of each runtime, UNBORN before it is registered
  running,   \* the runtimes whose entry.running is not null
  pooled,    \* the runtimes that the pool has an entry for, idle or acquired
  reaping,   \* the runtimes that the pool is stopping of its own accord
  twice,     \* history: the runtimes launched a second time
  known,     \* the runtimes whose id the agents have been told
  unheard    \* history: the runtimes whose creating or launching call was given up

Pool == <<running, pooled, reaping, twice>>
toolsVars == <<profile, tool, handler, state, Pool, known, unheard>>

None == "none"
NoId == 0
Ids == 1..MaxRuntimes

-----------------------------------------------------------------------------
(* The tools: what the profile lists, what index.ts registers, and the     *)
(* first IPC method of each.  Of the debug profile's tools that nothing is *)
(* registered for, runtime_release stands for all.                         *)

Profiles == {"developer", "debug"}
PoolTools == {"pool_acquire", "pool_release"}
OfDeveloper == {"plugin_launch", "plugin_stop", "operation_cancel", "operation_get", "scenario_run"}
Registered == OfDeveloper \cup PoolTools
Names == Registered \cup {"runtime_release"}
Listed(c) == IF profile[c] = "developer" THEN OfDeveloper ELSE PoolTools \cup {"runtime_release"}
OfRuntime == Names \ {"plugin_launch", "scenario_run"}

FirstMethod(name) ==
  CASE name = "plugin_launch" -> "runtime.create"
    [] name = "scenario_run" -> "scenario.run"
    [] name = "operation_get" -> "runtime.get"
    [] name = "pool_acquire" -> "pool.acquire"
    [] name = "pool_release" -> "pool.release"
    [] OTHER -> "runtime.stop"
Methods == {"runtime.create", "runtime.launch", "runtime.stop", "runtime.release",
            "runtime.get", "scenario.run", "pool.acquire", "pool.release"}

(* Codes of the error catalogue, and two that are thrown without being in  *)
(* it: SUPERVISOR_INTERNAL_ERROR stands for all of the Supervisor's.       *)
Catalogue == {"RUNTIME_QUOTA_EXCEEDED", "RUNTIME_NOT_FOUND", "RUNTIME_INVALID_STATE",
              "RUNTIME_NOT_RUNNING", "RUNTIME_CRASHED", "ASSERTION_FAILED",
              "OPERATION_NOT_CANCELLABLE", "CAPABILITY_UNAVAILABLE", "UNKNOWN_TOOL",
              "SUPERVISOR_UNAVAILABLE"}
Codes == Catalogue \cup {"SUPERVISOR_INTERNAL_ERROR", "SUPERVISOR_TIMEOUT"}

(* toolError looks the code up; for one that is not there it throws.       *)
ToolError(code) == IF code \in Catalogue THEN code ELSE "thrown"
Answers == Catalogue \cup {"success", "thrown"}

-----------------------------------------------------------------------------
ActiveStates == {"CREATED", "STARTING", "READY", "STOPPING", "STOPPED", "CRASHED"}
States == ActiveStates \cup {"UNBORN", "RELEASED", "DELETED"}
Found(i) == i \in Ids /\ state[i] \notin {"UNBORN", "DELETED"}
ActiveCount == Cardinality({i \in Ids : state[i] \in ActiveStates})

NoTool == [name |-> None, pc |-> "idle", id |-> NoId, answer |-> None]
NoHandler == [method |-> None, pc |-> "none", id |-> NoId, code |-> None]

ToolRecords ==
  [name : Names \cup {None}, pc : {"idle", "asking", "told"},
   id : Ids \cup {NoId}, answer : Answers \cup {None}]
HandlerRecords ==
  [method : Methods \cup {None},
   pc : {"none", "sent", "creating", "created", "detecting", "gating", "stopping", "running",
         "replied"},
   id : Ids \cup {NoId}, code : Codes \cup {"ok", None}]

ToolsTypeOK ==
  /\ profile \in [Slots -> Profiles]
  /\ tool \in [Slots -> ToolRecords]
  /\ handler \in [Slots -> HandlerRecords]
  /\ state \in [Ids -> States]
  /\ running \subseteq Ids /\ pooled \subseteq Ids /\ reaping \subseteq Ids /\ twice \subseteq Ids
  /\ known \subseteq Ids
  /\ unheard \subseteq Ids

ToolsInit ==
  /\ profile \in [Slots -> Profiles]
  /\ tool = [c \in Slots |-> NoTool]
  /\ handler = [c \in Slots |-> NoHandler]
  /\ state = [i \in Ids |-> "UNBORN"]
  /\ running = {} /\ pooled = {} /\ reaping = {} /\ twice = {}
  /\ known = {}
  /\ unheard = {}

-----------------------------------------------------------------------------
(* The MCP server                                                          *)

Ask(c, method, i) ==
  handler' = [handler EXCEPT ![c] = [NoHandler EXCEPT !.method = method, !.pc = "sent", !.id = i]]

Tell(c, i, answer) ==
  tool' = [tool EXCEPT ![c].pc = "told", ![c].id = i, ![c].answer = answer]

(* A tool of the profile that nothing is registered for has an answer of   *)
(* its own; the agent names only runtimes that it knows.                   *)
CallTool(c, name, i) ==
  /\ tool[c] = NoTool
  /\ handler[c] = NoHandler
  /\ name \in Listed(c)
  /\ IF name \in OfRuntime THEN i \in known ELSE i = NoId
  /\ IF name \in Registered
     THEN /\ tool' = [tool EXCEPT ![c] = [NoTool EXCEPT !.name = name, !.pc = "asking", !.id = i]]
          /\ Ask(c, FirstMethod(name), i)
     ELSE /\ tool' = [tool EXCEPT ![c] = [NoTool EXCEPT !.name = name, !.pc = "told", !.id = i,
                                            !.answer = ToolError("CAPABILITY_UNAVAILABLE")]]
          /\ UNCHANGED handler
  /\ UNCHANGED <<profile, state, Pool, known, unheard>>

(* supervisor() is null: no call is made.                                  *)
NotConnected(c, name) ==
  /\ tool[c] = NoTool
  /\ handler[c] = NoHandler
  /\ name \in Listed(c) \cap Registered
  /\ name \in OfRuntime => known # {}
  /\ tool' = [tool EXCEPT ![c] = [NoTool EXCEPT !.name = name, !.pc = "told",
                                    !.answer = ToolError("SUPERVISOR_UNAVAILABLE")]]
  /\ UNCHANGED <<profile, handler, state, Pool, known, unheard>>

Replied(c, name, method) ==
  /\ tool[c].pc = "asking" /\ handler[c].pc = "replied"
  /\ tool[c].name = name /\ handler[c].method = method

(* plugin_launch: the id of the runtime just created is kept for the       *)
(* second call, and told only with its success.                            *)
Created(c) ==
  /\ Replied(c, "plugin_launch", "runtime.create")
  /\ handler[c].code = "ok"
  /\ tool' = [tool EXCEPT ![c].id = handler[c].id]
  /\ Ask(c, "runtime.launch", handler[c].id)
  /\ UNCHANGED <<profile, state, Pool, known, unheard>>

\* Mutant: the answer names the server instance only.
LaunchedUnnamed(c) ==
  /\ Replied(c, "plugin_launch", "runtime.launch")
  /\ handler[c].code = "ok"
  /\ Tell(c, handler[c].id, "success")
  /\ handler' = [handler EXCEPT ![c] = NoHandler]
  /\ UNCHANGED <<profile, state, Pool, known, unheard>>

Launched(c) ==
  /\ Replied(c, "plugin_launch", "runtime.launch")
  /\ handler[c].code = "ok"
  /\ Tell(c, handler[c].id, "success")
  /\ known' = known \cup {handler[c].id}
  /\ handler' = [handler EXCEPT ![c] = NoHandler]
  /\ UNCHANGED <<profile, state, Pool, unheard>>

\* Mutant: operation_cancel answers when the runtime has stopped.
StoppedEnough(c) ==
  /\ Replied(c, "operation_cancel", "runtime.stop")
  /\ handler[c].code = "ok"
  /\ Tell(c, tool[c].id, "success")
  /\ Ask(c, "runtime.release", tool[c].id)
  /\ UNCHANGED <<profile, state, Pool, known, unheard>>

(* operation_cancel: stopped, now release it.                              *)
Stopped(c) ==
  /\ Replied(c, "operation_cancel", "runtime.stop")
  /\ handler[c].code = "ok"
  /\ Ask(c, "runtime.release", tool[c].id)
  /\ UNCHANGED <<profile, tool, state, Pool, known, unheard>>

Close(c) == handler' = [handler EXCEPT ![c] = NoHandler]

Succeed(c) ==
  /\ handler[c].code = "ok"
  /\ Tell(c, tool[c].id, "success")
  /\ Close(c)
  /\ UNCHANGED <<profile, state, Pool, known, unheard>>

StopDone(c) == Replied(c, "plugin_stop", "runtime.stop") /\ Succeed(c)
GetDone(c) == Replied(c, "operation_get", "runtime.get") /\ Succeed(c)
Acquired(c) == Replied(c, "pool_acquire", "pool.acquire") /\ Succeed(c)
PutBack(c) == Replied(c, "pool_release", "pool.release") /\ Succeed(c)
Cancelled(c) == Replied(c, "operation_cancel", "runtime.release") /\ Succeed(c)

Fail(c, code) ==
  /\ Tell(c, tool[c].id, ToolError(code))
  /\ Close(c)
  /\ UNCHANGED <<profile, state, Pool, known, unheard>>

(* A scenario that failed is a reply with a code, not an error: the answer *)
(* is the same.                                                            *)
ScenarioDone(c) ==
  /\ Replied(c, "scenario_run", "scenario.run")
  /\ Succeed(c) \/ (handler[c].code # "ok" /\ Fail(c, handler[c].code))

(* operation_cancel: what can neither be stopped nor released.             *)
CancelFailed(c) ==
  /\ \E method \in {"runtime.stop", "runtime.release"} : Replied(c, "operation_cancel", method)
  /\ handler[c].code # "ok"
  /\ Fail(c, IF handler[c].code = "RUNTIME_INVALID_STATE" THEN "OPERATION_NOT_CANCELLABLE"
             ELSE handler[c].code)

(* The catch block of the other tools.                                     *)
Failed(c) ==
  /\ tool[c].name \in {"plugin_launch", "plugin_stop", "operation_get"} \cup PoolTools
  /\ tool[c].pc = "asking" /\ handler[c].pc = "replied"
  /\ handler[c].code # "ok"
  /\ Fail(c, handler[c].code)

(* The IPC call's timer, or a connection that breaks, with a request that  *)
(* is never read.                                                          *)
GiveUp(c) ==
  /\ tool[c].pc = "asking"
  /\ \E code \in {"SUPERVISOR_TIMEOUT", "SUPERVISOR_UNAVAILABLE"} :
       Tell(c, tool[c].id, ToolError(code))
  /\ \/ handler[c].pc \in {"sent", "replied"} /\ handler' = [handler EXCEPT ![c] = NoHandler]
     \/ handler[c].pc # "replied" /\ UNCHANGED handler
  /\ unheard' = IF handler[c].method \in {"runtime.create", "runtime.launch"}
                THEN unheard \cup ({handler[c].id} \ {NoId}) ELSE unheard
  /\ UNCHANGED <<profile, state, Pool, known>>

(* The agent has its answer.                                               *)
Return(c) ==
  /\ tool[c].pc = "told"
  /\ handler[c] = NoHandler
  /\ tool' = [tool EXCEPT ![c] = NoTool]
  /\ UNCHANGED <<profile, handler, state, Pool, known, unheard>>

(* resources/list: the runtimes of runtime.list.  While the Supervisor     *)
(* cannot be reached the list is empty, which changes nothing here.        *)
ListResources ==
  /\ known' = {i \in Ids : Found(i)} \cup known
  /\ UNCHANGED <<profile, tool, handler, state, Pool, unheard>>

-----------------------------------------------------------------------------
(* The Supervisor                                                          *)

At(c, method, pc) == handler[c].method = method /\ handler[c].pc = pc

(* The handler ends; nobody may be waiting for it any more.                *)
Reply(c, code) ==
  handler' = [handler EXCEPT ![c] =
                IF tool[c].pc = "asking" THEN [@ EXCEPT !.pc = "replied", !.code = code] ELSE NoHandler]
Await(c, pc) == handler' = [handler EXCEPT ![c].pc = pc]
SetState(i, s) == state' = [state EXCEPT ![i] = s]
Mcp == <<profile, tool, known>>

(* requireState: NOT_FOUND, INVALID_STATE.                                 *)
RequireState(c, expected) ==
  LET i == handler[c].id IN
  /\ ~Found(i) \/ state[i] \notin expected
  /\ Reply(c, IF Found(i) THEN "RUNTIME_INVALID_STATE" ELSE "RUNTIME_NOT_FOUND")
  /\ UNCHANGED <<state, Pool, unheard, Mcp>>

(* launchRuntime is called: by plugin_launch's second call, by a scenario  *)
(* for the runtime it has created, by poolAcquire for one that is not up.  *)
Launching(c) ==
  \/ At(c, "runtime.launch", "sent") \/ At(c, "scenario.run", "created")
  \/ At(c, "pool.acquire", "sent") /\ Found(handler[c].id) /\ handler[c].id \notin running

RefuseState(c) ==
  \/ At(c, "runtime.stop", "sent") /\ RequireState(c, {"READY", "STARTING"})
  \/ At(c, "runtime.release", "sent") /\ RequireState(c, {"STOPPED", "CRASHED"})
  \/ Launching(c) /\ RequireState(c, {"CREATED"})

Creates(c) == handler[c].method \in {"runtime.create", "scenario.run", "pool.acquire"}

(* assertQuota, for runtime.create and scenario.run, and for poolAcquire   *)
(* of a runtime that is no longer registered.                              *)
CreateBegin(c) ==
  /\ Creates(c) /\ handler[c].pc = "sent"
  /\ handler[c].method = "pool.acquire" => ~Found(handler[c].id)
  /\ IF ActiveCount >= MaxConcurrent THEN Reply(c, "RUNTIME_QUOTA_EXCEEDED")
     ELSE Await(c, "creating")
  /\ UNCHANGED <<state, Pool, unheard, Mcp>>

(* The image exists and is registered, or something failed before.         *)
(* poolAcquire then looks for the id it was given, which is not the new.   *)
CreateEnd(c) ==
  /\ Creates(c) /\ handler[c].pc = "creating"
  /\ \/ \E i \in Ids :
          /\ state[i] = "UNBORN" /\ \A j \in Ids : j < i => state[j] # "UNBORN"
          /\ SetState(i, "CREATED")
          /\ unheard' = IF tool[c].pc = "asking" THEN unheard ELSE unheard \cup {i}
          /\ IF handler[c].method = "pool.acquire" THEN Reply(c, "RUNTIME_NOT_FOUND")
             ELSE handler' = [handler EXCEPT ![c] =
               IF handler[c].method = "scenario.run" THEN [@ EXCEPT !.pc = "created", !.id = i]
               ELSE IF tool[c].pc = "asking" THEN [@ EXCEPT !.pc = "replied", !.id = i, !.code = "ok"]
               ELSE NoHandler]
     \/ Reply(c, "SUPERVISOR_INTERNAL_ERROR") /\ UNCHANGED <<state, unheard>>
  /\ UNCHANGED <<Pool, Mcp>>

LaunchBegin(c) ==
  /\ Launching(c)
  /\ Found(handler[c].id) /\ state[handler[c].id] = "CREATED"
  /\ Await(c, "detecting")
  /\ UNCHANGED <<state, Pool, unheard, Mcp>>

(* Java is found and Paper spawned, or not.  The state is not looked at    *)
(* again: another launch may have come this far meanwhile.                 *)
Spawn(c) ==
  /\ handler[c].pc = "detecting"
  /\ \/ /\ SetState(handler[c].id, "STARTING") /\ Await(c, "gating")
        /\ twice' = IF state[handler[c].id] = "CREATED" THEN twice ELSE twice \cup {handler[c].id}
     \/ Reply(c, "SUPERVISOR_INTERNAL_ERROR") /\ UNCHANGED <<state, twice>>
  /\ UNCHANGED <<running, pooled, reaping, unheard, Mcp>>

(* RuntimePool.acquire with no idle entry: a new one, unless it is full.   *)
JoinPool(c) ==
  \/ Reply(c, "ok") /\ pooled' = pooled \cup {handler[c].id}
  \/ pooled # {} /\ Reply(c, "SUPERVISOR_INTERNAL_ERROR") /\ UNCHANGED pooled

(* The ready gate, whatever the entry has become; a scenario then runs.    *)
Gate(c) ==
  /\ handler[c].pc = "gating"
  /\ \/ /\ SetState(handler[c].id, "READY") /\ running' = running \cup {handler[c].id}
        /\ CASE handler[c].method = "scenario.run" -> Await(c, "running") /\ UNCHANGED pooled
             [] handler[c].method = "pool.acquire" -> JoinPool(c)
             [] OTHER -> Reply(c, "ok") /\ UNCHANGED pooled
     \/ SetState(handler[c].id, "CRASHED") /\ Reply(c, "RUNTIME_CRASHED") /\ UNCHANGED <<running, pooled>>
  /\ UNCHANGED <<reaping, twice, unheard, Mcp>>

(* dispose(): the runtime of a scenario is stopped, unless an agent has    *)
(* stopped it, and released.  Between the end of stopPaper, whose failure  *)
(* is ignored, and the release no request is served.                       *)
Dispose(i) ==
  /\ IF state[i] \in ActiveStates THEN SetState(i, "RELEASED") ELSE UNCHANGED state
  /\ running' = running \ {i}

\* Mutant: only a scenario that passed disposes of its runtime.
ScenarioEndHappy(c) ==
  /\ At(c, "scenario.run", "running")
  /\ \/ Dispose(handler[c].id) /\ Reply(c, "ok")
     \/ Reply(c, "ASSERTION_FAILED") /\ UNCHANGED <<state, running>>
  /\ UNCHANGED <<pooled, reaping, twice, unheard, Mcp>>

(* The scenario has ended, well or not, and its runtime is disposed of.    *)
ScenarioEnd(c) ==
  /\ At(c, "scenario.run", "running")
  /\ Dispose(handler[c].id)
  /\ \E code \in {"ok", "ASSERTION_FAILED"} : Reply(c, code)
  /\ UNCHANGED <<pooled, reaping, twice, unheard, Mcp>>

StopBegin(c) ==
  LET i == handler[c].id IN
  /\ At(c, "runtime.stop", "sent")
  /\ Found(i) /\ state[i] \in {"READY", "STARTING"}
  /\ IF i \in running THEN SetState(i, "STOPPING") /\ Await(c, "stopping")
     ELSE SetState(i, "STOPPED") /\ Reply(c, "RUNTIME_NOT_RUNNING")
  /\ UNCHANGED <<Pool, unheard, Mcp>>

StopEnd(c) ==
  /\ handler[c].pc = "stopping"
  /\ SetState(handler[c].id, "STOPPED") /\ running' = running \ {handler[c].id}
  /\ Reply(c, "ok")
  /\ UNCHANGED <<pooled, reaping, twice, unheard, Mcp>>

Release(c) ==
  /\ At(c, "runtime.release", "sent")
  /\ Found(handler[c].id) /\ state[handler[c].id] \in {"STOPPED", "CRASHED"}
  /\ SetState(handler[c].id, "RELEASED")
  /\ Reply(c, "ok")
  /\ UNCHANGED <<Pool, unheard, Mcp>>

GetRuntime(c) ==
  /\ At(c, "runtime.get", "sent")
  /\ Reply(c, IF Found(handler[c].id) THEN "ok" ELSE "RUNTIME_NOT_FOUND")
  /\ UNCHANGED <<state, Pool, unheard, Mcp>>

(* poolAcquire of a runtime with an idle entry, which is reused, or of one *)
(* that is up.  RuntimePool has the entries one by one; a full pool lends  *)
(* not even an idle one.                                                   *)
PoolAcquire(c) ==
  LET i == handler[c].id IN
  /\ At(c, "pool.acquire", "sent")
  /\ \/ /\ i \in pooled
        /\ \/ Reply(c, IF Found(i) THEN "ok" ELSE "RUNTIME_NOT_FOUND")
           \/ Found(i) /\ Reply(c, "SUPERVISOR_INTERNAL_ERROR")
        /\ UNCHANGED pooled
     \/ Found(i) /\ i \in running /\ JoinPool(c)
  /\ UNCHANGED <<state, running, reaping, twice, unheard, Mcp>>

(* An entry leaves the pool: stopRuntime and releaseRuntime are called     *)
(* side by side, and their errors are dropped.                             *)
Reap(i) ==
  /\ pooled' \in {pooled, pooled \ {i}}
  /\ \/ /\ state[i] \in {"READY", "STARTING"} /\ i \in running
        /\ SetState(i, "STOPPING") /\ reaping' = reaping \cup {i}
     \/ /\ state[i] \in {"STOPPED", "CRASHED"} \/ (state[i] \in {"READY", "STARTING"} /\ i \notin running)
        /\ SetState(i, "RELEASED") /\ UNCHANGED reaping
     \/ /\ state[i] \notin {"READY", "STARTING", "STOPPED", "CRASHED"}
        /\ UNCHANGED <<state, reaping>>

(* poolRelease: the entry is idle, or has been used too often; or there is *)
(* none, or it was not acquired.                                           *)
PoolRelease(c) ==
  /\ At(c, "pool.release", "sent")
  /\ \/ /\ handler[c].id \in pooled /\ Reply(c, "ok")
        /\ Reap(handler[c].id) \/ UNCHANGED <<state, pooled, reaping>>
     \/ /\ \E code \in {"UNKNOWN_TOOL", "SUPERVISOR_INTERNAL_ERROR"} : Reply(c, code)
        /\ UNCHANGED <<state, pooled, reaping>>
  /\ UNCHANGED <<running, twice, unheard, Mcp>>

(* The pool's timer: an entry that has been idle for too long.             *)
Expire(i) ==
  /\ i \in pooled /\ Reap(i)
  /\ UNCHANGED <<handler, running, twice, unheard, Mcp>>

(* Paper, stopped by the pool, has ended.  A runtime launched twice can be *)
(* stopped by it more than once.                                           *)
ReapEnd(i) ==
  /\ i \in reaping
  /\ SetState(i, "STOPPED") /\ running' = running \ {i}
  /\ reaping' = reaping \ {i} \/ (i \in twice /\ UNCHANGED reaping)
  /\ UNCHANGED <<handler, pooled, twice, unheard, Mcp>>

(* The garbage collector: only what was released, a retention period ago,  *)
(* which is longer than any call and any stop.                             *)
Collect(i) ==
  /\ state[i] = "RELEASED" /\ i \notin reaping
  /\ \A c \in Slots : handler[c].id # i
  /\ SetState(i, "DELETED")
  /\ UNCHANGED <<handler, Pool, unheard, Mcp>>

-----------------------------------------------------------------------------
McpServer(c) ==
  \/ Created(c) \/ Launched(c) \/ StopDone(c) \/ Stopped(c) \/ Cancelled(c) \/ GetDone(c)
  \/ Acquired(c) \/ PutBack(c) \/ ScenarioDone(c) \/ CancelFailed(c) \/ Failed(c)
HandlerStep(c) ==
  \/ RefuseState(c) \/ CreateBegin(c) \/ CreateEnd(c) \/ LaunchBegin(c) \/ Spawn(c) \/ Gate(c)
  \/ ScenarioEnd(c) \/ StopBegin(c) \/ StopEnd(c) \/ Release(c) \/ GetRuntime(c)
  \/ PoolAcquire(c) \/ PoolRelease(c)

ToolsNext ==
  \/ \E c \in Slots :
       \/ \E name \in Names :
            (\E i \in Ids \cup {NoId} : CallTool(c, name, i)) \/ NotConnected(c, name)
       \/ McpServer(c) \/ GiveUp(c) \/ Return(c)
       \/ HandlerStep(c)
  \/ ListResources
  \/ \E i \in Ids : Expire(i) \/ ReapEnd(i) \/ Collect(i)

ToolsSpec == ToolsInit /\ [][ToolsNext]_toolsVars

(* Both processes run and, from some time on, no call is given up; the     *)
(* agent looks for runtimes and keeps calling every tool of its profile    *)
(* that takes one.                                                         *)
Diligence ==
  /\ WF_toolsVars(ListResources)
  /\ <>[][\A c \in Slots : ~ GiveUp(c) /\ \A name \in Names : ~ NotConnected(c, name)]_toolsVars
  /\ \A c \in Slots :
       /\ WF_toolsVars(McpServer(c) \/ HandlerStep(c) \/ Return(c))
       /\ \A name \in OfRuntime, i \in Ids : SF_toolsVars(CallTool(c, name, i))
DiligentSpec == ToolsSpec /\ Diligence

-----------------------------------------------------------------------------
Ran == {"READY", "STOPPING", "STOPPED", "RELEASED", "DELETED"}
Told(c, name, answer) ==
  tool[c].pc = "told" /\ tool[c].name = name /\ tool[c].answer = answer

(* What a tool answers is so and stays so, whatever the other tools do to  *)
(* the same runtime meanwhile: a launched runtime can be named and was     *)
(* READY, a stopped one does not run, a cancelled one holds no quota, a    *)
(* launch that crashed left a CRASHED entry, and one refused by the quota  *)
(* left nothing (runtime.ts, operation.ts).  Of a runtime that was         *)
(* launched twice, which pool_acquire can do to one that plugin_launch or  *)
(* another pool_acquire is launching, no state can be relied on: the       *)
(* second launch goes through its states again, whatever was told.         *)
AnswersHoldTrue ==
  \A c \in Slots :
    LET i == tool[c].id IN
    /\ Told(c, "plugin_launch", "success") => i \in known
    /\ Told(c, "plugin_launch", "RUNTIME_QUOTA_EXCEEDED") => i = NoId
    /\ i \notin twice =>
         /\ Told(c, "plugin_launch", "success") => state[i] \in Ran
         /\ Told(c, "plugin_stop", "success") => state[i] \in Ran \ {"READY", "STOPPING"}
         /\ Told(c, "operation_cancel", "success") => state[i] \in {"RELEASED", "DELETED"}
         /\ Told(c, "plugin_launch", "RUNTIME_CRASHED") => state[i] = "CRASHED"

AtRest(i) ==
  \A c \in Slots : handler[c].id # i /\ (tool[c].pc = "asking" => tool[c].id # i)

(* A runtime that holds the quota and that no call is about is one whose   *)
(* id some agent has, or it never got READY, or its launch was given up:   *)
(* neither a scenario nor a launch that is answered leaves a server        *)
(* running that nobody knows of (runtime.ts, scenario.ts, dispose).        *)
NoneIsMislaid ==
  \A i \in Ids \ (known \cup unheard) :
    AtRest(i) /\ state[i] \in ActiveStates => state[i] \in {"CREATED", "CRASHED"}

(* The error catalogue's advice for RUNTIME_QUOTA_EXCEEDED: a runtime that *)
(* has ended gives its place up when plugin_stop and runtime_release are   *)
(* called for it.                                                          *)
QuotaIsFreed ==
  \A i \in Ids : state[i] \in {"STOPPED", "CRASHED"} ~> state[i] \notin ActiveStates

-----------------------------------------------------------------------------
(* What makes them inductive.                                              *)

(* Which calls a tool makes, and how far the handler of each comes.        *)
Pairs ==
  {<<"plugin_launch", "runtime.create">>, <<"plugin_launch", "runtime.launch">>,
   <<"plugin_stop", "runtime.stop">>, <<"operation_cancel", "runtime.stop">>,
   <<"operation_cancel", "runtime.release">>, <<"operation_get", "runtime.get">>,
   <<"scenario_run", "scenario.run">>, <<"pool_acquire", "pool.acquire">>,
   <<"pool_release", "pool.release">>}
Reaches(method) ==
  {"sent", "replied"} \cup
  CASE method = "runtime.create" -> {"creating"}
    [] method = "runtime.launch" -> {"detecting", "gating"}
    [] method = "scenario.run" -> {"creating", "created", "detecting", "gating", "running"}
    [] method = "pool.acquire" -> {"creating", "detecting", "gating"}
    [] method = "runtime.stop" -> {"stopping"}
    [] OTHER -> {}
RepliesOf(method) ==
  CASE method = "runtime.create" -> {"ok", "RUNTIME_QUOTA_EXCEEDED", "SUPERVISOR_INTERNAL_ERROR"}
    [] method = "runtime.launch" -> (Codes \cup {"ok"}) \ {"RUNTIME_QUOTA_EXCEEDED"}
    [] OTHER -> Codes \cup {"ok"}

CallMatches(c) ==
  LET t == tool[c]
      h == handler[c]
  IN
  /\ h.pc = "none" => h = NoHandler
  /\ h.pc # "none" => h.method \in Methods /\ h.pc \in Reaches(h.method)
  /\ h.pc = "replied" => t.pc = "asking" /\ h.code \in RepliesOf(h.method)
  /\ t.pc = "asking" => h.pc # "none" /\ <<t.name, h.method>> \in Pairs
  /\ t.pc = "asking" /\ t.name # "scenario_run" =>
       t.id = IF h.method = "runtime.create" THEN NoId ELSE h.id
  /\ h.method \in {"runtime.stop", "runtime.release", "runtime.get", "pool.acquire", "pool.release"} =>
       h.id \in known
CallsMatch == \A c \in Slots : CallMatches(c)

(* The runtime that a slot's handler creates, or launches for the first    *)
(* time, is no other such handler's.                                       *)
Launches(c) == handler[c].method \in {"runtime.create", "runtime.launch", "scenario.run"}
HasNoRuntime(c) ==
  handler[c].pc \in {"sent", "creating"} /\ handler[c].method # "runtime.launch"
OwnRuntime(c) ==
  Launches(c) =>
    /\ HasNoRuntime(c) => handler[c].id = NoId
    /\ handler[c].method = "runtime.create" /\ handler[c].pc = "replied" =>
         (handler[c].code = "ok" <=> handler[c].id # NoId)
    /\ handler[c].method = "runtime.launch" \/ handler[c].pc \in {"created", "detecting", "gating", "running"} =>
         handler[c].id # NoId
    /\ handler[c].method = "runtime.launch" /\ tool[c].pc # "asking" => handler[c].id \in unheard
OwnRuntimes ==
  \A c \in Slots :
    /\ OwnRuntime(c)
    /\ \A d \in Slots \ {c} :
         Launches(c) /\ Launches(d) /\ handler[c].id # NoId => handler[d].id # handler[c].id

(* A runtime that its creator has not launched yet, or failed to, is as it *)
(* was created, unless an agent could name it.                             *)
Unlaunched(c) ==
  \/ handler[c].method = "runtime.create" \/ handler[c].pc \in {"created", "detecting"}
  \/ At(c, "runtime.launch", "sent")
  \/ At(c, "runtime.launch", "replied") /\ handler[c].code \notin {"ok", "RUNTIME_CRASHED"}
Untouched ==
  \A c \in Slots :
    handler[c].id # NoId /\ Unlaunched(c) => state[handler[c].id] = "CREATED" \/ handler[c].id \in known

(* The state of a runtime that was not launched twice, as the handlers     *)
(* under way know it.                                                      *)
Gating(i) == \E c \in Slots : handler[c].id = i /\ handler[c].pc = "gating"
Stopping(i) == i \in reaping \/ \E c \in Slots : handler[c].id = i /\ handler[c].pc = "stopping"
Up(i) == state[i] \in Ran /\ ~ Gating(i)
Over(i) == state[i] \in {"STOPPED", "RELEASED", "DELETED"} /\ ~ Gating(i) /\ ~ Stopping(i)

StateMatches(c) ==
  LET h == handler[c]
      s == state[h.id]
      ok == h.pc = "replied" /\ h.code = "ok"
  IN h.id \in Ids \ twice =>
    /\ h.pc = "gating" => s \in {"STARTING", "STOPPED"}
    /\ h.pc = "running" => Up(h.id) /\ s # "DELETED"
    /\ h.pc = "stopping" => s \in {"STOPPING", "RELEASED"} /\ h.id \notin reaping
    /\ h.method = "runtime.launch" /\ ok => Up(h.id)
    /\ At(c, "runtime.launch", "replied") /\ h.code = "RUNTIME_CRASHED" => s = "CRASHED"
    /\ h.method = "runtime.stop" /\ ok => Over(h.id)
    /\ h.method = "runtime.release" => Over(h.id)
    /\ h.method = "runtime.release" /\ ok => s = "RELEASED"
StatesMatch == \A c \in Slots : StateMatches(c)

(* And so does the pool: what has an entry was READY, what it stops is not *)
(* yet stopped; entry.running and entry.state agree.                       *)
PoolMatches(i) ==
  /\ i \in running <=> state[i] \in {"READY", "STOPPING"}
  /\ i \in pooled => Up(i)
  /\ i \in reaping => state[i] \in {"STOPPING", "RELEASED"}
PoolsMatch ==
  /\ pooled \cup reaping \cup twice \subseteq known
  /\ \A i \in Ids \ twice : PoolMatches(i)

OneAtATime ==
  \A c, d \in Slots, pc \in {"gating", "stopping"} :
    handler[c].pc = pc /\ handler[d].pc = pc /\ handler[c].id = handler[d].id /\ c # d =>
      handler[c].id \in twice

(* An id that is told has been registered.                                 *)
IdsAreBorn ==
  \A i \in Ids : state[i] = "UNBORN" =>
    i \notin known \cup unheard /\ \A c \in Slots : handler[c].id # i /\ tool[c].id # i

(* An answer that was true stays so.                                       *)
TellsTrue(c) ==
  LET i == tool[c].id IN
  /\ tool[c].pc = "told" /\ tool[c].answer = "success" => tool[c].name = "scenario_run" \/ i # NoId
  /\ Told(c, "plugin_launch", "success") => i \in known
  /\ Told(c, "plugin_launch", "RUNTIME_CRASHED") => i # NoId
  /\ Told(c, "plugin_launch", "RUNTIME_QUOTA_EXCEEDED") => i = NoId
  /\ i \in Ids \ twice =>
       /\ Told(c, "plugin_launch", "success") => Up(i)
       /\ Told(c, "plugin_stop", "success") => Over(i)
       /\ Told(c, "operation_cancel", "success") => Over(i) /\ state[i] # "STOPPED"
       /\ Told(c, "plugin_launch", "RUNTIME_CRASHED") => state[i] = "CRASHED"
ToldHolds == \A c \in Slots : TellsTrue(c)

(* A runtime that runs, or has ended and holds the quota, is in someone's  *)
(* hands.                                                                  *)
Has(c, i) ==
  /\ handler[c].id = i
  /\ handler[c].method = "runtime.launch" \/ handler[c].pc \in {"gating", "running"}
SomeoneHasIt ==
  \A i \in Ids : state[i] \in {"STARTING", "READY", "STOPPING", "STOPPED"} =>
    i \in known \cup unheard \/ \E c \in Slots : Has(c, i)

ToolsIInv ==
  /\ ToolsTypeOK /\ CallsMatch /\ OwnRuntimes /\ Untouched /\ StatesMatch /\ PoolsMatch /\ OneAtATime
  /\ IdsAreBorn /\ ToldHolds /\ SomeoneHasIt
=============================================================================
