# A verification model of the Minecraft MCP Run Supervisor

TLA+ modules of the repository's core, the TLC runs that check them on small
instances, and the theorems about them that TLAPS proves for instances of any
size. `PROJECT.json` ties every definition to the lines it models, every
property to a mutation of the code that breaks it, and every hazard to the
properties aimed at it.

    tlc -workers 2 -config RuntimeLifecycle_overlap.cfg MCRuntimeLifecycle
    tlapm RuntimeProofs.tla

## 1. Inventory

An agent talks to the **MCP server** (`apps/mcp-server`), which translates tool
calls to calls on a local socket. The **Run Supervisor**
(`apps/run-supervisor`) answers them; it owns all state: projects, runtimes,
Paper processes, the pool, subscriptions, builds, scenario runs and evidence.
Inside each Paper server the **Bridge** plugin (`bridge/paper`) answers HTTP
requests of the Supervisor and records events. The **launcher** (`apps/cli`,
`serve`) starts and ends Supervisor and MCP server together.

| Component | State | Operations | Hard because | Correct when |
|---|---|---|---|---|
| Runtime lifecycle (`service.ts`, `runtime-registry.ts`, `runtime-launch.ts`, `runtime-gc.ts`) | registry entries with a state, `running`, the image's directory and marker, Paper processes | create, launch, stop, release, dispose, sweep | every handler awaits between its check and its update; Paper dies on its own; removal fails half-way | READY means served; no process is lost; a deletion disturbs nobody; the quota holds |
| Runtime pool (`runtime-pool.ts`) | entries IDLE or ACQUIRED with a reuse count | acquire, release, evict, reset, idle check | the pool and the registry each keep their own state of one runtime | pooled runtimes are READY, once; evicted ones come to an end |
| Event ring (`EventRingBuffer.java`) | slots, sequence numbers | record, query | wraps, drops the oldest, cursors expire | it answers exactly the retained events after a cursor |
| Event subscriptions (`event-subscription.ts`) | cursor, buffer, filter, timer | subscribe, poll, list, unsubscribe, expire | remote fetches fail; filter, page and buffer limits meet | no hole, no repetition, and events keep coming |
| Bridge actions (`ActionDispatcher.java`, `PaperMainThreadExecutor.java`, `BridgeHttpServer.java`, `bridge-client.ts`) | worker pool and queue, idempotency cache, the task on the main thread | request, time-out, retry, shutdown | two time-outs of the same length; check and put around a blocking call; a main thread that may hang | once per key; an answer says what happened; everybody leaves |
| Project registry (`persistent-project-registry.ts`, `main.ts`) | map of projects, dirty mark, file | register, load, flush | ends between any two awaits; roots disappear; spoiled file | what was recorded is served and stays recorded |
| Scenario engine (`scenario-engine.ts`, `-parser.ts`, `-evidence.ts`, `actor-client.ts`) | phase, steps, codes, collected evidence, runtime | run and its phases, cleanup, dispose | an early return per phase; errors at every await | order, one cleanup, an honest verdict, complete evidence, no runtime left |
| Supervisor IPC (`supervisor-client.ts`, `ipc-server.ts`, `endpoint.ts`, `ndjson.ts`, `mcp-server/src/index.ts`) | control file, cached client, socket, pending calls | connect, call, answer, time out, close | concurrent handlers, shared connection, Supervisors that come and go | an answer reaches its own call; no call hangs |
| Build executor and backends (`build-executor.ts`, `source-snapshot.ts`, `gradle-`, `maven-validation.ts`, `build-plan.ts`, `artifact-selection.ts`, the two backends) | build records, work directories, output directories, the artifact store | build, validate, resolve an artifact | files are read at four different times, one by one, while the user edits; two builds of one project; time-outs of what docker runs | what is answered was compiled from the snapshot, from approved files, and stays; every build is answered and leaves nothing behind |
| Evidence store and run records (`store.ts`, `scenario-evidence.ts`, `service.ts`) | objects by content, manifests by id | put, get, expire, flush, run.get, run.list, evidence.get | content is shared; crashes between an object and its manifest; status read by a second listing | what was answered is there until it expires; a run is told as it ended |
| MCP tools and resources (`mcp-server/src/tools`, `resources`, `sdk/adapter.ts`) | none of their own: answers and the ids that agents know | launch, stop, cancel, get, run a scenario, list | one tool makes several calls, each can be given up while the Supervisor goes on | an answer is true; no server runs that nobody can name; the quota can be freed |
| Launcher (`serve.ts`) | two child processes, control file | start, wait, interrupt, chain of ends | either child, or the launcher, ends at any time; another Supervisor writes the same file | started in order; no child outlives the session |
| Bridge actors and world (`NmsActorHandler.java`, `PaperWorldMutations.java`, `QueryDispatcher.java`) | fake players by id; Paper's players, blocks, chunks | create, move, break, set, ticket, chat, command, read, disconnect all | players disappear on their own, joins and removals fail half-way, listeners cancel | events tell the blocks; tickets hold; nobody is left behind |
| Mutation tracker, ownership, permissions | mutation records by key | set, revert | no effect in the product (section 6) | |
| Images and downloads, plugin start, diagnostics, reports, CLI installation, catalogs | files, or none | one-shot | mostly I/O and text | out of scope (section 6) |

Interactions: IPC handlers run concurrently in one Node process and share the
registry; the pool calls lifecycle operations from event listeners without
awaiting them; the scenario service creates, launches and disposes of runtimes
through the same registry; the collector sweeps it on a timer; subscriptions
poll the Bridge on timers; Bridge workers hand tasks to Paper's main thread and
block. A "stretch" between two awaits is atomic in Node, and is one action here;
in the Bridge, an action is what one thread does between two points where
another can be observed.

The hazards, each at its line, with the properties that would notice, are the
`hazards` of `PROJECT.json`.

## 2. Modules

| Module | What it models |
|---|---|
| `RuntimeLifecycle`, `MCRuntimeLifecycle` | registry, request handlers, Paper processes, collector |
| `RuntimePool` | the pool, EXTENDS `RuntimeLifecycle`: its launches, stops and releases are that module's handlers |
| `RuntimeProofs` | the theorems of the lifecycle and of the pool |
| `EventRingBuffer` | the ring of one Bridge boot |
| `Selection` | pure: the elements of a sequence that belong to a set, in order |
| `EventSubscription`, `MCEventSubscription` | a subscription polling the ring (EXTENDS `EventRingBuffer`) |
| `EventSubscriptionProofs` | theorems: the ring, the subscription, the refinement |
| `EventStream` | abstract: what a subscription promises its consumer |
| `BridgeActions` | a request's way through client, admission, pool, cache, executor, main thread |
| `BridgeWorld`, `MCBridgeWorld` | what the operations do: actors, blocks, chunks, chat |
| `BridgeProofs` | theorems of both |
| `ProjectRegistry`, `ProjectRegistryProofs` | start-up with the registry file over restarts; its theorems |
| `ScenarioRun`, `MCScenarioRun` | one scenario run; the documents of the runs |
| `ScenarioRunProofs` | its theorems |
| `EvidenceStore` | objects and manifests in their directory |
| `RunRecords`, `MCRunRecords` | what becomes of runs in that store, EXTENDS `EvidenceStore` |
| `RunRecordsProofs` | theorems of both |
| `SupervisorIpc` | control file, lookup, connection, calls, Supervisors |
| `Serve` | the launcher and its two children, EXTENDS `SupervisorIpc` |
| `SessionProofs` | theorems of both, and of `McpTools` |
| `SupplyChain` | pure: build system, validation findings, build plan |
| `BuildRun`, `MCBuildRun` | build.run, EXTENDS `SupplyChain` |
| `BuildRunProofs` | its theorems |
| `McpTools` | the agent's tools over the Supervisor's runtimes |

What refines or composes what: `EventSubscription` implements `EventStream`;
`RuntimePool`, `RunRecords`, `Serve` and `BuildRun` are built over the module
they extend, whose actions they use as they are. `BridgeActions` and
`BridgeWorld` split one system at the main thread: the first says whether and
how often an operation is carried out, the second what it does. `McpTools`
reduces the handlers of `RuntimeLifecycle` to what they do to `entry.state`.

### RuntimeLifecycle
`state`, `running`, `registered` are the entries of the registry map; `dir` and
`marked` the image's directory and ownership marker on disk; `proc`, `host` the
Paper processes and the runtime each was spawned for; `calls` the IPC requests
under way with their program counter and what they hold across an await;
`sweep` the collector's loop. Runtime ids are numbered in the order of
registration. A handler is split at every await: a creation is `CreateBegin`
(the quota), then `CreateEnd` (`CreateRuntimeImage`, `Register`) or `CreateFail`;
`launchRuntime` is `LaunchBegin` (state check, Java lookup), `Spawn`,
`MarkerRead`, then `GatePass` or `GateFail`; `stopRuntime` is `StopBegin` and
`StopEnd`. The collector marks and validates in one stretch up to its first
removal (`SweepBegin`), and goes on when a removal ends (`RmDone`) or fails
(`RmFail`). `DELETE_VALIDATION` is passed within one stretch and is not a state
here. SIGKILL is taken to be effective. The retention period (24 h) outlasts any
request: `Age` waits until no request holds the entry. Constants: `Calls`,
`MaxRuntimes`, `MaxProcs` (bounds on what is ever created), `MaxConcurrent` (the
quota), and two restrictions of the clients, `SerialRuntime` (a client waits for
one answer before the next request about the runtime) and `Scenarios`. Creations
overlap in every run.

### RuntimePool
Adds `pool`, the map's entries. `acquire` is one of four actions: an idle entry
is handed out (`AcquireIdle`), a runtime with a process is attached to
(`AcquireRunning`), or a launch is started and entered when it is through
(`AcquireLaunch`, `AcquireLaunched`). A runtime that the pool evicts is stopped
and released as `service.ts:230-239` does: both are started, neither is awaited,
the release fails while the stop is under way. `poolReset` is a sequence of
evictions. Scenario runs create, launch and dispose of runtimes beside the pool.
`Polite` restricts the clients to leave pooled runtimes to the pool.

### EventRingBuffer, EventSubscription, EventStream
An event is a sequence number and a kind. `log` (all events of the boot) is a
history variable, from which the ring's slots are checked. Cursor 0 silently
starts at the oldest retained event; other cursors out of range are errors.
A poll is started by the timer, fetches, and ends by filtering and buffering;
`Polls` is the number of polls that can be in flight. `EventSubscription`
implements `EventStream` under `wanted <- filter, delivered <- events`: out of
the wanted events it hands over a stretch without holes. What passes the filter
is `Those`, a recursive function over the log, and `Pages` are the answers the
ring can give to a fetch.

### BridgeActions
Requests carry a key or (reads) none. A worker is `queued`, `waiting` (blocked
on its task), or over; the main thread runs one task at a time and may hang.
`TurnAway` is the admission of a request: `HeaderRules`, `BodyRules` and
`DispatchRules` are the rules in the order in which the code applies them, and
`Refusals` the answers they can give; all of them come before the cache is
looked at, so that a repeated key may be refused though its result is there.
The cache is looked at before the task is handed over and written after it. A
full pool refuses outside any handler, so that nobody answers such a request.
`Stopped` is the end of both grace periods, with Paper cancelling the plugin's
tasks. `BlindRetries = FALSE`: a client sends a key again only when it knows how
the earlier request went.

### BridgeWorld
Operations are one step each, on Paper's main thread; between two of them the
server kicks players and unloads chunks, and within one the plugin under test
cancels breaks. `active` is `NmsActorHandler.activeActors`, `players` Paper's
list, where a `stuck` player is one whose removal failed. `recorded` are the
events of the last operation; `told` and `granted` are what a reader of events
and answers knows, against which `block` and `loaded` are checked. Kept as the
code has them: an actor whose joining failed half-way stays active; `teleportTo`
moves the first actor who is online, not the one that was named; a break by an
absent player is recorded as cancelled and dispatched, chat by one as dispatched and not cancelled;
tickets are never given back (`determinism.md:54` says at the scenario's end).
A refused operation changes nothing and is no step.

### ProjectRegistry
`Start` (with or without a project on the command line), `Register`, `Load*`,
`Restore` one record at a time, `LoadEnd`, `Flush`, `Save*`, and `End` at any
moment. Roots come and go, the file may be spoiled. `steady` are the roots
that were there throughout the start.

### ScenarioRun
`run()` with its phases, `#executeStep`, `#executeAssertion`, `#runCleanup`,
`#finalize` and the service's `dispose`; `current` and `phases` are the evidence
collector's. A step kind stands for those that behave alike, and its arguments
only decide which of its outcomes happens. A retry of an assertion leaves no
trace and is not an action. A `then` step without a body (`- assert.no_log:`)
passes the parser and throws outside the step's own try
(`scenario-engine.ts:475`): the run goes to its cleanup and the open phase is
not filed (`CutOff`). Step evidence keeps kind and status, and no error code.
Paper may die at any time. `Nth(steps, s)` is the
position, within its phase, of the step at `s`: the properties compare what was
executed with what the document states at the same position.

### EvidenceStore, RunRecords
`put` is three actions (the object, unless one of this content is taken to be
there; the manifest; done), each of which may fail or be the last before a
crash. Evidence is numbered within its run, 0 being the run's record; all
assertions share one content, the records share none. `flush` writes the record and
the assertions one after the other. `run.get` and `run.list` read the store
twice (`ReadFirst`, `ReadSecond`) with writing, expiry and tampering in between.
`garbled` is a run that passed and whose record is no JSON when it is read back.

### SupervisorIpc
Supervisors are numbered as they are started, and may overlap. The control file
is torn while it is written. `lookup` is the one promise of `index.ts`; `link`
and `open` are the two ends of the connection; `call` and `serve` the two sides
of each call; `lost` the calls whose connection is gone and whose answers go
nowhere; `HangUp` the client's `close`. Handlers end in any order, with a
result, an error or an answer too large to be sent.

### Serve
Adds the launcher (`runServe`), the process of the MCP server and the SIGTERM
that the launcher has sent. `own` is the Supervisor it has started; with
`shared`, the other Supervisors of `SupervisorIpc` are those of other sessions
in the same control directory. The launcher is interrupted, the MCP server
crashes or reaches the end of its input, and Supervisors end, at any time; the
MCP server's exit fails what was pending on its end of the line. The end of
stdin begins the lookup if none was begun, and calls that were queued may still
start while the line drains.

### SupplyChain, BuildRun
`SupplyChain` has the checks as operators on a record of what they tell apart:
which wrapper files there are, what the distribution's URL and digests say, what
is wrong with the dependencies. `BuildRun` numbers the versions of files instead
of having contents, so that a JAR is the versions it was compiled from. A walk
passes by `build`, `.gradle`, `node_modules` and the like at any depth, a Java
package of that name included, which Gradle compiles: `Seen` gives of each
version of the sources the one that the walk takes it for, and snapshots are of
what is seen (`Walked`). An edit may be undone: `restored` is a history variable
of the files that were put back, during a build, to what its snapshot has. The
code notices neither, and the properties exempt both by name. A build goes `snapshot`
(file by file), `validating`, `starting`, `running`, then for the project's own
directory `cleaning`, `rechecking`, `selecting`, `persisting`, and for a
container `collecting`, `persisting`, `cleaning`, `rechecking`; the orders differ
as they do in the code. Gradle is external: it reads the files one by one,
cleans and writes JARs as its mode does, fails, or hangs. `shared` is a history
variable: the builds that another build of the project crossed in the project's
own directory.

### McpTools
`Slots` are MCP servers with a tool call each, of the developer or the debug
profile (what the third profile, scenario-authoring, lists of these tools is
part of the developer's); `handler` is the Supervisor's
side of the IPC call that the tool makes, and goes on when the tool has given it
up. `Listed` is what the profile lists, `Registered` what `index.ts` has a
handler for, `ToolError` the error answer, which throws for a code that is not
in the catalogue. `known` are the runtimes whose id an agent has been told,
`unheard` those whose creation or launch was given up. debug's pool_acquire and
pool_release are `PoolAcquire` with the launch and the entry that follow, and
`PoolRelease`; `pooled` are the runtimes with an entry, `running` those with
`entry.running`, `reaping` those that an eviction is stopping after its release
has been refused (`Expire`, `Reap`). A runtime for which two launches passed the
state check is in `twice` once the second spawns its Paper. dispose's stop and release are
one step (`ScenarioEnd`).

## 3. Runs

| Run | Configuration | What it shows |
|---|---|---|
| `lifecycle_overlap` | 2 symmetric calls, 2 runtimes, 2 processes, the product's quota of 1, scenarios | for requests that overlap in any way: `TypeOK`, `ReadyHasRuntime`, `DeletionIsQuiet`, `QuotaHolds`, `DeletionAfterRetention` |
| `pool_polite` | 2 calls, 2 runtimes, 2 processes, quota 1, pool of 2, 2 uses, scenarios; clients serial in each runtime and polite | `PooledIsReady`, `ProcessesAreHeld`, `DocumentedTransitions`, `EvictionStops`, `RuntimesSettle` |
| `event_stream` | ring of 2, 4 events, pages of 2, buffer of 3, filters | `RingIsFaithful`, `PagingIsComplete`, refinement `IsEventStream`, `UnfilteredEventsArrive` |
| `bridge_actions` | 4 requests, 1 key or none, 2 workers, queue of 1 | `OncePerKey`, `AnswersAreTrue`, `RequestsLeave` |
| `actors_world` | 2 actors, 2 cells either side of the origin, 3 chunks, 3 players | `RecordTellsBlocks`, `TicketsHold`, `NoStrangers` |
| `project_restarts` | 2 projects, 2 roots | `RecordsAreServed`, `RecordsAreKept` |
| `scenario_run` | documents of up to 2 steps a phase, every outcome | `StepsFollowTheDocument`, `CleanupTriedOnce`, `VerdictIsEarned`, `EvidenceTellsAll`, `RunEnds` |
| `run_records` | 2 symmetric runs, a record and an assertion each | `EvidenceIsThere`, `RunsAreToldTruly` |
| `serve_session` | 2 calls, 2 Supervisors, own or shared directory | `CallersAreServed`, `StartedInOrder`, `EveryCallSettles`, `SessionEnds` |
| `build_edits` | 2 builds, 19 project versions, an edit and its undoing, both backends | `ArtifactIsOfItsSnapshot`, `WhatRanWasApproved`, `KeptAsAnswered`, `LeavesNothingRunning`, `EveryBuildIsAnswered` |
| `mcp_tools` | 2 agents of either profile, 1 runtime, quota 1 | `AnswersHoldTrue`, `NoneIsMislaid` |
| `tool_quota` | 1 agent, 1 runtime, quota 1, diligent | a violation: `QuotaIsFreed` |

Every other module with state has a type invariant too (`TypeOK`, `PoolTypeOK`,
`ServeTypeOK`); TLC finds no error when it is added to the module's run.

### Why the bounds are enough
- Lifecycle: the races are between two holders of one entry (a launch and a
  stop, a stop and a dispose, a sweep and a request); two calls, two runtimes
  and two processes give each, with a second runtime for the sweep to go on to.
  Two creations meet between the quota's check and the registration, so that a
  quota of one is exceeded by one: as far as `QuotaHolds` allows with two calls.
  What the overlap run checks, and the safety of the pool run, is also proved
  without bounds (section 5).
- Pool: with two uses an entry passes through every kind of release; a second
  entry is what a runtime that is entered twice would take. Two creations at
  once get past the quota of one, so that both runtimes and both entries are in
  use together, and a runtime also comes after one that was released. A launch
  that finds the pool full when it is through needs a third runtime and is not
  reached; the safety properties are proved for it too.
- Events: four events pass a ring of two twice over; a page shorter than the
  ring's content and a buffer shorter than the log both occur.
- Bridge: two workers and a queue of one are overrun by four requests, any of
  which may carry the key: one can be repeated, beside a read, after a failure
  and after a success.
- World: an actor can be created again beside its stuck player and another
  actor; the two cells are in different chunks, one of negative coordinates, one
  where breaks are cancelled; a radius of 0 and of 1.
- Projects: one record that fails and one that must not suffer from it.
- Scenarios: two steps are the shortest phase in which a failure has something
  to skip; each phase also occurs empty, and one document is invalid.
- Records: two runs share the assertions' object; each record has its own.
- Session: two calls share a connection or meet on successive ones; the second
  Supervisor is another session's, earlier or later than one's own.
- Builds: the versions are a project with nothing wrong (Gradle, Maven) and
  with each thing wrong in turn; an edit turns a right project into one with
  a wrong digest, or sources of one JAR into sources of another, or changes a
  package `build` that no walk sees (version 3), at any moment of a build; a
  second edit undoes the first while one build is at work (`MCNext`, `MCSeen`);
  two builds cross in every order and with either backend.
- Tools: the races are of two agents (and of handlers they have given up) over
  one runtime, since each call is about one. A second one (after a release, or
  when two creations get past the quota) is beyond TLC's five minutes; the two
  properties are proved for any number.

`CHECK_DEADLOCK FALSE` stands where a behaviour really ends: a scenario run is
over, all bounded events have happened, all requests of a bounded number are
answered, the session is over, all runtimes or players or evidence ids were
used. `BuildRun` has a step `Done` for its end instead.

### Fairness
- Lifecycle and pool: awaits settle and timers fire (stop grace, ready gate,
  sweep); the idle check, which only reaches entries nobody uses, may never. None on clients, none on Paper: that it comes up, hangs
  or dies is its own choice; `LaunchSettles` rests on the gate's deadline.
- Subscription: the interval fires while it is set, a fetch ends within its
  time-out, and not every fetch to a living Bridge fails (strong fairness on
  the fetch that succeeds): without it nothing could be promised.
- Bridge: workers' time-outs and shutdown's grace periods. None on the main
  thread.
- Projects: file operations settle. Scenario: every await of the engine settles,
  because Bridge calls, assertions, waits and launches each have a limit of
  their own.
- Session: the event loops of the launcher and of the MCP server (a file is
  read, a connect succeeds or fails, timers fire, a closed socket is noticed,
  `process.exit` exits), and a signal that was sent to the own Supervisor
  arrives. Supervisors and their handlers may hang; the launcher's SIGKILL is
  what ends them.
- Builds: the Supervisor's own steps and its timers. Gradle and docker may hang.
- Tools: none for the safety run. `DiligentSpec` (the violation run) has both
  processes run, and an agent that lists resources and calls every listed tool
  on every runtime it knows again and again (strong fairness): the quota is not
  freed in spite of it.

## 4. Disagreements between code and words

`tool_quota` is a run of its own, and the finding of `PROJECT.json`: the error
catalogue tells an agent to free the quota with plugin_stop and
runtime_release; no tool of the developer profile, and no registered tool of
that name, releases a runtime that has stopped or crashed, so that plugin_launch
and plugin_stop once (or one crashed launch, or a cancel whose stop timed out)
use the quota up until the Supervisor restarts. (A runtime that a debug agent
had put into the pool before it stopped is released when the pool evicts it.)

The others are definitions that TLC finds violated when they are put into the
run named, with the change given:

| Definition | Run | What the words are, and what the code does |
|---|---|---|
| `NoResurrection` (`RuntimeLifecycle`) | `lifecycle_overlap` | `state-machines.md` has no way from STOPPED or RELEASED to READY; a launch that ends late takes it |
| `FilteredEventsArrive` (`EventSubscription`) | `event_stream` with `Capacity = 3`, `MaxEvents = 3` | `release-checklist.md:114`: filtered events reach the client; a page of events that the filter drops is fetched for ever |
| `IsEventStream` | `event_stream` with `Polls = {"p1", "p2"}` | events twice, when a poll outlasts the interval |
| `LauncherIsRecorded` (`ProjectRegistry`) | `project_restarts` | `main.ts:73`: the command line's project must be written to the file; load() clears the mark that would have it written |
| `ExpectedFailureHappened` (`ScenarioRun`) | `scenario_run` | `expect` of the scenario DSL; a runtime that never came up satisfies it |
| `MessagesAgree` (`BridgeWorld`) | `actors_world` | `NmsActorHandler.java:819`: player.message has one meaning; one chat records two, which may disagree |
| `DeathEndsMcp` (`Serve`) | `serve_session` with `Calls = {c1}`, `MaxSupervisors = 1` | `serve.ts:283`: a Supervisor that dies takes the MCP server with it; not if it dies between its control file and the launcher's look at it |
| `ProvenanceHolds` (`BuildRun`) | `build_edits` | `trust-and-snapshot.md:64` (SN-02) and `:69` (SN-07): a build is of the snapshot that its evidence names. The second walk does not notice an edit that was undone, nor a package `build`, which it passes by; with `Requested = {"build", "unit_test"}`, a mode that writes no JAR answers with one that an earlier build has left |
| `OncePerKey` (`BridgeActions`) | `bridge_actions` with `BlindRetries = TRUE` | a key sent again while its first request is under way runs twice |

Met while reading, and part of the models where they concern state, or else left
at this:

- Tools: `toolError` throws for codes that are not in the catalogue
  (SUPERVISOR_TIMEOUT, SUPERVISOR_INTERNAL_ERROR, JAVA_NOT_FOUND and others),
  against KPI-08; the error answer of plugin_launch does not name the runtime
  that was created; truncation to the byte limit gives text that is not JSON; resource
  lists are empty while the Supervisor is down.
- Records: run.list shows each completed build as a failed run, because builds
  keep evidence under a run id of their own; a main record beyond 1 MiB, or one
  that redaction has made invalid, reads as `failed`; nothing calls
  `EvidenceStore.expire` but a test; a spoilt object is never repaired.
- Session: a connection that is being made when stdin ends is not closed by the
  drain and keeps the MCP process until it is lost; an interrupt during the
  launcher's wait leaves its Supervisor behind; the wait lasts its 15 s even if
  the Supervisor is gone.
- Builds: `distributionSha256Valid` is true where no digest was compared
  (`service.ts:906`); a distribution URL that names no version is accepted; the
  executor applies Gradle's rules to Maven projects too; errors of a container's
  selection are thrown past the build's record; network `online` is always
  refused.
- Downloads: overlapping creations share one temporary file (a hazard).
- Scenarios: `assert.no_log` passes when the Bridge does not know the query
  (`NoLogPasses`).
- Bridge: a reused key gets the first operation's result, whatever operation it
  comes with; the last refusal comes before the cache.

## 5. Proofs

`tlapm` proves every theorem for all values of the constants that the named
assumption of the module allows. Each proof goes the same way: an inductive
invariant `IInv` that TLC has checked as an invariant of the module's run, a
lemma for `Init`, one for each action (with a step for each conjunct the action
can disturb), and the property from `IInv`.

**RuntimeProofs, the lifecycle.** Assumption: `LifecycleAssumption` (bounds and
the quota are natural numbers, switches are Booleans, the requests in flight at
a time are finitely many and at least one). `Inductive` proves

- `CallsWired`, `RunningWired`: requests and entries point to registered
  runtimes and to processes spawned for them; without it `GatePass` could make
  any runtime READY with any process;
- `RegisteredUntilCollected`: only the collector takes an entry away, so that a
  handler's entry is still in the registry after its await;
- `AgedIsQuiet`, `SweepIsQuiet`: past retention no request holds the runtime,
  hence what a sweep saw before its await still holds after it;
- `ReadyHasRuntime`, `DeletionIsQuiet`, the properties themselves.

`TypeCorrect`, `ReadyIsServed`, `DeletionUndisturbed` and the action property
`RetentionComesFirst` follow. No restriction of the clients is used.

**RuntimeProofs, the quota.** `QuotaIsKept` and `PoolKeepsQuota` have no
hypothesis on the clients: the quota is checked before an await and the entry
made after it, so that it can be exceeded, by no more than the requests in
flight beside the first (`QuotaHolds`). `QuotaInv` counts what is `Occupied`:
the runtimes that are active, or that a request is about and may make active
again (a launch that ends after its runtime was released). Whoever passes the
check leaves at most the quota less one active, and every other request occupies
at most one runtime or is one creation (`OneEach`, `WhoCreates`); every other
step adds nothing to the count (`QuotaShrinks`, `QuotaStep`). It needs the
cardinality lemmas of the library.

**RuntimeProofs, serial and polite clients.** `SerialClientsHoldProcesses`,
`PoolHoldsProcesses`, `PooledRuntimesAreReady` and `MovesAreDocumented` are
implications from the clients' discipline (`SerialRuntime`, `Polite`), the
discipline of the `pool_polite` run: without it each of them is false, as the
races of section 3 show. `SerialInv` says that of the requests under way at most one is about a
runtime, and what that request tells of the entry's state and of its process
(`OneRequest`, `RequestsMatch`, `StatesMatch`, `NoForgottenProcess`, `Hosted`);
`PoliteInv` adds that pooled runtimes are READY, pooled once, and not held by a
request (`PooledOnce`, `PooledIsQuiet`).

**EventSubscriptionProofs.** Assumptions: `RingAssumption`,
`SubscriptionAssumption`. For any number of polls in flight: `RingStaysFaithful`
(`RingInv`: the slots hold the last events of the log, each in its own place)
and `SubscriptionTypes`. Where polls do not overlap (`OnePoll`; with overlapping
polls events are delivered twice, section 4): `SubscriptionInductive`,
`PagesComplete`, and `SubscriptionIsStream`, the refinement of `EventStream`.
`StreamInv` says that a poll in flight continues at the subscription's cursor
and that the buffer is what passes the filter of a stretch of the log that ends
there. The lemmas on `Those` and `Pages` are proved by an induction over
natural numbers that is derived from the finiteness of intervals, since the
library's induction theorems cannot be instantiated.

**BridgeProofs, the way to the main thread.** Assumption: `BridgeAssumption` (`NoKey` is no key).
`IInv`: where a request's task, future and cache entry can be at the same time
(`WayOfRequests`, `SentInOrder`), that a task is carried out once (`OnceEach`),
and that cached and told results are those of a task that was carried out
(`CacheIsTrue`, `ToldTruly`). `BridgeTypes` and `AnswersTrue` hold for blind
retries too; `AppliedOnce` is `OncePerKey` under `~BlindRetries`, with the
further invariant `OneOfAKey`.

**BridgeProofs, the world.** Assumption: `WorldAssumption` (cells are pairs of
integers, the spawn is one). `WorldTypes`, `RecordsTellBlocks`, `NobodyIsLeft`,
`TicketsLast`. `NoStrangers` is not inductive: it says who an actor's player is
and that of two one is stuck, while a removal takes the latest only. `Tidy` says
that a player who is not stuck is an active actor's, and that of two players of
one actor the *earlier* one is stuck; that an active actor cannot be created
again is what keeps it. `TicketsForce`: the chunks of every ticket are forced,
and forced chunks are loaded; `ColumnsAreAround` is the arithmetic of chunks,
with a division that rounds down. That the players who stay keep their order is
proved by induction (`CountedThrough`), as a least counterexample (`Least`).

**ProjectRegistryProofs.** Assumption: `RegistryAssumption`. `RegistryTypes`,
`RecordsServed` and `RecordsKept`, from
`IInv = TypeOK /\ ReadIsClean /\ RestoredSoFar`: once a file has been read
nothing is left to be saved, so that a readable file is never written (the
reason why records are kept, and why the launcher's is not added); and records
no longer to be restored have been.

**ScenarioRunProofs.** Assumption: `ScenarioAssumption` (the documents have
four phases, which are sequences). `RunInductive`, and from it `RunTypes`,
`StepsFollow`, `CleanupIsTried`, `VerdictEarned`, `EvidenceIsAll`. `Progress`
says where a run is: the steps are those of the phases before the present one
and a prefix of its own (`PhaseRuns`, `KindsFollow`, `PhasesInOrder`), nothing
follows a failure but cleanup (`FailuresStop`, `Thorough`, `CleanupIsLast`),
the collector's phases hold the same steps, but for a `then` that an engine error
cut off, which is not filed (`PhasesFiled`), and if any failed one was the first
(`OneFailedFirst`). `Reported` ties the result and the
evidence to them.

**RunRecordsProofs.** Assumption: `StoreAssumption`. `RecordTypes`,
`EvidenceNamedIsThere`, `ToldTruly`, from `ObjectsStay`, `NamesAreStored`,
`RecordIsFirst`, `RequestIsRight`, `RunsAreToldTruly`, `EvidenceIsThere`: no
manifest is without its object, and what a reading has seen in its first look
is still so, or expired, in its second.

**SessionProofs, the session.** Assumption: `IpcAssumption`. `LineServes` for the line alone
(`LineInv`: who waits does so on an open line, and an answer was executed by
its own call's handler); `SessionServes`, `SessionStartsInOrder` and
`SessionIsTyped` for a session, whose launcher, crashes and signals keep
`LineInv`, and where the control file that the launcher found was written by a
Supervisor that accepts connections (`FileTells`).

**SessionProofs, the tools.** Assumption: `ToolsAssumption`. `ToolsInductive`,
`ToolsAreTyped`, `ToolsAnswerTruly`, `NoneMislaid`, from `ToolsIInv`: which call
a tool has made and how far its handler can have come (`CallsMatch`); that the
runtime which a handler creates, or launches by plugin_launch or for a scenario,
is no other such handler's (`OwnRuntimes`); what each handler and the pool may
rely on of a runtime's state (`StatesMatch`, `PoolsMatch`), and that one gate and
one stop at a time are open for it (`OneAtATime`), unless it was launched
`twice`; what a creator has not launched yet is CREATED unless an agent knows it
(`Untouched`); ids are of registered runtimes (`IdsAreBorn`). Every step is first
given a shape, field by field (`ToolStep`). What a shape can do to the state of
one runtime is `Moves` (`Moved`), the one place where pool_acquire, scenarios,
evictions and late gates meet. From it a runtime that has run and whose gate is
past (`Up`), one that is stopped with no gate and no stop under way (`Over`) and
one that has CRASHED stay so (`Lasting`), which gives the handlers' and the
answers' parts (`StatesKept`, `ToldKept`). Without "no gate" a launch that ends
late makes a stopped runtime READY, and the answer of plugin_stop false.
A second launch goes through the states again, and nothing that was told of the
state survives it: that is what the exemption of `twice` says. `SomeoneHasIt` is
`NoneIsMislaid` for the calls that are under way.

**BuildRunProofs.** Assumption: `BuildAssumption`. `BuildsInductive`,
`NothingIsLeftRunning`, `ArtifactsAreKept`, `ApprovedIsWhatRan`,
`ArtifactsAreOfTheirSnapshots`. `CallsInOrder` is the order of a build's steps.
`ReadInOrder` is about the files: one that now reads as the snapshot has it either
was read so by validation and Gradle too (`Faithful`) or was put back during the
build (`restored`), and what the second walk has passed stays so, whatever is
edited after it (`Settled`); that is all that the re-check can say, and the two
exemptions of the properties are exactly it. `StoreMatches` says that
a persisted artifact is its own build's; `Alone` what holds of a build that no
other one crossed in the project's directory; `JarsMatch` of what its JARs were
compiled.

**Only model-checked.** Liveness, fairness and ENABLED are out of the prover's
reach: `RuntimesSettle`, `EvictionStops`, `UnfilteredEventsArrive`,
`RequestsLeave`, `RunEnds`, `EveryCallSettles`, `SessionEnds`,
`EveryBuildIsAnswered`. Every safety property that a run checks is proved.

## 6. Not modelled
- Runtime registry persistence (`persistent-registry.ts`): `main.ts` never
  passes a file for it. `SupervisorService.shutdown`: only a demo calls it. The
  Supervisor's own end within the lifecycle: its state is lost, its Papers stay
  (a hazard).
- Mutation tracker, permission adapter, ownership: the adapter that the service
  makes has a Bridge client that does nothing (`service.ts:251`), and nothing
  else constructs the tracker.
- The limit on subscriptions: each has a manager of its own, so that it is never
  met. Polls that overlap are in the module, not in the run.
- `PaperActorHandler` (never constructed), what plugins do to blocks on their
  own, where players look; queries of the server and its plugins; the parsing of
  the fixture manifest and of Bridge JSON; credentials and the handshake file.
- Arguments of scenario steps; the page of events that event assertions look at;
  reports; text.
- What is in a build's evidence (a failure to write it changes no verdict, which
  is why `PersistArtifact` ends without it); compiler diagnostics; docker's
  arguments and the commands for old containers; the copy-on-write fixture.
- Temporary files of the stores, which nobody looks at; what redaction changes
  beyond whether a record still is JSON; output limits of the tools; pool_evict and
  pool_reset, which no profile lists; the tools that only read, and those of
  projects, builds, permissions and scenario files, which touch no runtime's state.
- Downloads, zip and plugin metadata, diagnostics, CLI installation, generated
  data, demos: I/O or formats without state that two actors share, the download
  cache excepted, which is listed as a hazard. Of Java detection, of the files of
  an image and of a build's environment the models keep that they may fail, and
  where; of a snapshot, whether the contents read are the same, and what a walk
  passes by.
- Seven hazards have no property. Three are races that the code loses, shown by a
  definition that fails (section 4): polls of one subscription that overlap, a
  key that is sent twice at the same time, a failure that is not the expected
  one. The marker read outside the ready gate's clean-up is a step of the model
  that no property is about. The rest is not modelled: the page of events that
  event assertions read, the Papers of a Supervisor that has ended, the temporary
  file of two downloads at once.
