----------------------------- MODULE ScenarioRun -----------------------------
(***************************************************************************)
(* One scenario_run: ScenarioEngine.run() over a scenario document, the    *)
(* evidence it collects, the verdict it reports, and the disposal of the   *)
(* runtime it was given.  A document's phases are sequences of step kinds; *)
(* the arguments of a step only decide which of its outcomes happens.      *)
(*                                                                         *)
(* The engine is sequential: every action below is what it does up to its  *)
(* next await.  The other actor is Paper, which may die while a scenario   *)
(* runs on it.                                                             *)
(***************************************************************************)
EXTENDS Integers, Sequences, FiniteSets

CONSTANTS
  Documents,  \* the scenario documents that may be read
  MaxSteps,   \* the number of steps a phase may have (64)
  None        \* undefined or null: no document, no expectation, no result

ASSUME ScenarioAssumption ==
  /\ MaxSteps \in Nat
  /\ None \notin Documents
  /\ \A d \in Documents : \A p \in {"given", "when", "then", "cleanup"} :
       d[p] \in Seq({d[p][i] : i \in DOMAIN d[p]})

VARIABLES
  pc,         \* where run() is
  doc,        \* the validated scenario, or None
  next,       \* the loop index of the phase that runs
  steps,      \* #steps: one result per step that was executed
  through,    \* the `then' loop has been left
  code,       \* #runErrorCode, NoCode for null
  current,    \* the collector's #currentSteps
  phases,     \* the collector's #phases
  runtime,    \* #runtime: "none", "up", or "released" by its dispose()
  alive,      \* Paper answers on the Bridge's port
  result,     \* what run() returns, None before
  evidence    \* the run's evidence in the store, or None

engine == <<pc, doc, next, steps, through, code>>
collector == <<current, phases>>
paper == <<runtime, alive>>
report == <<result, evidence>>
vars == <<engine, collector, paper, report>>

NoCode == "no_code"
Ok == "passed"

PhaseOrder == <<"given", "when", "then", "cleanup">>
PhaseNames == {PhaseOrder[i] : i \in DOMAIN PhaseOrder}
Rank(p) == CHOOSE i \in DOMAIN PhaseOrder : PhaseOrder[i] = p

\* The allowlist: the kinds of steps, those that behave alike taken together.
ActorActs == {"player.move", "player.chat", "plugin.command"}
WorldActs == {"world.set_block"}
Assertions == {"assert.block", "assert.event", "assert.no_log"}
\* A step whose body is null (`- wait:') has an allowed name, and is valid.
Bodiless == {"player.move: null", "world.set_block: null", "wait: null", "assert.no_log: null"}
Allowlist == ActorActs \cup WorldActs \cup Assertions \cup Bodiless
  \cup {"test_actor.create", "test_actor.disconnect_all", "wait"}

\* What a Bridge may answer instead of a result; `unavailable' is the
\* client's own code for a refused connection or five silent seconds.
Unavailable == "BRIDGE_UNAVAILABLE"
Refusals == {Unavailable, "REGION_NOT_ALLOWED"}
ProvisionCodes == {"EULA_NOT_ACCEPTED", "RUNTIME_QUOTA_EXCEEDED"}
Codes == Refusals \cup ProvisionCodes \cup
  {"ACTOR_UNAVAILABLE", "ACTOR_LOGIN_FAILED", "ACTOR_CRASHED", "SCENARIO_SCHEMA_INVALID"}

Passed(r) == r.code = Ok
StepResults == [phase : PhaseNames, kind : Allowlist, code : Codes \cup {Ok, NoCode}]
\* addStepResult files of a result what the evidence shows of it: no code.
StepEvidence == [phase : PhaseNames, kind : Allowlist, passed : BOOLEAN]
Filing(r) == [phase |-> r.phase, kind |-> r.kind, passed |-> Passed(r)]

\* How many of the results t are of a phase, and which of its phase the s-th is.
Count(t, p) == Cardinality({i \in 1..Len(t) : t[i].phase = p})
Nth(t, s) == Cardinality({i \in 1..s : t[i].phase = t[s].phase})

Places == PhaseNames \cup {"parse", "provision", "probe", "finalize", "dispose", "done"}
Statuses == {"completed", "failed"}

\* Every variable of the engine and of its collector has its type.
TypeOK ==
  /\ pc \in Places
  /\ doc \in Documents \cup {None}
  /\ next \in 1..(MaxSteps + 1)
  /\ steps \in Seq(StepResults)
  /\ through \in BOOLEAN
  /\ code \in Codes \cup {NoCode}
  /\ current \in Seq(StepEvidence)
  /\ phases \in Seq([phase : PhaseNames, steps : Seq(StepEvidence)])
  /\ runtime \in {"none", "up", "released"}
  /\ alive \in BOOLEAN
  /\ result = None \/ result \in [status : Statuses, code : Codes \cup {NoCode}]
  /\ evidence = None \/ evidence = [status |-> result.status, phases |-> phases]

Init ==
  /\ pc = "parse"
  /\ doc = None
  /\ next = 1
  /\ steps = <<>>
  /\ through = FALSE
  /\ code = NoCode
  /\ current = <<>>
  /\ phases = <<>>
  /\ runtime = "none"
  /\ alive = TRUE
  /\ result = None
  /\ evidence = None

(***************************************************************************)
(* The document.                                                           *)
(***************************************************************************)
ExpectsFailure(d) == d.expect # None /\ d.expect.status = "failed"

Valid(d) ==
  /\ \A p \in PhaseNames : Len(d[p]) <= MaxSteps
  /\ \A p \in PhaseNames : \A i \in DOMAIN d[p] : d[p][i] \in Allowlist
  /\ d["then"] = <<>> => ExpectsFailure(d)

\* No such file, or not YAML.
Unreadable ==
  /\ pc = "parse"
  /\ code' = "SCENARIO_SCHEMA_INVALID"
  /\ pc' = "finalize"
  /\ UNCHANGED <<doc, next, steps, through, collector, paper, report>>

\* An invalid document ends the run as well, and leaves no code.
Invalid ==
  /\ pc = "parse"
  /\ \E d \in Documents : ~Valid(d)
  /\ pc' = "finalize"
  /\ UNCHANGED <<doc, next, steps, through, code, collector, paper, report>>

Accept ==
  /\ pc = "parse"
  /\ \E d \in Documents : Valid(d) /\ doc' = d
  /\ pc' = "provision"
  /\ UNCHANGED <<next, steps, through, code, collector, paper, report>>

(***************************************************************************)
(* The phases.                                                             *)
(***************************************************************************)
\* startPhase.
Enter(p) ==
  /\ pc' = p
  /\ next' = 1
  /\ current' = <<>>

\* runCleanup: an empty cleanup does not even start the phase.
EnterCleanup ==
  \/ doc.cleanup # <<>> /\ Enter("cleanup")
  \/ doc.cleanup = <<>> /\ pc' = "finalize" /\ current' = <<>> /\ UNCHANGED next

Provision ==
  /\ pc = "provision"
  /\ runtime' = "up"
  /\ pc' = "probe"
  /\ UNCHANGED <<doc, next, steps, through, code, collector, alive, report>>

ProvisionFailsSilently ==
  /\ pc = "provision"
  /\ code' \in ProvisionCodes
  /\ pc' = "finalize"
  /\ UNCHANGED <<doc, next, steps, through, collector, paper, report>>

\* The engine has no runtime: the cleanup runs against nothing.
ProvisionFails ==
  /\ pc = "provision"
  /\ code' \in ProvisionCodes
  /\ EnterCleanup
  /\ UNCHANGED <<doc, steps, through, phases, paper, report>>

\* Asks for one event and ignores what comes back.
InitEventSequence ==
  /\ pc = "probe"
  /\ Enter("given")
  /\ UNCHANGED <<doc, steps, through, code, phases, paper, report>>

\* An actor step fails on its own account as well; without a runtime there is
\* no actor client.
ActorOutcomes(failures) ==
  CASE runtime # "up" -> {"ACTOR_UNAVAILABLE"}
    [] runtime = "up" /\ alive -> {Ok} \cup Refusals \cup failures
    [] OTHER -> {Unavailable}

CreateOutcomes == ActorOutcomes({"ACTOR_LOGIN_FAILED"})
ActOutcomes == ActorOutcomes({"ACTOR_CRASHED"})
DisconnectOutcomes == ActorOutcomes({})
WorldOutcomes == IF runtime = "up" /\ alive THEN {Ok} \cup Refusals ELSE {Unavailable}

\* A step reads its body once it has found its client, and a null body is an
\* error without a code.
BodilessOutcomes(kind) ==
  CASE kind = "player.move: null" /\ runtime # "up" -> {"ACTOR_UNAVAILABLE"}
    [] kind = "world.set_block: null" /\ runtime # "up" -> {Unavailable}
    [] kind = "assert.no_log: null" -> {Ok}
    [] OTHER -> {NoCode}

\* dispatchStep: an assertion outside `then' does nothing and passes.
Outcomes(kind) ==
  CASE kind = "test_actor.create" -> CreateOutcomes
    [] kind = "test_actor.disconnect_all" -> DisconnectOutcomes
    [] kind \in ActorActs -> ActOutcomes
    [] kind \in WorldActs -> WorldOutcomes
    [] kind \in Bodiless -> BodilessOutcomes(kind)
    [] OTHER -> {Ok}

\* #steps.push and addStepResult.
Record(p, kind, outcome) ==
  LET r == [phase |-> p, kind |-> kind, code |-> outcome]
  IN /\ steps' = Append(steps, r)
     /\ current' = Append(current, Filing(r))
     /\ next' = next + 1

StoppedInGiven(p) ==
  p = "given" /\ \E i \in DOMAIN steps : steps[i].phase = p /\ ~Passed(steps[i])

\* A failed step has ended the phase.
Stopped(p) ==
  /\ p \in {"given", "when"}
  /\ \E i \in DOMAIN steps : steps[i].phase = p /\ ~Passed(steps[i])

Remaining(p) == pc = p /\ next <= Len(doc[p]) /\ ~Stopped(p)

ExecuteStep(p) ==
  /\ Remaining(p)
  /\ \E o \in Outcomes(doc[p][next]) : Record(p, doc[p][next], o)
  /\ UNCHANGED <<pc, doc, through, code, phases, paper, report>>

\* One look at the world.  A query needs an answer; the events are read under
\* the runtime's boot id.
QueryMayPass == alive
EventMayPass == runtime = "up" /\ alive

\* The Bridge knows no query for the log, and the error is swallowed.
NoLogPasses == runtime = "up"

\* evaluateAssertion: a step that asserts nothing is an error on every look.
MayPass(kind) ==
  \/ kind = "assert.block" /\ QueryMayPass
  \/ kind = "assert.event" /\ EventMayPass
  \/ kind = "assert.no_log" /\ NoLogPasses

\* Looks that fail are followed by a sleep and another look; only the look that
\* passes and the deadline leave a trace.
AssertionPasses ==
  /\ Remaining("then")
  /\ MayPass(doc["then"][next])
  /\ Record("then", doc["then"][next], Ok)
  /\ UNCHANGED <<pc, doc, through, code, phases, paper, report>>

\* The deadline, which may have passed before the first look.
AssertionTimesOut ==
  /\ Remaining("then")
  /\ doc["then"][next] \notin Bodiless
  /\ Record("then", doc["then"][next], NoCode)
  /\ UNCHANGED <<pc, doc, through, code, phases, paper, report>>

\* The body is read for `within' before the first look and outside its try: an
\* engine error without a code.  The catch goes on to the cleanup, which starts
\* a phase of its own: `then' is never completed, whatever it had collected.
AssertionThrows ==
  /\ Remaining("then")
  /\ doc["then"][next] \in Bodiless
  /\ \/ doc.cleanup # <<>> /\ Enter("cleanup")
     \/ doc.cleanup = <<>> /\ pc' = "finalize" /\ UNCHANGED <<next, current>>
  /\ UNCHANGED <<doc, steps, through, code, phases, paper, report>>

\* completePhase.
Complete(p) ==
  /\ pc = p
  /\ ~Remaining(p)
  /\ phases' = Append(phases, [phase |-> p, steps |-> current])

LeavePhaseOpen(p, successor) ==
  /\ pc = p /\ ~Remaining(p)
  /\ \/ Stopped(p) /\ EnterCleanup /\ UNCHANGED phases
     \/ ~Stopped(p) /\ Complete(p) /\ Enter(successor)
  /\ UNCHANGED <<doc, steps, through, code, paper, report>>

LeavePhase(p, successor) ==
  /\ Complete(p)
  /\ \/ Stopped(p) /\ EnterCleanup
     \/ ~Stopped(p) /\ Enter(successor)
  /\ UNCHANGED <<doc, steps, through, code, paper, report>>

LeaveThen ==
  /\ Complete("then")
  /\ through' = TRUE
  /\ EnterCleanup
  /\ UNCHANGED <<doc, steps, code, paper, report>>

LeaveCleanup ==
  /\ Complete("cleanup")
  /\ pc' = "finalize"
  /\ current' = <<>>
  /\ UNCHANGED <<doc, next, steps, through, code, paper, report>>

(***************************************************************************)
(* The verdict.                                                            *)
(***************************************************************************)
Failures == {i \in DOMAIN steps : ~Passed(steps[i])}
FailuresAnywhere == Failures
MainFailures == {i \in Failures : steps[i].phase # "cleanup"}

RawStatus == IF through /\ MainFailures = {} THEN "completed" ELSE "failed"

\* The code of the first step that failed, in whatever phase.
StepCode ==
  IF Failures = {} THEN NoCode
  ELSE steps[CHOOSE i \in Failures : \A j \in Failures : i <= j].code

Satisfied(expect) ==
  /\ RawStatus = expect.status
  /\ expect.code \in {NoCode, StepCode}

Status ==
  IF doc = None \/ doc.expect = None THEN RawStatus
  ELSE IF Satisfied(doc.expect) THEN "completed" ELSE "failed"

ErrorCode == IF StepCode = NoCode THEN code ELSE StepCode

\* flush: a store that refuses the evidence is only logged.
Flushed == {None, [status |-> Status, phases |-> phases]}

\* finalize and buildResult.
Finalize ==
  /\ pc = "finalize"
  /\ result' = [status |-> Status, code |-> ErrorCode]
  /\ evidence' \in Flushed
  /\ pc' = "dispose"
  /\ UNCHANGED <<doc, next, steps, through, code, collector, paper>>

DisposeAfterSuccess ==
  /\ pc = "dispose"
  /\ runtime' = IF runtime = "up" /\ result.status = "completed" THEN "released" ELSE runtime
  /\ pc' = "done"
  /\ UNCHANGED <<doc, next, steps, through, code, collector, alive, report>>

\* scenarioRun's finally block: stop and release, whatever they answer.
DisposeRuntime ==
  /\ pc = "dispose"
  /\ runtime' = IF runtime = "up" THEN "released" ELSE runtime
  /\ pc' = "done"
  /\ UNCHANGED <<doc, next, steps, through, code, collector, alive, report>>

Engine ==
  \/ Unreadable \/ Invalid \/ Accept
  \/ Provision \/ ProvisionFails \/ InitEventSequence
  \/ \E p \in {"given", "when", "cleanup"} : ExecuteStep(p)
  \/ AssertionPasses \/ AssertionTimesOut \/ AssertionThrows
  \/ LeavePhase("given", "when") \/ LeavePhase("when", "then")
  \/ LeaveThen \/ LeaveCleanup
  \/ Finalize \/ DisposeRuntime

PaperDies ==
  /\ runtime = "up"
  /\ alive
  /\ alive' = FALSE
  /\ UNCHANGED <<engine, collector, runtime, report>>

Next == Engine \/ PaperDies
Spec == Init /\ [][Next]_vars

\* Every await of the engine settles: provisioning and Bridge calls have
\* time-outs, an assertion has its deadline, a wait its ten seconds.
FairSpec == Spec /\ WF_vars(Engine)

(***************************************************************************)
(* Properties.                                                             *)
(***************************************************************************)
\* The steps of a document run in its order, each at most once, and a failed
\* `given' or `when' step is followed by cleanup steps only: no assertion is
\* judged, and no further player acts, on a world that was not set up.
StepsFollowTheDocument ==
  /\ \A s \in DOMAIN steps : LET stated == doc[steps[s].phase] IN
       /\ Nth(steps, s) <= Len(stated)
       /\ steps[s].kind = stated[Nth(steps, s)]
  /\ \A i, j \in DOMAIN steps : i < j =>
       /\ Rank(steps[i].phase) <= Rank(steps[j].phase)
       /\ steps[i].phase \in {"given", "when"} /\ ~Passed(steps[i]) =>
            steps[j].phase = "cleanup"

\* DSL-10: once a valid scenario has ended, in whatever way, every step of its
\* cleanup was tried exactly once, after everything else.
CleanupTriedOnce ==
  pc \in {"finalize", "dispose", "done"} /\ doc # None =>
    /\ Count(steps, "cleanup") = Len(doc.cleanup)
    /\ \A i \in DOMAIN steps : steps[i].phase = "cleanup" =>
         i > Len(steps) - Len(doc.cleanup)

\* A scenario without `expect' is reported completed if and only if every step
\* of its three main phases was executed and passed: neither a failed cleanup
\* nor a runtime that never came up can turn the verdict.
VerdictIsEarned ==
  result # None /\ doc # None /\ doc.expect = None =>
    (result.status = "completed" <=>
       /\ \A i \in DOMAIN steps : steps[i].phase # "cleanup" => Passed(steps[i])
       /\ \A p \in PhaseNames \ {"cleanup"} : Count(steps, p) = Len(doc[p]))

\* Some of the assertions were never judged.
CutOff == Count(steps, "then") < Len(doc["then"])

\* The evidence filed for a run has the verdict that was returned and every
\* step result the engine reports, each under its own phase and in the order of
\* execution, whichever way the run ended: all but those of a `then' that an
\* engine error cut off, of which nothing at all is filed.
EvidenceTellsAll ==
  evidence # None =>
    /\ evidence.status = result.status
    /\ \A i, j \in DOMAIN evidence.phases :
         evidence.phases[i].phase = evidence.phases[j].phase => i = j
    /\ \A i \in DOMAIN evidence.phases : LET filed == evidence.phases[i] IN
         /\ Len(filed.steps) = Count(steps, filed.phase)
         /\ filed.phase = "then" => ~CutOff
    /\ \A s \in DOMAIN steps :
         \/ steps[s].phase = "then" /\ CutOff
         \/ \E i \in DOMAIN evidence.phases :
              /\ evidence.phases[i].phase = steps[s].phase
              /\ evidence.phases[i].steps[Nth(steps, s)] = Filing(steps[s])

\* DSL-11: every run ends, and no run leaves behind the runtime it was given.
RunEnds == <>(pc = "done" /\ runtime # "up")

\* DSL-12 as its document puts it: a scenario that expects a failure is
\* completed by a step of `given' or `when' (or an assertion) that failed,
\* never by a run that did not get as far as its first step.
ExpectedFailureHappened ==
  result # None /\ doc # None =>
    (ExpectsFailure(doc) /\ result.status = "completed" => MainFailures # {})
=============================================================================
