-------------------------- MODULE ScenarioRunProofs --------------------------
(* Theorems about one run of the scenario engine, for any documents whose  *)
(* phases are sequences and whatever Paper and its Bridge answer.          *)
EXTENDS ScenarioRun, FiniteSetTheorems, TLAPS

MainPhases == {"given", "when", "then"}
Ended == {"finalize", "dispose", "done"}
Ending == Ended \cup {"cleanup"}

(* The four phases, in the order of validateScenario's phaseKeys.          *)
LEMMA Ranks ==
  /\ PhaseNames = {"given", "when", "then", "cleanup"}
  /\ Rank("given") = 1 /\ Rank("when") = 2 /\ Rank("then") = 3 /\ Rank("cleanup") = 4
<1>1. PhaseNames = {"given", "when", "then", "cleanup"}
  BY DEF PhaseNames, PhaseOrder
<1>2. /\ PhaseOrder[1] = "given" /\ PhaseOrder[2] = "when" /\ PhaseOrder[3] = "then"
      /\ PhaseOrder[4] = "cleanup" /\ DOMAIN PhaseOrder = 1..4
  BY DEF PhaseOrder
<1>3. Rank("given") = 1
  BY <1>2 DEF Rank
<1>4. Rank("when") = 2
  BY <1>2 DEF Rank
<1>5. Rank("then") = 3
  BY <1>2 DEF Rank
<1>6. Rank("cleanup") = 4
  BY <1>2 DEF Rank
<1> QED BY <1>1, <1>3, <1>4, <1>5, <1>6

-----------------------------------------------------------------------------
(* Counting results.                                                       *)

(* A count is a number, and the place of a result is within its phase's.   *)
LEMMA CountType ==
  ASSUME NEW t \in Seq(StepResults), NEW p
  PROVE  /\ Count(t, p) \in Nat
         /\ \A s \in 1..Len(t) : t[s].phase = p => Nth(t, s) \in 1..Count(t, p)
<1> DEFINE C == {i \in 1..Len(t) : t[i].phase = p}
<1>1. IsFiniteSet(C) /\ Cardinality(C) \in Nat
  <2>1. IsFiniteSet(1..Len(t))
    BY FS_Interval
  <2>2. C \in SUBSET (1..Len(t))
    OBVIOUS
  <2>3. IsFiniteSet(C)
    <3> HIDE DEF C
    <3> QED BY <2>1, <2>2, FS_Subset
  <2> QED BY <2>3, FS_CardinalityType
<1>2. ASSUME NEW s \in 1..Len(t), t[s].phase = p PROVE Nth(t, s) \in 1..Cardinality(C)
  <2> DEFINE D == {i \in 1..s : t[i].phase = t[s].phase}
  <2>1. D \subseteq C /\ s \in D
    BY <1>2
  <2> HIDE DEF C, D
  <2>2. IsFiniteSet(D) /\ Cardinality(D) <= Cardinality(C)
    BY <1>1, <2>1, FS_Subset
  <2>3. Cardinality(D) \in Nat /\ Cardinality(D) # 0
    BY <2>1, <2>2, FS_CardinalityType, FS_EmptySet
  <2>4. Cardinality(D) \in 1..Cardinality(C)
    BY <1>1, <2>2, <2>3
  <2> QED BY <2>4 DEF D, Nth
<1> QED BY <1>1, <1>2 DEF Count

(* A phase without results counts none.                                    *)
LEMMA CountNone ==
  ASSUME NEW t, NEW p, \A i \in 1..Len(t) : t[i].phase # p
  PROVE  Count(t, p) = 0
<1>1. {i \in 1..Len(t) : t[i].phase = p} = {}
  OBVIOUS
<1> QED BY <1>1, FS_EmptySet DEF Count

(* A result more is the last of its phase and moves no other.              *)
OneMore(t, r, u) ==
  /\ \A p : Count(u, p) = IF p = r.phase THEN Count(t, p) + 1 ELSE Count(t, p)
  /\ \A s \in 1..Len(t) : Nth(u, s) = Nth(t, s)
  /\ Nth(u, Len(t) + 1) = Count(t, r.phase) + 1

LEMMA CountAppend ==
  ASSUME NEW t \in Seq(StepResults), NEW r \in StepResults,
         NEW u, u = Append(t, r)
  PROVE  OneMore(t, r, u)
<1> DEFINE n == Len(t) + 1
           C(v, p) == {i \in 1..Len(v) : v[i].phase = p}
<1>1. /\ n \in Nat /\ Len(t) \in Nat /\ Len(u) = n /\ u[n] = r /\ n \notin 1..Len(t)
      /\ 1..n = (1..Len(t)) \cup {n}
      /\ \A i \in 1..Len(t) : u[i] = t[i]
  OBVIOUS
<1>2. ASSUME NEW p PROVE IsFiniteSet(C(t, p)) /\ Cardinality(C(t, p)) \in Nat
  <2>1. IsFiniteSet(1..Len(t))
    BY FS_Interval
  <2>2. C(t, p) \in SUBSET (1..Len(t))
    OBVIOUS
  <2>3. IsFiniteSet(C(t, p))
    <3> HIDE DEF C
    <3> QED BY <2>1, <2>2, FS_Subset
  <2> QED BY <2>3, FS_CardinalityType
<1>3. Cardinality(C(t, r.phase) \cup {n}) = Cardinality(C(t, r.phase)) + 1
  <2>1. n \notin C(t, r.phase)
    BY <1>1
  <2> HIDE DEF C, n
  <2> QED BY <1>2, <2>1, FS_AddElement
<1>4. C(u, r.phase) = C(t, r.phase) \cup {n}
  BY <1>1
<1>5. ASSUME NEW p, p # r.phase PROVE C(u, p) = C(t, p)
  BY <1>1, <1>5
<1>6. ASSUME NEW s \in 1..Len(t) PROVE Nth(u, s) = Nth(t, s)
  <2>1. {i \in 1..s : u[i].phase = u[s].phase} = {i \in 1..s : t[i].phase = t[s].phase}
    BY <1>1
  <2> QED BY <2>1 DEF Nth
<1>7. {i \in 1..n : u[i].phase = u[n].phase} = C(u, r.phase)
  BY <1>1
<1>8. Nth(u, n) = Count(t, r.phase) + 1
  BY <1>3, <1>4, <1>7 DEF Nth, Count
<1>9. ASSUME NEW p PROVE Count(u, p) = IF p = r.phase THEN Count(t, p) + 1 ELSE Count(t, p)
  <2>1. CASE p = r.phase
    BY <1>3, <1>4, <2>1 DEF Count
  <2>2. CASE p # r.phase
    BY <1>5, <2>2 DEF Count
  <2> QED BY <2>1, <2>2
<1> QED BY <1>6, <1>8, <1>9 DEF OneMore

-----------------------------------------------------------------------------
(* The inductive invariant.                                                *)

Whole(p) == Count(steps, p) = Len(doc[p])

(* The filings of the results t of a phase, in their order.                *)
Holds(results, t, p) ==
  /\ Len(results) = Count(t, p)
  /\ \A s \in 1..Len(t) : t[s].phase = p => results[Nth(t, s)] = Filing(t[s])

(* Nothing runs before there is a valid document.                          *)
DocumentIsValid ==
  /\ doc = None => pc \in {"parse"} \cup Ended
  /\ doc = None \/ pc \in {"parse", "provision", "probe"} =>
       steps = <<>> /\ phases = <<>> /\ ~through
  /\ doc # None => doc \in Documents /\ Valid(doc) /\ pc # "parse"

(* The loop index and the collector keep up with the phase that runs.      *)
PhaseRuns ==
  pc \in PhaseNames =>
    /\ Holds(current, steps, pc)
    /\ next = Count(steps, pc) + 1
    /\ next <= Len(doc[pc]) + 1

KindsFollow ==
  \A s \in 1..Len(steps) :
    /\ Nth(steps, s) <= Len(doc[steps[s].phase])
    /\ steps[s].kind = doc[steps[s].phase][Nth(steps, s)]

PhasesInOrder ==
  /\ \A i, j \in 1..Len(steps) : i < j => Rank(steps[i].phase) <= Rank(steps[j].phase)
  /\ pc \in PhaseNames => \A i \in 1..Len(steps) : Rank(steps[i].phase) <= Rank(pc)

(* A failed step of given or when is the last but for the cleanup.         *)
FailuresStop ==
  \A i \in 1..Len(steps) : steps[i].phase \in {"given", "when"} /\ ~Passed(steps[i]) =>
    /\ pc \in {steps[i].phase} \cup Ending
    /\ \A j \in 1..Len(steps) : i < j => steps[j].phase = "cleanup"

(* Whoever gets past a phase has executed all of it, and `through' says so *)
(* of all three; without it some assertion was never judged.               *)
Thorough ==
  /\ through => pc \in Ending /\ \A p \in MainPhases : Whole(p)
  /\ pc = "when" => Whole("given")
  /\ pc = "then" => Whole("given") /\ Whole("when")
  /\ pc \in Ending /\ ~through /\ doc # None => CutOff \/ Len(doc["then"]) = 0

CleanupIsLast ==
  /\ \A i \in 1..Len(steps) :
       steps[i].phase = "cleanup" <=> i > Len(steps) - Count(steps, "cleanup")
  /\ pc \in Ended /\ doc # None => Whole("cleanup")

(* The collector has filed the phases that are over, and all of each, but  *)
(* for a `then' that was cut off.                                          *)
PhasesFiled ==
  /\ \A i, j \in 1..Len(phases) : phases[i].phase = phases[j].phase => i = j
  /\ \A i \in 1..Len(phases) : Holds(phases[i].steps, steps, phases[i].phase)
  /\ pc \in PhaseNames => \A i \in 1..Len(phases) : Rank(phases[i].phase) < Rank(pc)
  /\ \A i \in 1..Len(phases) : phases[i].phase = "then" => ~CutOff
  /\ \A s \in 1..Len(steps) :
       \/ steps[s].phase = pc
       \/ steps[s].phase = "then" /\ CutOff
       \/ \E i \in 1..Len(phases) : phases[i].phase = steps[s].phase

(* If a step has failed, one was the first: buildResult finds it.          *)
OneFailedFirst == Failures # {} => \E i \in Failures : \A j \in Failures : i <= j

Reported ==
  /\ result # None => pc \in {"dispose", "done"} /\ result.status = Status
  /\ evidence # None =>
       /\ pc \in {"dispose", "done"}
       /\ evidence = [status |-> result.status, phases |-> phases]

Progress == PhaseRuns /\ KindsFollow /\ PhasesInOrder /\ FailuresStop /\ Thorough
            /\ CleanupIsLast /\ PhasesFiled /\ OneFailedFirst
IInv == TypeOK /\ DocumentIsValid /\ Progress /\ Reported

(* What is known of a valid document.                                      *)
LEMMA DocumentFacts ==
  ASSUME ScenarioAssumption, DocumentIsValid, doc # None, NEW p \in PhaseNames
  PROVE  /\ Len(doc[p]) \in Nat /\ Len(doc[p]) <= MaxSteps
         /\ \A i \in 1..Len(doc[p]) : doc[p][i] \in Allowlist
<1>1. p \in {"given", "when", "then", "cleanup"}
  BY Ranks
<1>2. doc[p] \in Seq({doc[p][i] : i \in DOMAIN doc[p]})
  BY <1>1 DEF ScenarioAssumption, DocumentIsValid
<1>3. Len(doc[p]) \in Nat /\ DOMAIN doc[p] = 1..Len(doc[p])
  BY <1>2
<1> QED BY <1>3 DEF DocumentIsValid, Valid

-----------------------------------------------------------------------------
(* A step that records a result r.                                         *)

Recorded(r) ==
  /\ pc \in PhaseNames /\ Remaining(pc)
  /\ r \in StepResults /\ r.phase = pc /\ r.kind = doc[pc][next]
  /\ steps' = Append(steps, r)
  /\ current' = Append(current, Filing(r))
  /\ next' = next + 1
  /\ UNCHANGED <<pc, doc, through, code, phases, paper, report>>

(* executeStep and executeAssertion record one result, of the step at the  *)
(* loop index.                                                             *)
LEMMA RecordingSteps ==
  ASSUME ScenarioAssumption, IInv,
         \/ \E p \in {"given", "when", "cleanup"} : ExecuteStep(p)
         \/ AssertionPasses \/ AssertionTimesOut
  PROVE  \E r \in StepResults : Recorded(r)
<1>1. doc # None /\ pc \in PhaseNames /\ Remaining(pc)
  BY Ranks DEF ExecuteStep, AssertionPasses, AssertionTimesOut, Remaining, IInv,
               DocumentIsValid, Ended
<1>2. doc[pc][next] \in Allowlist
  <2>1. next \in Nat \ {0} /\ next <= Len(doc[pc])
    BY <1>1 DEF Remaining, IInv, TypeOK
  <2>2. Len(doc[pc]) \in Nat /\ \A i \in 1..Len(doc[pc]) : doc[pc][i] \in Allowlist
    BY <1>1, DocumentFacts DEF IInv
  <2>3. next \in 1..Len(doc[pc])
    BY <2>1, <2>2
  <2> QED BY <2>2, <2>3
<1> DEFINE k == doc[pc][next]
<1>3. ASSUME NEW o \in Codes \cup {Ok, NoCode}, Record(pc, k, o),
             UNCHANGED <<pc, doc, through, code, phases, paper, report>>
      PROVE  \E r \in StepResults : Recorded(r)
  <2> DEFINE r == [phase |-> pc, kind |-> k, code |-> o]
  <2>1. r \in StepResults /\ r.phase = pc /\ r.kind = k
    BY <1>1, <1>2 DEF StepResults
  <2>2. Recorded(r)
    BY <1>1, <1>3, <2>1 DEF Recorded, Record
  <2> QED BY <2>1, <2>2
<1>4. ASSUME NEW p \in {"given", "when", "cleanup"}, ExecuteStep(p)
      PROVE  \E r \in StepResults : Recorded(r)
  <2>1. PICK o \in Outcomes(doc[p][next]) : Record(p, doc[p][next], o)
    BY <1>4 DEF ExecuteStep
  <2>2. p = pc
    BY <1>4 DEF ExecuteStep, Remaining
  <2>3. Outcomes(k) \subseteq Codes \cup {Ok, NoCode}
    <3>1. /\ WorldOutcomes \subseteq Codes \cup {Ok}
          /\ ActorOutcomes({}) \subseteq Codes \cup {Ok}
          /\ ActorOutcomes({"ACTOR_LOGIN_FAILED"}) \subseteq Codes \cup {Ok}
          /\ ActorOutcomes({"ACTOR_CRASHED"}) \subseteq Codes \cup {Ok}
      <4>1. \A f \in SUBSET Codes : ActorOutcomes(f) \subseteq Codes \cup {Ok}
        BY DEF ActorOutcomes, Codes, Refusals, Unavailable
      <4> QED BY <4>1 DEF WorldOutcomes, Codes, Refusals, Unavailable
    <3>2. BodilessOutcomes(k) \subseteq Codes \cup {Ok, NoCode}
      BY DEF BodilessOutcomes, Codes, Refusals, Unavailable
    <3> QED BY <3>1, <3>2 DEF Outcomes, CreateOutcomes, ActOutcomes, DisconnectOutcomes
  <2>4. UNCHANGED <<pc, doc, through, code, phases, paper, report>>
    BY <1>4 DEF ExecuteStep
  <2> QED BY <1>3, <2>1, <2>2, <2>3, <2>4
<1>5. CASE AssertionPasses
  <2>1. pc = "then" /\ Record("then", doc["then"][next], Ok)
        /\ UNCHANGED <<pc, doc, through, code, phases, paper, report>>
    BY <1>5 DEF AssertionPasses, Remaining
  <2> QED BY <1>3, <2>1
<1>6. CASE AssertionTimesOut
  <2>1. pc = "then" /\ Record("then", doc["then"][next], NoCode)
        /\ UNCHANGED <<pc, doc, through, code, phases, paper, report>>
    BY <1>6 DEF AssertionTimesOut, Remaining
  <2> QED BY <1>3, <2>1
<1> QED BY <1>4, <1>5, <1>6

(* It is filed where the document, the order of the phases and the         *)
(* collector have it.                                                      *)
LEMMA RecordingKeeps ==
  ASSUME ScenarioAssumption, IInv, NEW r \in StepResults, Recorded(r)
  PROVE  IInv'
<1> DEFINE n == Len(steps) + 1
           c == Count(steps, pc) + 1
<1>1. /\ steps \in Seq(StepResults) /\ current \in Seq(StepEvidence) /\ next \in Nat
      /\ MaxSteps \in Nat /\ pc \in PhaseNames /\ r.phase = pc /\ doc # None
      /\ steps' \in Seq(StepResults) /\ current' \in Seq(StepEvidence)
      /\ n \in Nat \ {0} /\ Len(steps') = n /\ steps'[n] = r
      /\ \A i \in 1..Len(steps) : steps'[i] = steps[i] /\ i \in 1..n
      /\ \A i \in 1..n : i = n \/ i \in 1..Len(steps)
      /\ Len(steps) \in Nat
  <2>1. Filing(r) \in StepEvidence
    BY DEF Filing, StepEvidence, StepResults, Passed
  <2> QED BY <2>1, Ranks DEF IInv, TypeOK, Recorded, ScenarioAssumption, DocumentIsValid, Ended
<1>2. UNCHANGED <<pc, doc, through, code, phases, runtime, alive, result, evidence>>
  BY DEF Recorded, paper, report
<1>3. /\ \A p : Count(steps', p) = IF p = pc THEN c ELSE Count(steps, p)
      /\ \A s \in 1..Len(steps) : Nth(steps', s) = Nth(steps, s)
      /\ Nth(steps', n) = c
  <2>1. steps' = Append(steps, r)
    BY DEF Recorded
  <2>2. OneMore(steps, r, steps')
    <3>1. steps \in Seq(StepResults)
      BY <1>1
    <3> QED BY <2>1, <3>1, CountAppend
  <2>3. r.phase = pc
    BY <1>1
  <2> QED BY <2>2, <2>3 DEF OneMore
<1>4. /\ Count(steps, pc) \in Nat /\ c \in Nat
      /\ \A s \in 1..Len(steps) : steps[s].phase = pc => Nth(steps, s) \in 1..Count(steps, pc)
  BY <1>1, CountType
<1>5. next = c /\ c <= Len(doc[pc]) /\ Len(doc[pc]) \in Nat /\ Len(doc[pc]) <= MaxSteps
      /\ r.kind = doc[pc][c] /\ Len(current) = Count(steps, pc) /\ Holds(current, steps, pc)
  <2>1. next = c /\ Holds(current, steps, pc)
    BY <1>1 DEF IInv, Progress, PhaseRuns
  <2>2. Len(doc[pc]) \in Nat /\ Len(doc[pc]) <= MaxSteps
    BY <1>1, DocumentFacts DEF IInv
  <2> QED BY <2>1, <2>2 DEF Recorded, Remaining, Holds
<1> HIDE DEF n, c
<1>6. TypeOK'
  <2>1. next' \in 1..(MaxSteps + 1)
    <3>1. next' = c + 1
      BY <1>5 DEF Recorded
    <3> QED BY <1>1, <1>4, <1>5, <3>1
  <2> QED BY <1>1, <1>2, <2>1 DEF TypeOK, IInv
<1>7. DocumentIsValid'
  BY <1>1, <1>2, Ranks DEF IInv, DocumentIsValid, Ended, Valid
<1>8. PhaseRuns'
  <2>1. Holds(current', steps', pc)
    <3>1. Len(current') = c /\ current'[c] = Filing(r)
          /\ \A k \in 1..Count(steps, pc) : current'[k] = current[k]
      <4>1. current' = Append(current, Filing(r)) /\ current \in Seq(StepEvidence)
        BY <1>1 DEF Recorded
      <4> QED BY <1>5, <4>1 DEF c
    <3>2. ASSUME NEW s \in 1..n, steps'[s].phase = pc PROVE current'[Nth(steps', s)] = Filing(steps'[s])
      <4>1. CASE s = n
        BY <1>1, <1>3, <3>1, <4>1
      <4>2. CASE s \in 1..Len(steps)
        BY <1>1, <1>3, <1>4, <1>5, <3>1, <3>2, <4>2 DEF Holds
      <4> QED BY <1>1, <4>1, <4>2
    <3> QED BY <1>1, <1>3, <3>1, <3>2 DEF Holds
  <2>2. next' = c + 1
    BY <1>5 DEF Recorded
  <2> QED BY <1>2, <1>3, <1>4, <1>5, <2>1, <2>2 DEF PhaseRuns
<1>9. KindsFollow'
  <2> SUFFICES ASSUME NEW s \in 1..n
               PROVE  /\ Nth(steps', s) <= Len(doc[steps'[s].phase])
                      /\ steps'[s].kind = doc[steps'[s].phase][Nth(steps', s)]
    BY <1>1, <1>2 DEF KindsFollow
  <2>1. CASE s = n
    BY <1>1, <1>3, <1>5, <2>1
  <2>2. CASE s \in 1..Len(steps)
    BY <1>1, <1>3, <2>2 DEF IInv, Progress, KindsFollow
  <2> QED BY <1>1, <2>1, <2>2
<1>10. PhasesInOrder'
  <2>1. \A i \in 1..n : Rank(steps'[i].phase) <= Rank(pc)
    <3>1. Rank(pc) <= Rank(pc)
      BY <1>1, Ranks
    <3> QED BY <1>1, <3>1 DEF IInv, Progress, PhasesInOrder
  <2>2. ASSUME NEW i \in 1..n, NEW j \in 1..n, i < j
        PROVE  Rank(steps'[i].phase) <= Rank(steps'[j].phase)
    <3>1. i \in 1..Len(steps)
      BY <1>1, <2>2
    <3>2. CASE j = n
      BY <1>1, <2>1, <3>2
    <3>3. CASE j \in 1..Len(steps)
      BY <1>1, <2>2, <3>1, <3>3 DEF IInv, Progress, PhasesInOrder
    <3> QED BY <1>1, <3>2, <3>3
  <2> QED BY <1>1, <1>2, <2>1, <2>2 DEF PhasesInOrder
<1>11. FailuresStop'
  <2> SUFFICES ASSUME NEW i \in 1..n, steps'[i].phase \in {"given", "when"}, ~Passed(steps'[i])
               PROVE  /\ pc \in {steps'[i].phase} \cup Ending
                      /\ \A j \in 1..n : i < j => steps'[j].phase = "cleanup"
    BY <1>1, <1>2 DEF FailuresStop
  <2>1. CASE i = n
    BY <1>1, <2>1
  <2>2. CASE i \in 1..Len(steps)
    <3>1. /\ pc \in {steps[i].phase} \cup Ending
          /\ \A j \in 1..Len(steps) : i < j => steps[j].phase = "cleanup"
          /\ steps[i].phase \in {"given", "when"} /\ ~Passed(steps[i])
      BY <1>1, <2>2 DEF IInv, Progress, FailuresStop
    <3>2. pc # steps[i].phase
      BY <1>1, <2>2, <3>1 DEF Recorded, Remaining, Stopped
    <3>3. pc = "cleanup"
      BY <1>1, <3>1, <3>2, Ranks DEF Ending, Ended
    <3> QED BY <1>1, <2>2, <3>1, <3>3 DEF Ending
  <2> QED BY <1>1, <2>1, <2>2
<1>12. Thorough'
  BY <1>1, <1>2, <1>3, Ranks DEF IInv, Progress, Thorough, CutOff, Whole, MainPhases, Ending, Ended
<1>13. CleanupIsLast'
  <2>1. ASSUME NEW i \in 1..n
        PROVE  steps'[i].phase = "cleanup" <=> i > n - Count(steps', "cleanup")
    <3>1. CASE pc = "cleanup"
      <4>1. n - Count(steps', "cleanup") = Len(steps) - Count(steps, "cleanup")
        BY <1>1, <1>3, <1>4, <3>1 DEF n, c
      <4>2. CASE i = n
        BY <1>1, <1>4, <3>1, <4>1, <4>2 DEF n
      <4>3. CASE i \in 1..Len(steps)
        BY <1>1, <4>1, <4>3 DEF IInv, Progress, CleanupIsLast
      <4> QED BY <1>1, <4>2, <4>3
    <3>2. CASE pc # "cleanup"
      <4>1. \A k \in 1..Len(steps) : steps[k].phase # "cleanup"
        <5>1. \A k \in 1..Len(steps) : Rank(steps[k].phase) <= Rank(pc)
          BY <1>1 DEF IInv, Progress, PhasesInOrder
        <5> QED BY <1>1, <3>2, <5>1, Ranks
      <4>2. Count(steps', "cleanup") = 0
        BY <1>3, <3>2, <4>1, CountNone
      <4>3. steps'[i].phase # "cleanup"
        BY <1>1, <3>2, <4>1
      <4> QED BY <1>1, <4>2, <4>3
    <3> QED BY <3>1, <3>2
  <2> QED BY <1>1, <1>2, <2>1, Ranks DEF CleanupIsLast, Ended
<1>14. PhasesFiled'
  <2>1. \A i \in 1..Len(phases) : phases[i].phase # pc
    <3>1. \A i \in 1..Len(phases) : Rank(phases[i].phase) < Rank(pc)
      BY <1>1 DEF IInv, Progress, PhasesFiled
    <3> QED BY <1>1, <3>1, Ranks
  <2>2. ASSUME NEW i \in 1..Len(phases) PROVE Holds(phases[i].steps, steps', phases[i].phase)
    <3>1. Holds(phases[i].steps, steps, phases[i].phase)
      BY DEF IInv, Progress, PhasesFiled
    <3>2. phases[i].phase # pc
      BY <2>1
    <3> QED BY <1>1, <1>3, <3>1, <3>2 DEF Holds
  <2>3. ASSUME pc # "then" PROVE CutOff' <=> CutOff
    BY <1>2, <1>3, <2>3 DEF CutOff
  <2>4. \A s \in 1..n :
          \/ steps'[s].phase = pc
          \/ steps'[s].phase = "then" /\ CutOff'
          \/ \E i \in 1..Len(phases) : phases[i].phase = steps'[s].phase
    BY <1>1, <2>3 DEF IInv, Progress, PhasesFiled
  <2>5. \A i \in 1..Len(phases) : phases[i].phase = "then" => ~CutOff'
    BY <2>1, <2>3 DEF IInv, Progress, PhasesFiled
  <2> QED BY <1>1, <1>2, <2>2, <2>4, <2>5 DEF IInv, Progress, PhasesFiled
<1>15. Reported'
  BY <1>1, <1>2, Ranks DEF IInv, Reported
<1>16. OneFailedFirst'
  <2>1. Failures \subseteq 1..Len(steps) /\ Failures' \subseteq Failures \cup {n}
        /\ Failures \subseteq Failures'
    BY <1>1 DEF Failures, IInv, TypeOK
  <2>2. CASE Failures = {}
    <3>1. CASE Failures' = {}
      BY <3>1 DEF OneFailedFirst
    <3>2. CASE Failures' # {}
      <4>1. Failures' = {n}
        BY <2>1, <2>2, <3>2
      <4>2. n <= n
        BY <1>1
      <4>3. n \in Failures' /\ \A j \in Failures' : n <= j
        BY <4>1, <4>2
      <4> QED BY <4>3 DEF OneFailedFirst
    <3> QED BY <3>1, <3>2
  <2>3. CASE Failures # {}
    <3>1. PICK i \in Failures : \A j \in Failures : i <= j
      BY <2>3 DEF IInv, Progress, OneFailedFirst
    <3>2. i <= n /\ i \in Failures'
      BY <1>1, <2>1, <3>1 DEF n
    <3>3. \A j \in Failures' : i <= j
      BY <2>1, <3>1, <3>2
    <3> QED BY <3>2, <3>3 DEF OneFailedFirst
  <2> QED BY <2>2, <2>3
<1> QED BY <1>6, <1>7, <1>8, <1>9, <1>10, <1>11, <1>12, <1>13, <1>14, <1>15, <1>16 DEF IInv, Progress

-----------------------------------------------------------------------------
(* The other steps record nothing.                                         *)

(* The verdict is a function of the document, the results and `through'.   *)
LEMMA StatusStays ==
  ASSUME UNCHANGED <<doc, steps, through>>
  PROVE  Status' = Status
<1>1. Failures' = Failures
  BY DEF Failures
<1>2. RawStatus' = RawStatus
  BY <1>1 DEF RawStatus, MainFailures
<1>3. StepCode' = StepCode
  BY <1>1 DEF StepCode
<1> QED BY <1>2, <1>3 DEF Status, Satisfied

(* A phase that is entered has no results yet.                             *)
LEMMA EnterRuns ==
  ASSUME ScenarioAssumption, TypeOK, DocumentIsValid, doc # None, NEW p \in PhaseNames, Enter(p),
         \A i \in 1..Len(steps) : steps[i].phase # p, UNCHANGED <<doc, steps>>
  PROVE  PhaseRuns' /\ next' \in 1..(MaxSteps + 1) /\ current' \in Seq(StepEvidence)
<1>1. Count(steps, p) = 0
  BY CountNone
<1>2. Len(doc[p]) \in Nat /\ MaxSteps \in Nat
  BY DocumentFacts DEF ScenarioAssumption
<1>3. Holds(<<>>, steps, p)
  BY <1>1 DEF Holds
<1> QED BY <1>1, <1>2, <1>3 DEF Enter, PhaseRuns

(* The cleanup is entered, or is empty and over.                           *)
LEMMA CleanupEntered ==
  ASSUME ScenarioAssumption, TypeOK, DocumentIsValid, doc # None, EnterCleanup,
         \A i \in 1..Len(steps) : steps[i].phase # "cleanup", UNCHANGED <<doc, steps>>
  PROVE  /\ pc' \in {"cleanup", "finalize"} /\ PhaseRuns' /\ CleanupIsLast'
         /\ next' \in 1..(MaxSteps + 1) /\ current' \in Seq(StepEvidence)
<1>1. Count(steps, "cleanup") = 0
  BY CountNone
<1>2. Len(steps) \in Nat
  BY DEF TypeOK
<1>3. CASE doc.cleanup # <<>> /\ Enter("cleanup")
  <2>1. PhaseRuns' /\ next' \in 1..(MaxSteps + 1) /\ current' \in Seq(StepEvidence)
    BY <1>3, EnterRuns, Ranks
  <2>2. pc' = "cleanup"
    BY <1>3 DEF Enter
  <2>3. CleanupIsLast'
    BY <1>1, <1>2, <2>2 DEF CleanupIsLast, Ended
  <2> QED BY <2>1, <2>2, <2>3
<1>4. CASE doc.cleanup = <<>> /\ pc' = "finalize" /\ current' = <<>> /\ UNCHANGED next
  <2>1. CleanupIsLast'
    BY <1>1, <1>2, <1>4 DEF CleanupIsLast, Whole
  <2>2. PhaseRuns'
    BY <1>4, Ranks DEF PhaseRuns
  <2> QED BY <1>4, <2>1, <2>2 DEF TypeOK
<1> QED BY <1>3, <1>4 DEF EnterCleanup

(* Before the first phase there are no results.                            *)
LEMMA BeginningKeeps ==
  ASSUME ScenarioAssumption, IInv,
         Unreadable \/ Invalid \/ Accept \/ Provision \/ ProvisionFails \/ InitEventSequence
  PROVE  IInv'
<1>1. /\ pc \in {"parse", "provision", "probe"} /\ steps = <<>> /\ phases = <<>> /\ ~through
      /\ UNCHANGED <<steps, through, phases, alive, result, evidence>>
      /\ pc = "parse" \/ doc # None
      /\ result = None /\ evidence = None /\ Len(steps) = 0 /\ Len(phases) = 0
  <2>1. pc \in {"parse", "provision", "probe"}
    BY DEF Unreadable, Invalid, Accept, Provision, ProvisionFails, InitEventSequence
  <2>2. UNCHANGED <<steps, through, phases, alive, result, evidence>>
    BY DEF Unreadable, Invalid, Accept, Provision, ProvisionFails, InitEventSequence,
           collector, paper, report
  <2>3. steps = <<>> /\ phases = <<>> /\ ~through
    BY <2>1 DEF IInv, DocumentIsValid
  <2>4. pc = "parse" \/ doc # None
    BY <2>1 DEF IInv, DocumentIsValid, Ended
  <2>5. result = None /\ evidence = None
    BY <2>1 DEF IInv, Reported
  <2>6. Len(steps) = 0 /\ Len(phases) = 0
    BY <2>3
  <2> QED BY <2>1, <2>2, <2>3, <2>4, <2>5, <2>6
<1>2. Count(steps, "cleanup") = 0
  BY <1>1, CountNone
<1>3. KindsFollow' /\ PhasesInOrder' /\ FailuresStop' /\ PhasesFiled' /\ OneFailedFirst' /\ Reported'
  BY <1>1 DEF KindsFollow, PhasesInOrder, FailuresStop, PhasesFiled, OneFailedFirst, Failures,
              Reported
<1>4. ASSUME Unreadable \/ Invalid \/ Accept \/ Provision,
             pc = "parse" => doc = None
      PROVE  IInv'
  <2>1. pc' \in {"provision", "finalize", "probe"} /\ doc' \in Documents \cup {None}
        /\ (pc' # "finalize" => doc' \in Documents /\ Valid(doc') /\ doc' # None)
        /\ (pc' = "finalize" => doc' = None)
        /\ UNCHANGED <<next, current>>
        /\ code' \in Codes \cup {NoCode} /\ runtime' \in {"none", "up", "released"}
    BY <1>1, <1>4 DEF Unreadable, Invalid, Accept, Provision, collector, paper, IInv, TypeOK,
                      DocumentIsValid, Ended, ScenarioAssumption, Codes
  <2>2. TypeOK'
    BY <1>1, <2>1 DEF IInv, TypeOK, Places
  <2>3. DocumentIsValid'
    BY <1>1, <2>1 DEF DocumentIsValid, Ended
  <2>4. PhaseRuns' /\ Thorough' /\ CleanupIsLast'
    BY <1>1, <1>2, <2>1, Ranks DEF PhaseRuns, Thorough, CleanupIsLast, Ending, Ended
  <2> QED BY <1>3, <2>2, <2>3, <2>4 DEF IInv, Progress
<1>5. CASE ProvisionFails
  <2>1. /\ PhaseRuns' /\ CleanupIsLast' /\ pc' \in {"cleanup", "finalize"}
        /\ next' \in 1..(MaxSteps + 1) /\ current' \in Seq(StepEvidence)
    <3>1. EnterCleanup /\ UNCHANGED <<doc, steps>> /\ doc # None
      BY <1>1, <1>5 DEF ProvisionFails
    <3>2. TypeOK /\ DocumentIsValid
      BY DEF IInv
    <3>3. \A i \in 1..Len(steps) : steps[i].phase # "cleanup"
      BY <1>1
    <3>4. UNCHANGED <<doc, steps>>
      BY <3>1
    <3> QED BY <3>1, <3>2, <3>3, <3>4, CleanupEntered
  <2>2. code' \in Codes /\ UNCHANGED <<doc, runtime>>
    BY <1>5 DEF ProvisionFails, Codes, paper
  <2>3. TypeOK'
    BY <1>1, <2>1, <2>2, Ranks DEF IInv, TypeOK, Places
  <2>4. DocumentIsValid' /\ Thorough'
    <3>1. doc # None /\ doc \in Documents /\ Valid(doc)
      BY <1>1, <1>5 DEF IInv, DocumentIsValid, ProvisionFails
    <3>2. Valid(doc)'
      BY <2>2, <3>1 DEF Valid, ExpectsFailure
    <3>3. DocumentIsValid'
      BY <1>1, <2>1, <2>2, <3>1, <3>2 DEF DocumentIsValid
    <3>4. Thorough'
      <4>1. Len(doc["then"]) \in Nat /\ Count(steps, "then") = 0
        BY <1>1, <3>1, Ranks, CountNone, DocumentFacts DEF IInv
      <4> QED BY <1>1, <2>1, <2>2, <4>1 DEF Thorough, CutOff
    <3> QED BY <3>3, <3>4
  <2> QED BY <1>3, <2>1, <2>3, <2>4 DEF IInv, Progress
<1>6. CASE InitEventSequence
  <2>1. PhaseRuns' /\ pc' = "given" /\ next' \in 1..(MaxSteps + 1) /\ current' \in Seq(StepEvidence)
    <3>1. Enter("given") /\ UNCHANGED <<doc, steps>> /\ doc # None /\ "given" \in PhaseNames
      BY <1>1, <1>6, Ranks DEF InitEventSequence, IInv, DocumentIsValid, Ended
    <3>2. TypeOK /\ DocumentIsValid /\ pc' = "given"
      BY <3>1 DEF IInv, Enter
    <3>3. \A i \in 1..Len(steps) : steps[i].phase # "given"
      BY <1>1
    <3> QED BY <3>1, <3>2, <3>3, EnterRuns
  <2>2. UNCHANGED <<doc, code, runtime>>
    BY <1>6 DEF InitEventSequence, paper
  <2>3. TypeOK'
    BY <1>1, <2>1, <2>2, Ranks DEF IInv, TypeOK, Places
  <2>4. DocumentIsValid' /\ Thorough' /\ CleanupIsLast'
    BY <1>1, <1>2, <1>6, <2>1, <2>2 DEF InitEventSequence, IInv, DocumentIsValid, Thorough,
       CleanupIsLast, Ending, Ended
  <2> QED BY <1>3, <2>1, <2>3, <2>4 DEF IInv, Progress
<1>7. pc = "parse" => doc = None
  BY DEF IInv, DocumentIsValid
<1> QED BY <1>4, <1>5, <1>6, <1>7

(* A phase that is completed is filed with all of its results, as the last *)
(* one so far.                                                             *)
LEMMA CompleteFiles ==
  ASSUME ScenarioAssumption, IInv, NEW p \in PhaseNames, Complete(p), steps' = steps,
         pc' \in PhaseNames => Rank(pc') > Rank(p), doc' = doc, p = "then" => ~CutOff
  PROVE  PhasesFiled' /\ phases' \in Seq([phase : PhaseNames, steps : Seq(StepEvidence)])
<1> DEFINE n == Len(phases) + 1
           filed == [phase |-> p, steps |-> current]
           Filings == [phase : PhaseNames, steps : Seq(StepEvidence)]
<1>1. /\ pc = p /\ phases' = Append(phases, filed) /\ filed \in Filings /\ phases \in Seq(Filings)
      /\ filed.phase = p /\ filed.steps = current
  BY DEF Complete, IInv, TypeOK
<1> HIDE DEF Filings, filed
<1>2. /\ phases' \in Seq(Filings) /\ Len(phases') = n /\ phases'[n] = filed /\ n \in 1..n
      /\ \A i \in 1..Len(phases) : phases'[i] = phases[i] /\ i \in 1..n
      /\ \A i \in 1..n : i = n \/ i \in 1..Len(phases)
      /\ n \notin 1..Len(phases)
  BY <1>1
<1> HIDE DEF n
<1>3. \A i \in 1..Len(phases) :
        Rank(phases[i].phase) < Rank(p) /\ phases[i].phase \in PhaseNames
  <2>1. \A i \in 1..Len(phases) : Rank(phases[i].phase) < Rank(p)
    BY <1>1 DEF IInv, Progress, PhasesFiled
  <2>2. \A i \in 1..Len(phases) : phases[i] \in Filings
    BY <1>1
  <2> QED BY <2>1, <2>2 DEF Filings
<1>4. \A i \in 1..Len(phases) : phases[i].phase # p
  BY <1>3, Ranks
<1>5. ASSUME NEW i \in 1..n, NEW j \in 1..n, phases'[i].phase = phases'[j].phase PROVE i = j
  BY <1>1, <1>2, <1>4, <1>5 DEF IInv, Progress, PhasesFiled
<1>6. ASSUME NEW i \in 1..n PROVE Holds(phases'[i].steps, steps, phases'[i].phase)
  <2>1. CASE i = n
    BY <1>1, <1>2, <2>1 DEF IInv, Progress, PhaseRuns
  <2>2. CASE i \in 1..Len(phases)
    BY <1>2, <2>2 DEF IInv, Progress, PhasesFiled
  <2> QED BY <1>2, <2>1, <2>2
<1>7. pc' \in PhaseNames => \A i \in 1..n : Rank(phases'[i].phase) < Rank(pc')
  <2> SUFFICES ASSUME pc' \in PhaseNames, NEW i \in 1..n PROVE Rank(phases'[i].phase) < Rank(pc')
    OBVIOUS
  <2>1. CASE i = n
    BY <1>1, <1>2, <2>1
  <2>2. CASE i \in 1..Len(phases)
    <3>1. Rank(phases[i].phase) < Rank(p) /\ Rank(p) < Rank(pc') /\ phases[i].phase \in PhaseNames
      BY <1>3, <2>2, Ranks
    <3> QED BY <1>2, <2>2, <3>1, Ranks
  <2> QED BY <1>2, <2>1, <2>2
<1>8. ASSUME NEW s \in 1..Len(steps)
      PROVE  \/ steps[s].phase = "then" /\ CutOff
             \/ \E i \in 1..n : phases'[i].phase = steps[s].phase
  <2>1. CASE steps[s].phase = p
    BY <1>1, <1>2, <2>1
  <2>2. CASE \E i \in 1..Len(phases) : phases[i].phase = steps[s].phase
    BY <1>2, <2>2
  <2> QED BY <1>1, <2>1, <2>2 DEF IInv, Progress, PhasesFiled
<1>9. ASSUME NEW i \in 1..n, phases'[i].phase = "then" PROVE ~CutOff
  BY <1>1, <1>2, <1>9 DEF IInv, Progress, PhasesFiled
<1>10. CutOff' <=> CutOff
  BY DEF CutOff
<1> QED BY <1>2, <1>5, <1>6, <1>7, <1>8, <1>9, <1>10 DEF PhasesFiled, Filings

(* The end of a phase.                                                     *)
LEMMA LeavingKeeps ==
  ASSUME ScenarioAssumption, IInv,
         \/ LeavePhase("given", "when") \/ LeavePhase("when", "then")
         \/ LeaveThen \/ LeaveCleanup
  PROVE  IInv'
<1>1. /\ pc \in PhaseNames /\ Complete(pc) /\ ~Remaining(pc)
      /\ UNCHANGED <<doc, steps, code, runtime, alive, result, evidence>>
  BY Ranks DEF LeavePhase, LeaveThen, LeaveCleanup, Complete, paper, report
<1>2. doc # None /\ doc \in Documents /\ Valid(doc) /\ result = None /\ evidence = None
  BY <1>1, Ranks DEF IInv, DocumentIsValid, Reported, Ended
<1>3. Stopped(pc) \/ Whole(pc)
  <2>1. Len(doc[pc]) \in Nat /\ next = Count(steps, pc) + 1 /\ next <= Len(doc[pc]) + 1
    BY <1>1, <1>2, DocumentFacts DEF IInv, Progress, PhaseRuns
  <2>2. Count(steps, pc) \in Nat
    BY CountType DEF IInv, TypeOK
  <2>3. Stopped(pc) \/ ~ (next <= Len(doc[pc]))
    BY <1>1 DEF Remaining
  <2> QED BY <2>1, <2>2, <2>3 DEF Whole
<1>4. \A i \in 1..Len(steps) : Rank(steps[i].phase) <= Rank(pc) /\ steps[i].phase \in PhaseNames
  <2>1. \A i \in 1..Len(steps) : Rank(steps[i].phase) <= Rank(pc)
    BY <1>1 DEF IInv, Progress, PhasesInOrder
  <2>2. \A i \in 1..Len(steps) : steps[i] \in StepResults
    BY DEF IInv, TypeOK
  <2> QED BY <2>1, <2>2 DEF StepResults
<1>5. \A q \in PhaseNames : Rank(q) > Rank(pc) => \A i \in 1..Len(steps) : steps[i].phase # q
  BY <1>1, <1>4, Ranks
<1>6. Reported'
  BY <1>1, <1>2 DEF Reported
<1>7. KindsFollow' /\ OneFailedFirst'
  BY <1>1 DEF IInv, Progress, KindsFollow, OneFailedFirst, Failures
<1>8. Valid(doc)'
  BY <1>1, <1>2 DEF Valid, ExpectsFailure
<1>9. ASSUME NEW q \in {"when", "then"}, NEW p \in {"given", "when"}, Rank(q) = Rank(p) + 1,
             pc = p, ~Stopped(p), Complete(p), Enter(q), through' = through
      PROVE  IInv'
  <2>1. pc' = q /\ q \in PhaseNames /\ p \in PhaseNames /\ Rank(q) > Rank(p)
    BY <1>9, Ranks DEF Enter
  <2>2. PhaseRuns' /\ next' \in 1..(MaxSteps + 1) /\ current' \in Seq(StepEvidence)
    BY <1>1, <1>2, <1>5, <1>9, <2>1, EnterRuns DEF IInv
  <2>3. PhasesFiled' /\ phases' \in Seq([phase : PhaseNames, steps : Seq(StepEvidence)])
    BY <1>1, <1>9, <2>1, Ranks, CompleteFiles
  <2>4. TypeOK'
    BY <1>1, <1>9, <2>1, <2>2, <2>3, <1>2 DEF IInv, TypeOK, Places
  <2>5. DocumentIsValid'
    BY <1>1, <1>2, <1>8, <2>1, Ranks DEF DocumentIsValid
  <2>6. PhasesInOrder'
    BY <1>1, <1>4, <1>9, <2>1, Ranks DEF IInv, Progress, PhasesInOrder
  <2>7. FailuresStop'
    <3>1. \A i \in 1..Len(steps) : ~ (steps[i].phase \in {"given", "when"} /\ ~Passed(steps[i]))
      <4> SUFFICES ASSUME NEW i \in 1..Len(steps), steps[i].phase \in {"given", "when"},
                          ~Passed(steps[i])
                   PROVE  FALSE
        OBVIOUS
      <4>1. pc \in {steps[i].phase} \cup Ending
        BY DEF IInv, Progress, FailuresStop
      <4>2. steps[i].phase = p
        BY <1>9, <4>1 DEF Ending, Ended
      <4>3. i \in DOMAIN steps
        BY DEF IInv, TypeOK
      <4> QED BY <1>9, <4>2, <4>3 DEF Stopped
    <3> QED BY <1>1, <3>1 DEF FailuresStop
  <2>8. Thorough'
    <3>1. ~through
      BY <1>9 DEF IInv, Progress, Thorough, Ending, Ended
    <3>2. Whole(p) /\ (p = "when" => Whole("given"))
      BY <1>3, <1>9 DEF IInv, Progress, Thorough
    <3>3. \A r : Whole(r)' <=> Whole(r)
      BY <1>1 DEF Whole
    <3>4. (q = "when" <=> p = "given") /\ (q = "then" <=> p = "when")
      BY <1>9, Ranks
    <3> QED BY <1>9, <2>1, <3>1, <3>2, <3>3, <3>4 DEF Thorough, Ending, Ended
  <2>9. CleanupIsLast'
    BY <1>1, <2>1 DEF IInv, Progress, CleanupIsLast, Ended
  <2> QED BY <1>6, <1>7, <2>2, <2>3, <2>4, <2>5, <2>6, <2>7, <2>8, <2>9 DEF IInv, Progress
<1>10. ASSUME NEW p \in MainPhases, pc = p, Complete(p), EnterCleanup,
              \/ p # "then" /\ through' = through
              \/ p = "then" /\ through' = TRUE
       PROVE  IInv'
  <2>1. p \in PhaseNames /\ Rank("cleanup") > Rank(p) /\ "cleanup" \in PhaseNames
    BY Ranks DEF MainPhases
  <2>2. /\ pc' \in {"cleanup", "finalize"} /\ PhaseRuns' /\ CleanupIsLast'
        /\ next' \in 1..(MaxSteps + 1) /\ current' \in Seq(StepEvidence)
    <3>1. \A i \in 1..Len(steps) : steps[i].phase # "cleanup"
      BY <1>5, <1>10, <2>1
    <3>2. TypeOK /\ DocumentIsValid
      BY DEF IInv
    <3> QED BY <1>1, <1>2, <1>10, <3>1, <3>2, CleanupEntered
  <2>3. pc' \in PhaseNames => Rank(pc') > Rank(p)
    BY <2>1, <2>2, Ranks
  <2>4. PhasesFiled' /\ phases' \in Seq([phase : PhaseNames, steps : Seq(StepEvidence)])
    <3>1. p = "then" => ~CutOff
      <4>1. p = "then" => Whole(p)
        BY <1>3, <1>10 DEF Stopped
      <4> QED BY <1>1, <1>2, <4>1, Ranks, DocumentFacts DEF CutOff, Whole, IInv
    <3> QED BY <1>1, <1>10, <2>1, <2>3, <3>1, CompleteFiles
  <2>5. TypeOK'
    BY <1>1, <1>2, <1>10, <2>2, <2>4, Ranks DEF IInv, TypeOK, Places
  <2>6. DocumentIsValid'
    BY <1>1, <1>2, <1>8, <2>2 DEF DocumentIsValid
  <2>7. PhasesInOrder'
    BY <1>1, <1>4, <1>10, <2>1, <2>2, Ranks DEF IInv, Progress, PhasesInOrder
  <2>8. FailuresStop'
    BY <1>1, <2>2 DEF IInv, Progress, FailuresStop, Ending, Ended
  <2>9. Thorough'
    <3>1. \A r : Whole(r)' <=> Whole(r)
      BY <1>1 DEF Whole
    <3>2. CASE p = "then"
      <4>1. Whole("given") /\ Whole("when")
        BY <1>10, <3>2 DEF IInv, Progress, Thorough
      <4>2. Whole("then")
        BY <1>3, <1>10, <3>2 DEF Stopped
      <4> QED BY <1>10, <2>2, <3>1, <3>2, <4>1, <4>2 DEF Thorough, MainPhases, Ending, Ended
    <3>3. CASE p # "then"
      <4>1. ~through
        BY <1>10 DEF IInv, Progress, Thorough, MainPhases, Ending, Ended
      <4>2. Count(steps, "then") = 0 /\ Len(doc["then"]) \in Nat
        <5>1. \A i \in 1..Len(steps) : steps[i].phase # "then"
          BY <1>5, <1>10, <3>3, Ranks DEF MainPhases
        <5> QED BY <1>2, <5>1, CountNone, Ranks, DocumentFacts DEF IInv
      <4> QED BY <1>1, <1>10, <2>2, <3>3, <4>1, <4>2 DEF Thorough, CutOff, Ending, Ended
    <3> QED BY <3>2, <3>3
  <2> QED BY <1>6, <1>7, <2>2, <2>4, <2>5, <2>6, <2>7, <2>8, <2>9 DEF IInv, Progress
<1>11. CASE LeaveCleanup
  <2>1. /\ pc = "cleanup" /\ pc' = "finalize" /\ current' = <<>>
        /\ UNCHANGED <<next, through>> /\ "cleanup" \in PhaseNames /\ "finalize" \notin PhaseNames
    BY <1>11, Ranks DEF LeaveCleanup, Complete
  <2>2. PhasesFiled' /\ phases' \in Seq([phase : PhaseNames, steps : Seq(StepEvidence)])
    BY <1>1, <2>1, Ranks, CompleteFiles
  <2>3. TypeOK'
    BY <1>1, <1>2, <2>1, <2>2 DEF IInv, TypeOK, Places
  <2>4. DocumentIsValid'
    BY <1>1, <1>2, <1>8, <2>1 DEF DocumentIsValid
  <2>5. PhasesInOrder' /\ PhaseRuns'
    BY <1>1, <2>1 DEF IInv, Progress, PhasesInOrder, PhaseRuns
  <2>6. FailuresStop'
    BY <1>1, <2>1 DEF IInv, Progress, FailuresStop, Ending, Ended
  <2>7. \A r : Whole(r)' <=> Whole(r)
    BY <1>1 DEF Whole
  <2>8. Thorough'
    BY <1>1, <2>1, <2>7 DEF IInv, Progress, Thorough, CutOff, Ending, Ended
  <2>9. CleanupIsLast'
    <3>1. Whole("cleanup")
      BY <1>3, <2>1 DEF Stopped
    <3> QED BY <1>1, <2>1, <2>7, <3>1 DEF IInv, Progress, CleanupIsLast
  <2> QED BY <1>6, <1>7, <2>2, <2>3, <2>4, <2>5, <2>6, <2>8, <2>9 DEF IInv, Progress
<1>12. ASSUME NEW p \in {"given", "when"}, NEW q \in {"when", "then"}, Rank(q) = Rank(p) + 1,
              LeavePhase(p, q)
       PROVE  IInv'
  <2>1. pc = p /\ Complete(p) /\ through' = through /\ p \in MainPhases /\ p # "then"
    BY <1>12 DEF LeavePhase, Complete, MainPhases
  <2>2. CASE Stopped(p) /\ EnterCleanup
    BY <1>10, <2>1, <2>2
  <2>3. CASE ~Stopped(p) /\ Enter(q)
    BY <1>9, <1>12, <2>1, <2>3
  <2> QED BY <1>12, <2>2, <2>3 DEF LeavePhase
<1>13. CASE LeaveThen
  <2>1. pc = "then" /\ Complete("then") /\ through' = TRUE /\ EnterCleanup /\ "then" \in MainPhases
    BY <1>13 DEF LeaveThen, Complete, MainPhases
  <2> QED BY <1>10, <2>1
<1>14. Rank("when") = Rank("given") + 1 /\ Rank("then") = Rank("when") + 1
  BY Ranks
<1> QED BY <1>11, <1>12, <1>13, <1>14

(* An assertion without a body throws the run out of `then'.               *)
LEMMA ThrowingKeeps ==
  ASSUME ScenarioAssumption, IInv, AssertionThrows
  PROVE  IInv'
<1>1. /\ pc = "then" /\ "then" \in PhaseNames /\ Remaining("then")
      /\ UNCHANGED <<doc, steps, through, code, phases, runtime, alive, result, evidence>>
  BY Ranks DEF AssertionThrows, Remaining, paper, report
<1>2. /\ doc # None /\ doc \in Documents /\ Valid(doc) /\ result = None /\ evidence = None
      /\ Valid(doc)'
  <2>1. doc # None /\ doc \in Documents /\ Valid(doc) /\ result = None /\ evidence = None
    BY <1>1 DEF IInv, DocumentIsValid, Reported, Ended
  <2> QED BY <1>1, <2>1 DEF Valid, ExpectsFailure
<1>3. CutOff /\ ~through
  <2>1. next = Count(steps, "then") + 1 /\ next <= Len(doc["then"])
    BY <1>1 DEF IInv, Progress, PhaseRuns, Remaining
  <2>2. Count(steps, "then") \in Nat /\ Len(doc["then"]) \in Nat
    BY <1>1, <1>2, DocumentFacts, CountType DEF IInv, TypeOK
  <2>3. ~through
    BY <1>1 DEF IInv, Progress, Thorough, Ending, Ended
  <2> QED BY <2>1, <2>2, <2>3 DEF CutOff
<1>4. \A i \in 1..Len(steps) : /\ Rank(steps[i].phase) <= 3
                               /\ steps[i].phase \in PhaseNames /\ steps[i].phase # "cleanup"
  <2>1. \A i \in 1..Len(steps) : Rank(steps[i].phase) <= 3
    BY <1>1, Ranks DEF IInv, Progress, PhasesInOrder
  <2>2. \A i \in 1..Len(steps) : steps[i] \in StepResults
    BY DEF IInv, TypeOK
  <2> QED BY <2>1, <2>2, Ranks DEF StepResults
<1>5. Count(steps, "cleanup") = 0 /\ Len(steps) \in Nat
  <2>1. \A i \in 1..Len(steps) : steps[i].phase # "cleanup"
    BY <1>4
  <2> QED BY <2>1, CountNone DEF IInv, TypeOK
<1>6. /\ pc' \in {"cleanup", "finalize"} /\ PhaseRuns' /\ CleanupIsLast'
      /\ next' \in 1..(MaxSteps + 1) /\ current' \in Seq(StepEvidence)
  <2>1. CASE doc.cleanup # <<>> /\ Enter("cleanup")
    <3>1. EnterCleanup
      BY <2>1 DEF EnterCleanup
    <3>2. TypeOK /\ DocumentIsValid
      BY DEF IInv
    <3>3. \A i \in 1..Len(steps) : steps[i].phase # "cleanup"
      BY <1>4
    <3> QED BY <1>1, <1>2, <3>1, <3>2, <3>3, CleanupEntered
  <2>2. CASE doc.cleanup = <<>> /\ pc' = "finalize" /\ UNCHANGED <<next, current>>
    <3>1. CleanupIsLast'
      BY <1>1, <1>4, <1>5, <2>2 DEF CleanupIsLast, Whole
    <3> QED BY <2>2, <3>1, Ranks DEF PhaseRuns, IInv, TypeOK
  <2> QED BY <2>1, <2>2 DEF AssertionThrows
<1>7. TypeOK' /\ DocumentIsValid'
  BY <1>1, <1>2, <1>6, Ranks DEF IInv, TypeOK, Places, DocumentIsValid
<1>8. PhasesInOrder'
  <2>1. pc' \in PhaseNames => \A i \in 1..Len(steps) : Rank(steps[i].phase) <= Rank(pc')
    BY <1>4, <1>6, Ranks
  <2> QED BY <1>1, <2>1 DEF IInv, Progress, PhasesInOrder
<1>9. FailuresStop'
  BY <1>1, <1>6 DEF IInv, Progress, FailuresStop, Ending, Ended
<1>10. CutOff' /\ Thorough'
  BY <1>1, <1>3, <1>6 DEF Thorough, CutOff
<1>11. PhasesFiled'
  <2>1. pc' \in PhaseNames => \A i \in 1..Len(phases) : Rank(phases[i].phase) < Rank(pc')
    <3>1. \A i \in 1..Len(phases) : Rank(phases[i].phase) < 3 /\ phases[i].phase \in PhaseNames
      <4> DEFINE PhaseFilings == [phase : PhaseNames, steps : Seq(StepEvidence)]
      <4>1. phases \in Seq(PhaseFilings)
        BY DEF IInv, TypeOK
      <4>2. \A i \in 1..Len(phases) : phases[i] \in PhaseFilings
        <5> HIDE DEF PhaseFilings
        <5> QED BY <4>1
      <4>3. \A i \in 1..Len(phases) : Rank(phases[i].phase) < Rank("then")
        BY <1>1 DEF IInv, Progress, PhasesFiled
      <4> QED BY <4>2, <4>3, Ranks
    <3> QED BY <1>6, <3>1, Ranks
  <2>2. CutOff' <=> CutOff
    BY <1>1 DEF CutOff
  <2> QED BY <1>1, <1>3, <2>1, <2>2 DEF IInv, Progress, PhasesFiled
<1>12. KindsFollow' /\ OneFailedFirst' /\ Reported'
  BY <1>1, <1>2 DEF IInv, Progress, KindsFollow, OneFailedFirst, Failures, Reported
<1> QED BY <1>6, <1>7, <1>8, <1>9, <1>10, <1>11, <1>12 DEF IInv, Progress

(* The verdict, the disposal of the runtime, and Paper's death.            *)
LEMMA EndingKeeps ==
  ASSUME ScenarioAssumption, IInv,
         Finalize \/ DisposeRuntime \/ PaperDies \/ UNCHANGED vars
  PROVE  IInv'
<1>1. UNCHANGED <<doc, next, steps, through, code, current, phases>>
  BY DEF Finalize, DisposeRuntime, PaperDies, vars, engine, collector
<1>2. Status' = Status
  BY <1>1, StatusStays
<1>3. \A r : Whole(r)' <=> Whole(r)
  BY <1>1 DEF Whole
<1>4. Valid(doc)' <=> Valid(doc)
  BY <1>1 DEF Valid, ExpectsFailure
<1>5. \/ pc = "finalize" /\ pc' = "dispose"
      \/ pc = "dispose" /\ pc' = "done"
      \/ pc' = pc
  BY DEF Finalize, DisposeRuntime, PaperDies, vars, engine
<1>6. Progress'
  <2>1. PhaseRuns' /\ KindsFollow'
    BY <1>1, <1>5, Ranks DEF IInv, Progress, PhaseRuns, KindsFollow
  <2>2. PhasesInOrder'
    BY <1>1, <1>5, Ranks DEF IInv, Progress, PhasesInOrder
  <2>3. FailuresStop'
    BY <1>1, <1>5 DEF IInv, Progress, FailuresStop, Ending, Ended
  <2>4. Thorough'
    BY <1>1, <1>3, <1>5 DEF IInv, Progress, Thorough, CutOff, Ending, Ended
  <2>5. CleanupIsLast'
    BY <1>1, <1>3, <1>5 DEF IInv, Progress, CleanupIsLast, Ended
  <2>6. PhasesFiled'
    <3>1. \A s \in 1..Len(steps) :
            \/ steps[s].phase = pc'
            \/ steps[s].phase = "then" /\ CutOff
            \/ \E i \in 1..Len(phases) : phases[i].phase = steps[s].phase
      <4>1. \A s \in 1..Len(steps) : steps[s].phase \in PhaseNames
        <5>1. \A s \in 1..Len(steps) : steps[s] \in StepResults
          BY DEF IInv, TypeOK
        <5> QED BY <5>1 DEF StepResults
      <4> QED BY <1>5, <4>1, Ranks DEF IInv, Progress, PhasesFiled
    <3>2. pc' \in PhaseNames => pc' = pc
      BY <1>5, Ranks
    <3>3. CutOff' <=> CutOff
      BY <1>1 DEF CutOff
    <3> QED BY <1>1, <3>1, <3>2, <3>3 DEF IInv, Progress, PhasesFiled
  <2>7. OneFailedFirst'
    BY <1>1 DEF IInv, Progress, OneFailedFirst, Failures
  <2> QED BY <2>1, <2>2, <2>3, <2>4, <2>5, <2>6, <2>7 DEF Progress
<1>7. DocumentIsValid'
  BY <1>1, <1>4, <1>5 DEF IInv, DocumentIsValid, Ended
<1>8. CASE Finalize
  <2>1. /\ pc = "finalize" /\ pc' = "dispose" /\ result' = [status |-> Status, code |-> ErrorCode]
        /\ evidence' \in Flushed /\ UNCHANGED <<runtime, alive>>
    BY <1>8 DEF Finalize, paper
  <2>2. Status \in Statuses
    BY DEF Status, RawStatus, Statuses
  <2>3. ErrorCode \in Codes \cup {NoCode}
    <3>1. CASE Failures = {}
      BY <3>1 DEF ErrorCode, StepCode, IInv, TypeOK
    <3>2. CASE Failures # {}
      <4> DEFINE first == CHOOSE i \in Failures : \A j \in Failures : i <= j
      <4>1. \E i \in Failures : \A j \in Failures : i <= j
        BY <3>2 DEF IInv, Progress, OneFailedFirst
      <4>2. first \in Failures
        BY <4>1
      <4>3. steps[first] \in StepResults /\ ~Passed(steps[first])
        BY <4>2 DEF Failures, IInv, TypeOK
      <4>4. steps[first].code \in Codes \cup {NoCode}
        BY <4>3 DEF StepResults, Passed
      <4>5. StepCode = steps[first].code
        BY <3>2 DEF StepCode
      <4> QED BY <4>4, <4>5 DEF ErrorCode, IInv, TypeOK
    <3> QED BY <3>1, <3>2
  <2>4. Reported'
    <3>1. result'.status = Status
      BY <2>1
    <3>2. evidence' # None => evidence' = [status |-> Status, phases |-> phases]
      BY <2>1 DEF Flushed
    <3> QED BY <1>1, <1>2, <2>1, <3>1, <3>2 DEF Reported
  <2>5. TypeOK'
    BY <1>1, <2>1, <2>2, <2>3, <2>4 DEF IInv, TypeOK, Places, Reported
  <2> QED BY <1>6, <1>7, <2>4, <2>5 DEF IInv
<1>9. CASE DisposeRuntime \/ PaperDies \/ UNCHANGED vars
  <2>1. /\ UNCHANGED <<result, evidence>> /\ runtime' \in {"none", "up", "released"}
        /\ alive' \in BOOLEAN
    BY <1>9 DEF DisposeRuntime, PaperDies, vars, engine, collector, paper, report, IInv, TypeOK
  <2>2. Reported'
    BY <1>1, <1>2, <1>5, <2>1 DEF IInv, Reported
  <2>3. TypeOK'
    BY <1>1, <1>5, <2>1, <2>2 DEF IInv, TypeOK, Places, Reported
  <2> QED BY <1>6, <1>7, <2>2, <2>3 DEF IInv
<1> QED BY <1>8, <1>9

(* Every step keeps the invariant.                                         *)
LEMMA StepIInv ==
  ASSUME ScenarioAssumption, IInv, [Next]_vars
  PROVE  IInv'
<1>1. CASE \/ \E p \in {"given", "when", "cleanup"} : ExecuteStep(p)
           \/ AssertionPasses \/ AssertionTimesOut
  BY <1>1, RecordingSteps, RecordingKeeps
<1>2. CASE Unreadable \/ Invalid \/ Accept \/ Provision \/ ProvisionFails \/ InitEventSequence
  BY <1>2, BeginningKeeps
<1>3. CASE LeavePhase("given", "when") \/ LeavePhase("when", "then") \/ LeaveThen \/ LeaveCleanup
  BY <1>3, LeavingKeeps
<1>4. CASE Finalize \/ DisposeRuntime \/ PaperDies \/ UNCHANGED vars
  BY <1>4, EndingKeeps
<1>5. CASE AssertionThrows
  BY <1>5, ThrowingKeeps
<1> QED BY <1>1, <1>2, <1>3, <1>4, <1>5 DEF Next, Engine

(* It holds before anything is read.                                       *)
LEMMA InitIInv ==
  ASSUME ScenarioAssumption
  PROVE  Init => IInv
<1> SUFFICES ASSUME Init PROVE IInv
  OBVIOUS
<1>1. steps = <<>> /\ phases = <<>> /\ Len(steps) = 0 /\ Len(phases) = 0
  BY DEF Init
<1>2. TypeOK
  <2>1. 1 \in 1..(MaxSteps + 1)
    BY DEF ScenarioAssumption
  <2>2. <<>> \in Seq(StepResults) /\ <<>> \in Seq(StepEvidence) /\ <<>> \in Seq([phase : PhaseNames, steps : Seq(StepEvidence)])
    OBVIOUS
  <2> QED BY <2>1, <2>2 DEF Init, TypeOK, Places
<1>3. DocumentIsValid /\ Reported
  BY <1>1 DEF Init, DocumentIsValid, Reported
<1>4. PhaseRuns /\ KindsFollow /\ PhasesInOrder /\ FailuresStop /\ Thorough /\ CleanupIsLast /\ PhasesFiled
  BY <1>1, Ranks DEF Init, PhaseRuns, KindsFollow, PhasesInOrder, FailuresStop, Thorough,
                     CleanupIsLast, PhasesFiled, Ending, Ended
<1>5. OneFailedFirst
  BY <1>1 DEF OneFailedFirst, Failures
<1> QED BY <1>2, <1>3, <1>4, <1>5 DEF IInv, Progress

(* What has been executed, what the collector has filed and how far the    *)
(* loops have got stay together in every run.                              *)
THEOREM RunInductive == Spec => []IInv
<1>1. Init => IInv
  BY InitIInv, ScenarioAssumption
<1>2. IInv /\ [Next]_vars => IInv'
  BY StepIInv, ScenarioAssumption
<1> QED BY <1>1, <1>2, PTL DEF Spec

(* TypeOK, for any documents.                                              *)
THEOREM RunTypes == Spec => []TypeOK
<1>1. IInv => TypeOK
  BY DEF IInv
<1> QED BY <1>1, RunInductive, PTL

(* StepsFollowTheDocument: executeSteps and the loop over `then' take the  *)
(* steps in their order, each once, and stop where a failure has to stop   *)
(* them.                                                                   *)
THEOREM StepsFollow == Spec => []StepsFollowTheDocument
<1>1. IInv => StepsFollowTheDocument
  <2> SUFFICES ASSUME IInv PROVE StepsFollowTheDocument
    OBVIOUS
  <2>1. DOMAIN steps = 1..Len(steps)
    BY DEF IInv, TypeOK
  <2>2. KindsFollow /\ PhasesInOrder /\ FailuresStop
    BY DEF IInv, Progress
  <2> QED BY <2>1, <2>2 DEF StepsFollowTheDocument, KindsFollow, PhasesInOrder, FailuresStop
<1> QED BY <1>1, RunInductive, PTL

(* CleanupTriedOnce: whether provisioning, a phase, or nothing failed.     *)
THEOREM CleanupIsTried == Spec => []CleanupTriedOnce
<1>1. IInv => CleanupTriedOnce
  <2> SUFFICES ASSUME IInv, pc \in {"finalize", "dispose", "done"}, doc # None
               PROVE  /\ Count(steps, "cleanup") = Len(doc.cleanup)
                      /\ \A i \in DOMAIN steps : steps[i].phase = "cleanup" =>
                           i > Len(steps) - Len(doc.cleanup)
    BY DEF CleanupTriedOnce
  <2>1. DOMAIN steps = 1..Len(steps)
    BY DEF IInv, TypeOK
  <2>2. Count(steps, "cleanup") = Len(doc.cleanup)
    BY DEF IInv, Progress, CleanupIsLast, Whole, Ended
  <2> QED BY <2>1, <2>2 DEF IInv, Progress, CleanupIsLast
<1> QED BY <1>1, RunInductive, PTL

(* VerdictIsEarned: a completed scenario has executed and passed every     *)
(* step of its three main phases, and one that has is completed.           *)
THEOREM VerdictEarned == Spec => []VerdictIsEarned
<1>1. IInv => VerdictIsEarned
  <2> SUFFICES ASSUME IInv, result # None, doc # None, doc.expect = None
               PROVE  result.status = "completed" <=>
                        /\ \A i \in DOMAIN steps : steps[i].phase # "cleanup" => Passed(steps[i])
                        /\ \A p \in PhaseNames \ {"cleanup"} : Count(steps, p) = Len(doc[p])
    BY DEF VerdictIsEarned
  <2>1. /\ pc \in Ending
        /\ result.status = "completed" <=> through /\ MainFailures = {}
    BY DEF IInv, Reported, Status, RawStatus, Ending, Ended
  <2>2. MainFailures = {} <=>
          \A i \in DOMAIN steps : steps[i].phase # "cleanup" => Passed(steps[i])
    BY DEF MainFailures, Failures
  <2>3. PhaseNames \ {"cleanup"} = MainPhases
    BY Ranks DEF MainPhases
  <2>4. CASE through
    <3>1. \A p \in MainPhases : Count(steps, p) = Len(doc[p])
      BY <2>4 DEF IInv, Progress, Thorough, Whole
    <3> QED BY <2>1, <2>2, <2>3, <2>4, <3>1
  <2>5. CASE ~through
    <3>1. CutOff \/ Len(doc["then"]) = 0
      BY <2>1, <2>5 DEF IInv, Progress, Thorough
    <3>2. doc["then"] # <<>>
      BY DEF IInv, DocumentIsValid, Valid, ExpectsFailure
    <3>3. Len(doc["then"]) # 0
      <4>1. doc["then"] \in Seq({doc["then"][i] : i \in DOMAIN doc["then"]})
        BY ScenarioAssumption DEF ScenarioAssumption, IInv, DocumentIsValid
      <4>2. \A S : \A q \in Seq(S) : Len(q) = 0 => q = <<>>
        OBVIOUS
      <4> QED BY <3>2, <4>1, <4>2
    <3>4. "then" \in MainPhases
      BY DEF MainPhases
    <3>5. Count(steps, "then") # Len(doc["then"])
      <4>1. Len(doc["then"]) \in Nat /\ Count(steps, "then") \in Nat
        BY Ranks, DocumentFacts, CountType, ScenarioAssumption DEF IInv, TypeOK
      <4> QED BY <3>1, <3>3, <4>1 DEF CutOff
    <3> QED BY <2>1, <2>3, <2>5, <3>4, <3>5
  <2> QED BY <2>4, <2>5
<1> QED BY <1>1, RunInductive, PTL

(* EvidenceTellsAll: what flush() files is what the engine reports, phase  *)
(* by phase, result by result, or nothing of a `then' that was cut off.    *)
THEOREM EvidenceIsAll == Spec => []EvidenceTellsAll
<1>1. IInv => EvidenceTellsAll
  <2> SUFFICES ASSUME IInv, evidence # None PROVE EvidenceTellsAll
    BY DEF EvidenceTellsAll
  <2>1. /\ pc \in {"dispose", "done"} /\ evidence.status = result.status
        /\ evidence.phases = phases
    BY DEF IInv, Reported
  <2>2. DOMAIN steps = 1..Len(steps) /\ DOMAIN phases = 1..Len(phases)
    BY DEF IInv, TypeOK
  <2>3. PhasesFiled
    BY DEF IInv, Progress
  <2>4. \A s \in 1..Len(steps) : steps[s].phase # pc
    <3>1. \A s \in 1..Len(steps) : steps[s] \in StepResults
      BY DEF IInv, TypeOK
    <3> QED BY <2>1, <3>1, Ranks DEF StepResults
  <2>5. ASSUME NEW s \in 1..Len(steps)
        PROVE  \/ steps[s].phase = "then" /\ CutOff
               \/ \E i \in 1..Len(phases) : /\ phases[i].phase = steps[s].phase
                                            /\ phases[i].steps[Nth(steps, s)] = Filing(steps[s])
    BY <2>3, <2>4 DEF PhasesFiled, Holds
  <2>6. \A i \in 1..Len(phases) : Len(phases[i].steps) = Count(steps, phases[i].phase)
    BY <2>3 DEF PhasesFiled, Holds
  <2> QED BY <2>1, <2>2, <2>3, <2>5, <2>6 DEF EvidenceTellsAll, PhasesFiled
<1> QED BY <1>1, RunInductive, PTL

=============================================================================
