---------------------------- MODULE RuntimeProofs ----------------------------
(* Theorems about RuntimeLifecycle, for any number of runtimes, processes  *)
(* and requests in flight, whatever the clients do; about the lifecycle    *)
(* under clients that wait for one answer per runtime; and about the pool  *)
(* under clients that respect it.                                          *)
EXTENDS RuntimePool, FiniteSetTheorems, TLAPS

(* An id or a process of None is not confused with a real one.             *)
LEMMA NoneIsNone == None \notin Ids /\ None \notin Procs
  BY LifecycleAssumption, SMT DEF None, Ids, Procs

(* The idle call and the idle sweep have their types.                      *)
LEMMA IdleIsCall == Idle \in CallRecords /\ NoSweep \in Sweeps
  BY DEF Idle, CallRecords, NoSweep, Sweeps

(* What a sweep does keeps the types of what it writes.                    *)
LEMMA WalkType ==
  ASSUME TypeOK, NEW T \in SUBSET Ids, NEW D \in SUBSET Ids,
         NEW s \in [Ids -> States], NEW r \in SUBSET Ids, Walk(T, D, s, r)
  PROVE  /\ state' \in [Ids -> States]
         /\ aged' \subseteq Ids
         /\ registered' \subseteq Ids
         /\ sweep' \in Sweeps
<1>1. CASE ToRemove(T, D) = {} /\ Visit(T, D, s, r) /\ sweep' = NoSweep
  BY <1>1, IdleIsCall DEF Visit, TypeOK, States, ReleasedStates
<1>2. CASE \E t \in ToRemove(T, D) :
             /\ \A i \in ToRemove(T, D) : t <= i
             /\ Visit({i \in T : i < t}, D, [s EXCEPT ![t] = "DELETING"], r)
             /\ sweep' = [active |-> TRUE, todo |-> {i \in T : i > t}, due |-> D, rm |-> t]
  <2>1. PICK t \in ToRemove(T, D) :
             /\ Visit({i \in T : i < t}, D, [s EXCEPT ![t] = "DELETING"], r)
             /\ sweep' = [active |-> TRUE, todo |-> {i \in T : i > t}, due |-> D, rm |-> t]
    BY <1>2
  <2>2. t \in Ids
    BY DEF ToRemove
  <2>3. sweep' \in Sweeps
    BY <2>1, <2>2 DEF Sweeps
  <2> QED
    BY <2>1, <2>2, <2>3 DEF Visit, TypeOK, States, ReleasedStates
<1> QED
  BY <1>1, <1>2 DEF Walk

(* A step keeps the types: of the wiring, it needs only that a request     *)
(* works on a known runtime.                                               *)
LEMMA TypeStep == TypeOK /\ CallsWired /\ [Next]_vars => TypeOK'
<1> SUFFICES ASSUME TypeOK, CallsWired, [Next]_vars PROVE TypeOK'
  OBVIOUS
<1> USE NoneIsNone, IdleIsCall DEF TypeOK
<1>1. ASSUME NEW c \in Calls, Begin(c) PROVE TypeOK'
  <2>1. ASSUME NEW op \in {"create", "scenario"}, CreateBegin(c, op) PROVE TypeOK'
    BY <2>1 DEF CreateBegin, Park, CallRecords, files
  <2>2. ASSUME NEW i \in Ids, LaunchBegin(c, i, "launch") PROVE TypeOK'
    BY <2>2 DEF LaunchBegin, Park, CallRecords, files
  <2>3. ASSUME NEW i \in Ids, StopBegin(c, i) PROVE TypeOK'
    BY <2>3 DEF StopBegin, SetState, Park, CallRecords, files, States, ActiveStates
  <2>4. ASSUME NEW i \in Ids, ReleaseDiscarding(c, i) PROVE TypeOK'
    BY <2>4 DEF ReleaseDiscarding, SetState, Park, CallRecords, files, States, ReleasedStates
  <2> QED
    BY <1>1, <2>1, <2>2, <2>3, <2>4 DEF Begin
<1>2. ASSUME NEW c \in Calls, Continue(c) PROVE TypeOK'
  <2> USE DEF Park, Return, CallRecords, SetState, States, ActiveStates, ReleasedStates, files
  <2>1. ASSUME CreateEnd(c) PROVE TypeOK'
    BY <2>1 DEF CreateEnd, CreateRuntimeImage, Register
  <2>2. ASSUME CreateFail(c) \/ JavaMissing(c) PROVE TypeOK'
    BY <2>2 DEF CreateFail, JavaMissing
  <2>3. ASSUME Spawn(c) PROVE TypeOK'
    BY <2>3 DEF Spawn, Unborn
  <2>4. ASSUME SpawnFail(c) \/ MarkerGone(c) PROVE TypeOK'
    BY <2>4 DEF SpawnFail, MarkerGone
  <2>5. ASSUME MarkerRead(c) PROVE TypeOK'
    BY <2>5 DEF MarkerRead
  <2>6. ASSUME GatePass(c) PROVE TypeOK'
    <3>1. calls' \in [Calls -> CallRecords]
      BY <2>6 DEF GatePass
    <3>2. state' \in [Ids -> States] /\ running' \in [Ids -> Procs \cup {None}] /\ aged' \subseteq Ids
      BY <2>6 DEF GatePass
    <3> QED
      BY <2>6, <3>1, <3>2 DEF GatePass
  <2>7. ASSUME GateFail(c) PROVE TypeOK'
    BY <2>7 DEF GateFail
  <2>8. ASSUME StopEnd(c) PROVE TypeOK'
    BY <2>8 DEF StopEnd
  <2>9. ASSUME DiscardDone(c) \/ DiscardFail(c) PROVE TypeOK'
    BY <2>9 DEF DiscardDone, DiscardFail, RemoveRoot, RemoveHalf
  <2>10. ASSUME ScenarioEnd(c) PROVE TypeOK'
    <3>1. calls[c].id \in Ids
      BY <2>10 DEF ScenarioEnd, CallsWired
    <3> QED
      BY <2>10, <3>1 DEF ScenarioEnd
  <2>11. ASSUME ScenarioEndStopped(c) PROVE TypeOK'
    <3>1. calls' \in [Calls -> CallRecords]
      BY <2>11 DEF ScenarioEndStopped
    <3>2. state' \in [Ids -> States] /\ aged' \subseteq Ids
      BY <2>11 DEF ScenarioEndStopped
    <3> QED
      BY <2>11, <3>1, <3>2 DEF ScenarioEndStopped
  <2>12. ASSUME Dispose(c) PROVE TypeOK'
    <3>1. calls' \in [Calls -> CallRecords]
      BY <2>12 DEF Dispose
    <3>2. state' \in [Ids -> States] /\ running' \in [Ids -> Procs \cup {None}] /\ aged' \subseteq Ids
      BY <2>12 DEF Dispose
    <3> QED
      BY <2>12, <3>1, <3>2 DEF Dispose
  <2> QED
    BY <1>2, <2>1, <2>2, <2>3, <2>4, <2>5, <2>6, <2>7, <2>8, <2>9, <2>10, <2>11, <2>12 DEF Continue
<1>3. ASSUME NEW i \in Ids, StopNotRunning(i) \/ Release(i) \/ Age(i) PROVE TypeOK'
  BY <1>3 DEF StopNotRunning, Release, Age, SetState, files, States, ActiveStates, ReleasedStates
<1>4. ASSUME NEW p \in Procs, ProcUp(p) \/ ProcExit(p) PROVE TypeOK'
  BY <1>4 DEF ProcUp, ProcExit, files
<1>5. ASSUME Collect PROVE TypeOK'
  <2>1. ASSUME SweepBegin PROVE TypeOK'
    BY <2>1, WalkType DEF SweepBegin, files
  <2>2. ASSUME RmDone PROVE TypeOK'
    <3>1. /\ sweep.todo \in SUBSET Ids /\ sweep.due \in SUBSET Ids
          /\ [state EXCEPT ![sweep.rm] = "DELETED"] \in [Ids -> States]
          /\ registered \ {sweep.rm} \in SUBSET Ids
      BY DEF Sweeps, States, ReleasedStates
    <3>2. /\ state' \in [Ids -> States] /\ aged' \subseteq Ids
          /\ registered' \subseteq Ids /\ sweep' \in Sweeps
      BY <2>2, <3>1, WalkType DEF RmDone
    <3> QED
      BY <2>2, <3>2 DEF RmDone, RemoveRoot
  <2>3. ASSUME RmFail PROVE TypeOK'
    <3>1. sweep.todo \in SUBSET Ids /\ sweep.due \in SUBSET Ids
      BY DEF Sweeps
    <3>2. /\ state' \in [Ids -> States] /\ aged' \subseteq Ids
          /\ registered' \subseteq Ids /\ sweep' \in Sweeps
      BY <2>3, <3>1, WalkType DEF RmFail
    <3> QED
      BY <2>3, <3>2 DEF RmFail, RemoveHalf
  <2> QED
    BY <1>5, <2>1, <2>2, <2>3 DEF Collect
<1>6. ASSUME UNCHANGED vars PROVE TypeOK'
  BY <1>6 DEF vars
<1> QED
  BY <1>1, <1>2, <1>3, <1>4, <1>5, <1>6 DEF Next

(* What a sweep does to the entries, where s differs from the states of    *)
(* the present at most outside T.                                          *)
LEMMA WalkEffect ==
  ASSUME TypeOK, NEW T \in SUBSET Ids, NEW D \in SUBSET Ids,
         NEW s \in [Ids -> States], NEW r \in SUBSET Ids, Walk(T, D, s, r),
         \A i \in T : s[i] = state[i]
  PROVE  /\ \A i \in Ids :
              \/ state'[i] = s[i]
              \/ s[i] = "RELEASED" /\ state'[i] = "RETENTION"
              \/ /\ i \in D /\ state[i] = "RETENTION" /\ running[i] = None
                 /\ s[i] = "RETENTION" /\ state'[i] = "DELETING"
         /\ registered' \subseteq r
         /\ \A i \in r \ registered' :
              i \in D /\ state[i] = "RETENTION" /\ state'[i] = "RETENTION"
         /\ aged' = {i \in aged : state'[i] = state[i]}
         /\ \/ sweep' = NoSweep
            \/ /\ sweep'.due = D /\ sweep'.rm \in D \ sweep'.todo
               /\ state'[sweep'.rm] = "DELETING"
<1>1. CASE ToRemove(T, D) = {} /\ Visit(T, D, s, r) /\ sweep' = NoSweep
  BY <1>1 DEF Visit, TypeOK, Due
<1>2. CASE \E t \in ToRemove(T, D) :
             /\ \A i \in ToRemove(T, D) : t <= i
             /\ Visit({i \in T : i < t}, D, [s EXCEPT ![t] = "DELETING"], r)
             /\ sweep' = [active |-> TRUE, todo |-> {i \in T : i > t}, due |-> D, rm |-> t]
  <2>1. PICK t \in ToRemove(T, D) :
             /\ Visit({i \in T : i < t}, D, [s EXCEPT ![t] = "DELETING"], r)
             /\ sweep' = [active |-> TRUE, todo |-> {i \in T : i > t}, due |-> D, rm |-> t]
    BY <1>2
  <2>2. t \in Ids /\ t \in T /\ t \in D /\ state[t] = "RETENTION" /\ running[t] = None
    BY DEF ToRemove, Due
  <2>3. ~ (t < t) /\ ~ (t > t)
    BY <2>2, LifecycleAssumption DEF Ids
  <2>4. state' = [i \in Ids |-> IF i \in T /\ i < t /\ [s EXCEPT ![t] = "DELETING"][i] = "RELEASED"
                                THEN "RETENTION" ELSE [s EXCEPT ![t] = "DELETING"][i]]
    BY <2>1 DEF Visit
  <2>5. state'[t] = "DELETING" /\ s[t] = "RETENTION"
    BY <2>2, <2>3, <2>4
  <2>6. sweep'.due = D /\ sweep'.rm = t /\ t \notin sweep'.todo
    BY <2>1, <2>3
  <2>7. \A i \in r \ registered' :
              i \in D /\ state[i] = "RETENTION" /\ state'[i] = "RETENTION"
    BY <2>1, <2>3, <2>4 DEF Visit, Due
  <2>8. \A i \in Ids \ {t} :
          \/ state'[i] = s[i]
          \/ s[i] = "RELEASED" /\ state'[i] = "RETENTION"
    <3> TAKE i \in Ids \ {t}
    <3>1. [s EXCEPT ![t] = "DELETING"][i] = s[i]
      OBVIOUS
    <3>2. state'[i] = IF i \in T /\ i < t /\ s[i] = "RELEASED" THEN "RETENTION" ELSE s[i]
      BY <2>4, <3>1
    <3>3. CASE i \in T /\ i < t /\ s[i] = "RELEASED"
      BY <3>2, <3>3
    <3>4. CASE ~ (i \in T /\ i < t /\ s[i] = "RELEASED")
      BY <3>2, <3>4
    <3> QED
      BY <3>3, <3>4
  <2> QED
    BY <2>1, <2>2, <2>5, <2>6, <2>7, <2>8 DEF Visit
<1> QED
  BY <1>1, <1>2 DEF Walk

(* What the collector does, D being the entries that were due.             *)
LEMMA CollectEffect ==
  ASSUME IInv, Collect
  PROVE  \E D \in SUBSET Ids :
           /\ \A i \in D :
                /\ state[i] \in {"RETENTION", "DELETING", "DELETED"}
                /\ state[i] = "RETENTION" => i \in aged
                /\ InFlight(i) = {}
           /\ \A i \in Ids :
                \/ state'[i] = state[i]
                \/ state[i] = "RELEASED" /\ state'[i] = "RETENTION"
                \/ /\ i \in D /\ state[i] = "RETENTION" /\ running[i] = None
                   /\ state'[i] = "DELETING"
                \/ i \in D /\ state[i] = "DELETING" /\ state'[i] = "DELETED"
           /\ registered' \subseteq registered
           /\ \A i \in registered \ registered' :
                i \in D /\ state'[i] \in {"RETENTION", "DELETED"}
                /\ (state[i] = "DELETING" \/ i \in aged)
           /\ aged' = {i \in aged : state'[i] = state[i]}
           /\ \/ sweep' = NoSweep
              \/ /\ sweep'.due = D /\ sweep'.rm \in D \ sweep'.todo
                 /\ state'[sweep'.rm] = "DELETING"
           /\ UNCHANGED <<running, proc, host, calls>>
<1>0. /\ TypeOK /\ AgedIsQuiet /\ SweepIsQuiet
      /\ state \in [Ids -> States] /\ registered \in SUBSET Ids /\ aged \in SUBSET Ids
      /\ sweep.due \in SUBSET Ids /\ sweep.todo \in SUBSET Ids /\ sweep.rm \in Ids \cup {None}
  BY DEF IInv, TypeOK, Sweeps
<1>1. CASE SweepBegin
  <2>1. \A i \in aged : state[i] = "RETENTION" /\ InFlight(i) = {}
    BY <1>0 DEF AgedIsQuiet
  <2>2. Walk(registered, aged, state, registered) /\ UNCHANGED <<running, proc, host, calls>>
    BY <1>1 DEF SweepBegin
  <2> QED
    BY <1>0, <2>1, <2>2, WalkEffect
<1>2. CASE RmDone
  <2>1. /\ sweep.rm \in Ids /\ sweep.rm \in sweep.due /\ sweep.rm \notin sweep.todo
        /\ state[sweep.rm] = "DELETING"
    BY <1>0, <1>2 DEF RmDone, SweepIsQuiet
  <2> DEFINE s == [state EXCEPT ![sweep.rm] = "DELETED"]
  <2>2. /\ s \in [Ids -> States] /\ registered \ {sweep.rm} \in SUBSET Ids
        /\ \A i \in Ids : i # sweep.rm => s[i] = state[i]
        /\ s[sweep.rm] = "DELETED"
    BY <1>0, <2>1 DEF States, ReleasedStates
  <2>3. \A i \in sweep.todo : s[i] = state[i]
    BY <1>0, <2>1, <2>2
  <2>4. /\ Walk(sweep.todo, sweep.due, s, registered \ {sweep.rm})
        /\ UNCHANGED <<running, proc, host, calls>>
    BY <1>2 DEF RmDone
  <2>5. \A i \in sweep.due :
          /\ state[i] \in {"RETENTION", "DELETING", "DELETED"}
          /\ state[i] = "RETENTION" => i \in aged
          /\ InFlight(i) = {}
    BY <1>0 DEF SweepIsQuiet
  <2> HIDE DEF s
  <2>6. /\ \A i \in Ids :
             \/ state'[i] = s[i]
             \/ s[i] = "RELEASED" /\ state'[i] = "RETENTION"
             \/ /\ i \in sweep.due /\ state[i] = "RETENTION" /\ running[i] = None
                /\ s[i] = "RETENTION" /\ state'[i] = "DELETING"
        /\ registered' \subseteq registered \ {sweep.rm}
        /\ \A i \in (registered \ {sweep.rm}) \ registered' :
             i \in sweep.due /\ state[i] = "RETENTION" /\ state'[i] = "RETENTION"
        /\ aged' = {i \in aged : state'[i] = state[i]}
        /\ \/ sweep' = NoSweep
           \/ /\ sweep'.due = sweep.due /\ sweep'.rm \in sweep.due \ sweep'.todo
              /\ state'[sweep'.rm] = "DELETING"
    BY <1>0, <2>2, <2>3, <2>4, WalkEffect
  <2>7. \A i \in Ids :
          \/ state'[i] = state[i]
          \/ state[i] = "RELEASED" /\ state'[i] = "RETENTION"
          \/ /\ i \in sweep.due /\ state[i] = "RETENTION" /\ running[i] = None
             /\ state'[i] = "DELETING"
          \/ i \in sweep.due /\ state[i] = "DELETING" /\ state'[i] = "DELETED"
    BY <2>1, <2>2, <2>6
  <2>8. state'[sweep.rm] = "DELETED"
    BY <2>1, <2>2, <2>6
  <2> QED
    BY <1>0, <2>1, <2>4, <2>5, <2>6, <2>7, <2>8
<1>3. CASE RmFail
  <2>1. Walk(sweep.todo, sweep.due, state, registered) /\ UNCHANGED <<running, proc, host, calls>>
    BY <1>3 DEF RmFail
  <2>2. \A i \in sweep.due :
          /\ state[i] \in {"RETENTION", "DELETING", "DELETED"}
          /\ state[i] = "RETENTION" => i \in aged
          /\ InFlight(i) = {}
    BY <1>0 DEF SweepIsQuiet
  <2> QED
    BY <1>0, <2>1, <2>2, WalkEffect
<1> QED
  BY <1>1, <1>2, <1>3 DEF Collect

(* A step keeps requests, entries and processes wired to each other.       *)
LEMMA WiringStep ==
  IInv /\ [Next]_vars =>
    (CallsWired /\ RunningWired /\ RegisteredUntilCollected /\ ReadyHasRuntime)'
<1> SUFFICES ASSUME IInv, [Next]_vars PROVE (CallsWired /\ RunningWired /\ RegisteredUntilCollected /\ ReadyHasRuntime)'
  OBVIOUS
<1> DEFINE Goal == CallsWired /\ RunningWired /\ RegisteredUntilCollected /\ ReadyHasRuntime
<1>0. sweep.due \subseteq Ids /\ sweep.todo \subseteq Ids
  BY DEF IInv, TypeOK, Sweeps
<1> USE NoneIsNone, <1>0 DEF IInv, TypeOK, CallsWired, RunningWired, HostedBy, RegisteredUntilCollected, ReadyHasRuntime, AgedIsQuiet, SweepIsQuiet, DeletionIsQuiet
<1>1. ASSUME NEW c \in Calls, Begin(c) PROVE Goal'
  <2> USE DEF Idle, Addressable, Park, Return, SetState, InFlight, files
  <2>1. ASSUME NEW op \in {"create", "scenario"}, CreateBegin(c, op) PROVE Goal'
    BY <2>1 DEF CreateBegin
  <2>2. ASSUME NEW i \in Ids, LaunchBegin(c, i, "launch") PROVE Goal'
    BY <2>2 DEF LaunchBegin
  <2>3. ASSUME NEW i \in Ids, StopBegin(c, i) PROVE Goal'
    BY <2>3 DEF StopBegin
  <2>4. ASSUME NEW i \in Ids, ReleaseDiscarding(c, i) PROVE Goal'
    BY <2>4 DEF ReleaseDiscarding
  <2> QED
    BY <1>1, <2>1, <2>2, <2>3, <2>4 DEF Begin
<1>2. ASSUME NEW c \in Calls, Continue(c) PROVE Goal'
  <2> USE DEF Idle, Park, Return, SetState, InFlight, files
  <2>1. ASSUME CreateEnd(c) PROVE Goal'
    BY <2>1 DEF CreateEnd, CreateRuntimeImage, Register
  <2>2. ASSUME CreateFail(c) PROVE Goal'
    BY <2>2 DEF CreateFail
  <2>3. ASSUME JavaMissing(c) PROVE Goal'
    BY <2>3 DEF JavaMissing
  <2>4. ASSUME Spawn(c) PROVE Goal'
    BY <2>4 DEF Spawn, Unborn
  <2>5. ASSUME SpawnFail(c) PROVE Goal'
    BY <2>5 DEF SpawnFail
  <2>6. ASSUME MarkerRead(c) PROVE Goal'
    BY <2>6 DEF MarkerRead
  <2>7. ASSUME MarkerGone(c) PROVE Goal'
    BY <2>7 DEF MarkerGone
  <2>8. ASSUME GatePass(c) PROVE Goal'
    BY <2>8 DEF GatePass
  <2>9. ASSUME GateFail(c) PROVE Goal'
    BY <2>9 DEF GateFail
  <2>10. ASSUME StopEnd(c) PROVE Goal'
    BY <2>10 DEF StopEnd
  <2>11. ASSUME DiscardDone(c) PROVE Goal'
    BY <2>11 DEF DiscardDone, RemoveRoot
  <2>12. ASSUME DiscardFail(c) PROVE Goal'
    BY <2>12 DEF DiscardFail, RemoveHalf
  <2>13. ASSUME ScenarioEnd(c) PROVE Goal'
    BY <2>13 DEF ScenarioEnd
  <2>14. ASSUME ScenarioEndStopped(c) PROVE Goal'
    BY <2>14 DEF ScenarioEndStopped
  <2>15. ASSUME Dispose(c) PROVE Goal'
    BY <2>15 DEF Dispose
  <2> QED
    BY <1>2, <2>1, <2>2, <2>3, <2>4, <2>5, <2>6, <2>7, <2>8, <2>9, <2>10, <2>11, <2>12, <2>13, <2>14, <2>15 DEF Continue
<1>3. ASSUME NEW i \in Ids, StopNotRunning(i) \/ Release(i) \/ Age(i) PROVE Goal'
  <2> USE DEF Addressable, SetState, InFlight, files
  <2>1. CASE StopNotRunning(i)
    BY <2>1 DEF StopNotRunning
  <2>2. CASE Release(i)
    BY <2>2 DEF Release
  <2>3. CASE Age(i)
    BY <2>3 DEF Age
  <2> QED
    BY <1>3, <2>1, <2>2, <2>3
<1>4. ASSUME NEW p \in Procs, ProcUp(p) \/ ProcExit(p) PROVE Goal'
  BY <1>4 DEF ProcUp, ProcExit, Alive, InFlight, files
<1>5. ASSUME Collect PROVE Goal'
  <2>1. PICK D \in SUBSET Ids :
           /\ \A i \in D : InFlight(i) = {}
           /\ \A i \in Ids : state'[i] # state[i] =>
                state'[i] \in {"RETENTION", "DELETING", "DELETED"}
           /\ registered' \subseteq registered
           /\ \A i \in registered \ registered' :
                i \in D /\ state'[i] \in {"RETENTION", "DELETED"}
           /\ UNCHANGED <<running, proc, host, calls>>
    BY <1>5, CollectEffect
  <2>2. CallsWired'
    BY <2>1 DEF InFlight
  <2>3. RunningWired'
    BY <2>1
  <2>4. RegisteredUntilCollected'
    BY <2>1
  <2>5. ReadyHasRuntime'
    BY <2>1
  <2> QED
    BY <2>2, <2>3, <2>4, <2>5
<1>6. ASSUME UNCHANGED vars PROVE Goal'
  BY <1>6 DEF vars, InFlight
<1> QED
  BY <1>1, <1>2, <1>3, <1>4, <1>5, <1>6 DEF Next

(* A step leaves a runtime that is over alone.                             *)
LEMMA QuietStep == IInv /\ [Next]_vars => (AgedIsQuiet /\ SweepIsQuiet /\ DeletionIsQuiet)'
<1> SUFFICES ASSUME IInv, [Next]_vars PROVE (AgedIsQuiet /\ SweepIsQuiet /\ DeletionIsQuiet)'
  OBVIOUS
<1> DEFINE Goal == AgedIsQuiet /\ SweepIsQuiet /\ DeletionIsQuiet
<1>0. sweep.due \subseteq Ids /\ sweep.todo \subseteq Ids
  BY DEF IInv, TypeOK, Sweeps
<1> USE NoneIsNone, <1>0 DEF IInv, TypeOK, CallsWired, RegisteredUntilCollected, AgedIsQuiet, SweepIsQuiet, DeletionIsQuiet
<1>1. ASSUME NEW c \in Calls, Begin(c) PROVE Goal'
  <2> USE DEF Idle, Addressable, Park, Return, SetState, InFlight, files
  <2>1. ASSUME NEW op \in {"create", "scenario"}, CreateBegin(c, op) PROVE Goal'
    BY <2>1 DEF CreateBegin
  <2>2. ASSUME NEW i \in Ids, LaunchBegin(c, i, "launch") PROVE Goal'
    BY <2>2 DEF LaunchBegin
  <2>3. ASSUME NEW i \in Ids, StopBegin(c, i) PROVE Goal'
    BY <2>3 DEF StopBegin
  <2>4. ASSUME NEW i \in Ids, ReleaseDiscarding(c, i) PROVE Goal'
    BY <2>4 DEF ReleaseDiscarding
  <2> QED
    BY <1>1, <2>1, <2>2, <2>3, <2>4 DEF Begin
<1>2. ASSUME NEW c \in Calls, Continue(c) PROVE Goal'
  <2> USE DEF Idle, Park, Return, SetState, InFlight, files
  <2>1. ASSUME CreateEnd(c) PROVE Goal'
    BY <2>1 DEF CreateEnd, CreateRuntimeImage, Register
  <2>2. ASSUME CreateFail(c) PROVE Goal'
    BY <2>2 DEF CreateFail
  <2>3. ASSUME JavaMissing(c) PROVE Goal'
    BY <2>3 DEF JavaMissing
  <2>4. ASSUME Spawn(c) PROVE Goal'
    BY <2>4 DEF Spawn, Unborn
  <2>5. ASSUME SpawnFail(c) PROVE Goal'
    BY <2>5 DEF SpawnFail
  <2>6. ASSUME MarkerRead(c) PROVE Goal'
    BY <2>6 DEF MarkerRead
  <2>7. ASSUME MarkerGone(c) PROVE Goal'
    BY <2>7 DEF MarkerGone
  <2>8. ASSUME GatePass(c) PROVE Goal'
    BY <2>8 DEF GatePass
  <2>9. ASSUME GateFail(c) PROVE Goal'
    BY <2>9 DEF GateFail
  <2>10. ASSUME StopEnd(c) PROVE Goal'
    BY <2>10 DEF StopEnd
  <2>11. ASSUME DiscardDone(c) PROVE Goal'
    BY <2>11 DEF DiscardDone, RemoveRoot
  <2>12. ASSUME DiscardFail(c) PROVE Goal'
    BY <2>12 DEF DiscardFail, RemoveHalf
  <2>13. ASSUME ScenarioEnd(c) PROVE Goal'
    BY <2>13 DEF ScenarioEnd
  <2>14. ASSUME ScenarioEndStopped(c) PROVE Goal'
    BY <2>14 DEF ScenarioEndStopped
  <2>15. ASSUME Dispose(c) PROVE Goal'
    BY <2>15 DEF Dispose
  <2> QED
    BY <1>2, <2>1, <2>2, <2>3, <2>4, <2>5, <2>6, <2>7, <2>8, <2>9, <2>10, <2>11, <2>12, <2>13, <2>14, <2>15 DEF Continue
<1>3. ASSUME NEW i \in Ids, StopNotRunning(i) \/ Release(i) \/ Age(i) PROVE Goal'
  <2> USE DEF Addressable, SetState, InFlight, files
  <2>1. CASE StopNotRunning(i)
    BY <2>1 DEF StopNotRunning
  <2>2. CASE Release(i)
    BY <2>2 DEF Release
  <2>3. CASE Age(i)
    BY <2>3 DEF Age
  <2> QED
    BY <1>3, <2>1, <2>2, <2>3
<1>4. ASSUME NEW p \in Procs, ProcUp(p) \/ ProcExit(p) PROVE Goal'
  BY <1>4 DEF ProcUp, ProcExit, Alive, InFlight, files
<1>5. ASSUME Collect PROVE Goal'
  <2>1. PICK D \in SUBSET Ids :
           /\ \A i \in D : state[i] = "RETENTION" => i \in aged
           /\ \A i \in D : state[i] \in {"RETENTION", "DELETING", "DELETED"}
           /\ \A i \in D : InFlight(i) = {}
           /\ \A i \in Ids :
                \/ state'[i] = state[i]
                \/ state[i] = "RELEASED" /\ state'[i] = "RETENTION"
                \/ /\ i \in D /\ state[i] = "RETENTION" /\ running[i] = None
                   /\ state'[i] = "DELETING"
                \/ i \in D /\ state[i] = "DELETING" /\ state'[i] = "DELETED"
           /\ aged' = {i \in aged : state'[i] = state[i]}
           /\ \/ sweep' = NoSweep
              \/ /\ sweep'.due = D /\ sweep'.rm \in D \ sweep'.todo
                 /\ state'[sweep'.rm] = "DELETING"
           /\ UNCHANGED <<running, calls>>
    BY <1>5, CollectEffect
  <2>2. \A i \in Ids : InFlight(i)' = InFlight(i)
    BY <2>1 DEF InFlight
  <2>3. AgedIsQuiet'
    BY <2>1, <2>2
  <2>4. \A i \in D :
          /\ state'[i] \in {"RETENTION", "DELETING", "DELETED"}
          /\ state'[i] = "RETENTION" => i \in aged'
          /\ InFlight(i)' = {}
    BY <2>1, <2>2
  <2>5. SweepIsQuiet'
    BY <2>1, <2>4 DEF NoSweep
  <2>6. DeletionIsQuiet'
    BY <2>1, <2>2
  <2> QED
    BY <2>3, <2>5, <2>6
<1>6. ASSUME UNCHANGED vars PROVE Goal'
  BY <1>6 DEF vars, InFlight
<1> QED
  BY <1>1, <1>2, <1>3, <1>4, <1>5, <1>6 DEF Next

(* Requests, entries and processes stay wired to each other, and a runtime *)
(* that is past its retention period is left alone, in every run.          *)
THEOREM Inductive == Spec => []IInv
<1>1. Init => IInv
  BY NoneIsNone, IdleIsCall DEF Init, IInv, TypeOK, States, CallsWired, RunningWired, HostedBy,
    RegisteredUntilCollected, ReadyHasRuntime, AgedIsQuiet, SweepIsQuiet, DeletionIsQuiet,
    InFlight, Idle, NoSweep
<1>2. IInv /\ [Next]_vars => IInv'
  BY TypeStep, WiringStep, QuietStep DEF IInv
<1>3. QED
  BY <1>1, <1>2, PTL DEF Spec

(* Every variable keeps its type.                                          *)
THEOREM TypeCorrect == Spec => []TypeOK
BY Inductive, PTL DEF IInv

(* A READY runtime is registered and has a process, its own.               *)
THEOREM ReadyIsServed == Spec => []ReadyHasRuntime
BY Inductive, PTL DEF IInv

(* Nobody works on a runtime that is being deleted.                        *)
THEOREM DeletionUndisturbed == Spec => []DeletionIsQuiet
BY Inductive, PTL DEF IInv

(* A runtime begins to be deleted only after its whole retention period,   *)
(* with no process, in a sweep.                                            *)
THEOREM RetentionComesFirst == Spec => DeletionAfterRetention
<1> DEFINE Step ==
      \A i \in Ids :
        /\ state[i] # "DELETING" /\ state'[i] = "DELETING" =>
             state[i] = "RETENTION" /\ i \in aged /\ running[i] = None
        /\ i \in registered /\ i \notin registered' =>
             state[i] = "DELETING" \/ i \in aged
<1>1. IInv /\ [Next]_vars => Step
  <2> SUFFICES ASSUME IInv, [Next]_vars PROVE Step
    OBVIOUS
  <2> USE DEF IInv, TypeOK
  <2>1. ASSUME NEW c \in Calls, Begin(c) PROVE Step
    BY <2>1 DEF Begin, CreateBegin, LaunchBegin, StopBegin, ReleaseDiscarding, SetState
  <2>2. ASSUME NEW c \in Calls, Continue(c) PROVE Step
    BY <2>2 DEF Continue, CreateEnd, CreateRuntimeImage, Register, CreateFail, JavaMissing, Spawn, SpawnFail, MarkerRead,
      MarkerGone, GatePass, GateFail, StopEnd, DiscardDone, DiscardFail, ScenarioEnd,
      ScenarioEndStopped, Dispose, SetState
  <2>3. ASSUME NEW i \in Ids, StopNotRunning(i) \/ Release(i) \/ Age(i) PROVE Step
    BY <2>3 DEF StopNotRunning, Release, Age, SetState
  <2>4. ASSUME NEW p \in Procs, ProcUp(p) \/ ProcExit(p) PROVE Step
    BY <2>4 DEF ProcUp, ProcExit
  <2>5. ASSUME Collect PROVE Step
    BY <2>5, CollectEffect
  <2>6. ASSUME UNCHANGED vars PROVE Step
    BY <2>6 DEF vars
  <2> QED
    BY <2>1, <2>2, <2>3, <2>4, <2>5, <2>6 DEF Next
<1>2. QED
  BY <1>1, Inductive, PTL DEF Spec, DeletionAfterRetention

-----------------------------------------------------------------------------
(* Clients that wait for one answer per runtime, and the pool.             *)

(* A runtime that may be addressed has no request at all.                  *)
LEMMA Unasked ==
  ASSUME SerialRuntime, TypeOK, RequestsMatch, NEW i \in Ids, InFlight(i) = {}
  PROVE  \A c \in Calls : calls[c].id # i
BY NoneIsNone DEF InFlight, RequestsMatch

(* A step of the lifecycle keeps requests and runtimes in step.            *)
LEMMA SerialStep ==
  ASSUME SerialRuntime, IInv, SerialInv, [Next]_vars
  PROVE  SerialInv'
<1> DEFINE Goal == OneRequest /\ RequestsMatch /\ StatesMatch /\ NoForgottenProcess /\ Hosted
<1> SUFFICES Goal'
  BY DEF SerialInv
<1>0. /\ Goal /\ TypeOK /\ CallsWired /\ RunningWired
      /\ marked \subseteq Ids
  BY DEF SerialInv, IInv, TypeOK
<1>a. ASSUME NEW i \in Ids, Addressable(i) PROVE i \in registered /\ \A c \in Calls : calls[c].id # i
  BY <1>0, <1>a, Unasked DEF Addressable
<1> USE NoneIsNone, <1>0 DEF TypeOK, OneRequest, RequestsMatch, StatesMatch, NoForgottenProcess, Hosted, Watched, Alive
<1>1. ASSUME NEW c \in Calls, Begin(c) PROVE Goal'
  <2> USE DEF Idle, Park, Return, SetState, files
  <2>1. ASSUME NEW op \in {"create", "scenario"}, CreateBegin(c, op) PROVE Goal'
    BY <2>1 DEF CreateBegin
  <2>2. ASSUME NEW i \in Ids, LaunchBegin(c, i, "launch") PROVE Goal'
    BY <2>2, <1>a DEF LaunchBegin
  <2>3. ASSUME NEW i \in Ids, StopBegin(c, i) PROVE Goal'
    BY <2>3, <1>a DEF StopBegin, ActiveStates
  <2>4. ASSUME NEW i \in Ids, ReleaseDiscarding(c, i) PROVE Goal'
    BY <2>4, <1>a DEF ReleaseDiscarding, ActiveStates
  <2> QED
    BY <1>1, <2>1, <2>2, <2>3, <2>4 DEF Begin
<1>2. ASSUME NEW c \in Calls, Continue(c) PROVE Goal'
  <2> USE DEF Idle, Park, Return, SetState, files, CallsWired, RunningWired, HostedBy
  <2>1. ASSUME CreateEnd(c) PROVE Goal'
    <3> HIDE DEF Park, Return, SetState
    <3>a. PICK i \in Ids :
            /\ state[i] = "UNBORN"
            /\ SetState(i, "CREATED")
            /\ marked' = marked \cup {i}
            /\ IF calls[c].op = "scenario"
               THEN Park(c, "detecting", "scenario", i, None)
               ELSE Return(c)
      BY <2>1 DEF CreateEnd, CreateRuntimeImage, Register
    <3>1. /\ state[i] = "UNBORN"
          /\ state' = [state EXCEPT ![i] = "CREATED"]
          /\ marked' = marked \cup {i}
          /\ \/ calls' = [calls EXCEPT ![c] = [pc |-> "detecting", op |-> "scenario", id |-> i, proc |-> None]]
             \/ calls' = [calls EXCEPT ![c] = Idle]
      BY <3>a DEF SetState, Park, Return
    <3>2. \A d \in Calls : calls[d].id # i /\ (d # c => calls'[d] = calls[d])
      BY <3>1 DEF CallRecords, ActiveStates
    <3>3. /\ calls[c].pc = "creating" /\ UNCHANGED <<running, proc, host>>
          /\ calls'[c].id \in {i, None} /\ calls'[c].pc \in {"idle", "detecting"}
          /\ calls'[c].pc = "detecting" <=> calls'[c].id = i
      BY <2>1, <3>1 DEF CreateEnd, CreateRuntimeImage, Register
    <3>4. OneRequest'
      BY <3>2, <3>3
    <3>5. RequestsMatch'
      BY <3>1, <3>2, <3>3
    <3>6. StatesMatch'
      BY <3>1, <3>2, <3>3 DEF ActiveStates
    <3>7. NoForgottenProcess' /\ Hosted'
      BY <3>1, <3>2, <3>3
    <3> QED
      BY <3>4, <3>5, <3>6, <3>7
  <2>2. ASSUME CreateFail(c) PROVE Goal'
    BY <2>2 DEF CreateFail
  <2>3. ASSUME JavaMissing(c) PROVE Goal'
    BY <2>3 DEF JavaMissing
  <2>4. ASSUME Spawn(c) PROVE Goal'
    <3> DEFINE i == calls[c].id
    <3>1. PICK p \in Procs :
            /\ proc[p] = "unborn"
            /\ proc' = [proc EXCEPT ![p] = "booting"]
            /\ host' = [host EXCEPT ![p] = i]
            /\ calls' = [calls EXCEPT ![c] = [pc |-> "reading", op |-> calls[c].op, id |-> i, proc |-> p]]
      BY <2>4 DEF Spawn, Unborn
    <3>2. /\ calls[c].pc = "detecting" /\ i \in Ids
          /\ state' = [state EXCEPT ![i] = "STARTING"]
          /\ UNCHANGED <<running, marked>>
          /\ \A d \in Calls \ {c} : calls'[d] = calls[d] /\ calls[d].id # i
          /\ state[i] = "CREATED" /\ running[i] = None
      BY <2>4, <3>1 DEF Spawn
    <3>3. OneRequest'
      BY <3>1, <3>2
    <3>4. RequestsMatch'
      BY <3>1, <3>2
    <3>5. StatesMatch'
      BY <3>1, <3>2 DEF ActiveStates
    <3>6. \A q \in Procs \ {p} : Alive(q) => host[q] # i
      BY <3>2
    <3>7. NoForgottenProcess' /\ Hosted'
      BY <3>1, <3>2, <3>6
    <3> QED
      BY <3>3, <3>4, <3>5, <3>7
  <2>5. ASSUME SpawnFail(c) PROVE Goal'
    BY <2>5 DEF SpawnFail, ActiveStates
  <2>6. ASSUME MarkerRead(c) PROVE Goal'
    BY <2>6 DEF MarkerRead
  <2>7. ASSUME MarkerGone(c) PROVE Goal'
    BY <2>7 DEF MarkerGone, ActiveStates
  <2>8. ASSUME GatePass(c) PROVE Goal'
    BY <2>8 DEF GatePass, ActiveStates
  <2>9. ASSUME GateFail(c) PROVE Goal'
    BY <2>9 DEF GateFail, ActiveStates
  <2>10. ASSUME StopEnd(c) PROVE Goal'
    BY <2>10 DEF StopEnd, ActiveStates
  <2>11. ASSUME DiscardDone(c) PROVE Goal'
    BY <2>11 DEF DiscardDone, RemoveRoot, ActiveStates
  <2>12. ASSUME DiscardFail(c) PROVE Goal'
    BY <2>12 DEF DiscardFail, RemoveHalf, ActiveStates
  <2>13. ASSUME ScenarioEnd(c) PROVE Goal'
    BY <2>13 DEF ScenarioEnd
  <2>14. ASSUME ScenarioEndStopped(c) PROVE Goal'
    BY <2>14 DEF ScenarioEndStopped
  <2>15. ASSUME Dispose(c) PROVE Goal'
    <3> DEFINE i == calls[c].id
    <3>1. /\ calls[c].pc = "disposing" /\ i \in Ids /\ i \in registered
          /\ proc' = [proc EXCEPT ![calls[c].proc] = "dead"]
          /\ running' = [running EXCEPT ![i] = None]
          /\ state' = [state EXCEPT ![i] = "RELEASED"]
          /\ calls' = [calls EXCEPT ![c] = [pc |-> "discarding", op |-> "scenario", id |-> i, proc |-> None]]
          /\ UNCHANGED <<marked, host>>
      BY <2>15 DEF Dispose
    <3>2. /\ \A d \in Calls \ {c} : calls'[d] = calls[d] /\ calls[d].id # i
          /\ state[i] = "READY" /\ running[i] = calls[c].proc /\ calls[c].proc \in Procs
      BY <3>1
    <3>3. OneRequest' /\ RequestsMatch'
      BY <3>1, <3>2
    <3>4. StatesMatch'
      BY <3>1, <3>2 DEF ActiveStates
    <3>5. NoForgottenProcess' /\ Hosted'
      BY <3>1, <3>2
    <3> QED
      BY <3>3, <3>4, <3>5
  <2> QED
    BY <1>2, <2>1, <2>2, <2>3, <2>4, <2>5, <2>6, <2>7, <2>8, <2>9, <2>10, <2>11, <2>12, <2>13, <2>14, <2>15 DEF Continue
<1>3. ASSUME NEW i \in Ids, StopNotRunning(i) \/ Release(i) \/ Age(i) PROVE Goal'
  <2> USE DEF SetState, files, ActiveStates
  <2>1. CASE StopNotRunning(i)
    BY <2>1, <1>a DEF StopNotRunning
  <2>2. CASE Release(i)
    BY <2>2, <1>a DEF Release
  <2>3. CASE Age(i)
    BY <2>3 DEF Age
  <2> QED
    BY <1>3, <2>1, <2>2, <2>3
<1>4. ASSUME NEW p \in Procs, ProcUp(p) \/ ProcExit(p) PROVE Goal'
  BY <1>4 DEF ProcUp, ProcExit, files
<1>5. ASSUME Collect PROVE Goal'
  <2>1. /\ \A i \in Ids :
             \/ state'[i] = state[i]
             \/ state[i] = "RELEASED" /\ state'[i] = "RETENTION"
             \/ InFlight(i) = {} /\ state[i] \in {"RETENTION", "DELETING"} /\ state'[i] \in {"DELETING", "DELETED"}
        /\ UNCHANGED <<running, proc, host, calls>>
    BY <1>5, CollectEffect
  <2>2. \A i \in marked \ marked' : state[i] = "DELETING"
    BY <1>5 DEF Collect, SweepBegin, RmDone, RmFail, RemoveRoot, RemoveHalf, files, SweepIsQuiet, IInv
  <2>3. OneRequest'
    BY <2>1
  <2>a. \A c \in Calls : calls[c].pc # "idle" /\ calls[c].id \in Ids =>
          state'[calls[c].id] = state[calls[c].id] \/ (state'[calls[c].id] = "RETENTION" /\ state[calls[c].id] = "RELEASED")
    <3> SUFFICES ASSUME NEW c \in Calls, NEW i \in Ids, i = calls[c].id, calls[c].pc # "idle"
                 PROVE  state'[i] = state[i] \/ (state'[i] = "RETENTION" /\ state[i] = "RELEASED")
      OBVIOUS
    <3>1. InFlight(i) # {}
      BY DEF InFlight
    <3> QED
      BY <2>1, <3>1
  <2>4. RequestsMatch'
    BY <2>1, <2>a DEF CallsWired
  <2>5. StatesMatch'
    BY <2>1, <2>2 DEF ActiveStates
  <2>6. NoForgottenProcess' /\ Hosted'
    BY <2>1
  <2> QED
    BY <2>3, <2>4, <2>5, <2>6
<1>6. ASSUME UNCHANGED vars PROVE Goal'
  BY <1>6 DEF vars
<1> QED
  BY <1>1, <1>2, <1>3, <1>4, <1>5, <1>6 DEF Next

(* The invariant is inductive, as a lemma for the steps of the pool.       *)
LEMMA LifecycleStep == IInv /\ [Next]_vars => IInv'
BY TypeStep, WiringStep, QuietStep DEF IInv

(* What pool.acquire does to the lifecycle is a launch like any other.     *)
LEMMA LaunchForPool ==
  ASSUME IInv, NEW c \in Calls, NEW i \in Ids, LaunchBegin(c, i, "pool")
  PROVE  IInv' /\ (SerialRuntime /\ SerialInv => SerialInv')
<1> USE NoneIsNone DEF IInv, TypeOK, LaunchBegin, Idle, Park, files
<1>1. TypeOK'
  BY DEF CallRecords
<1>2. CallsWired' /\ RunningWired' /\ RegisteredUntilCollected' /\ ReadyHasRuntime'
  BY DEF CallsWired, RunningWired, RegisteredUntilCollected, ReadyHasRuntime, HostedBy, Addressable
<1>3. AgedIsQuiet' /\ SweepIsQuiet' /\ DeletionIsQuiet'
  BY DEF AgedIsQuiet, SweepIsQuiet, DeletionIsQuiet, InFlight, Sweeps
<1>4. ASSUME SerialRuntime, SerialInv PROVE SerialInv'
  <2>1. \A d \in Calls : calls[d].id # i
    BY <1>4, Unasked DEF Addressable, SerialInv
  <2> QED
    BY <1>4, <2>1 DEF SerialInv, OneRequest, RequestsMatch, StatesMatch, NoForgottenProcess, Hosted, Watched, Alive
<1> QED
  BY <1>1, <1>2, <1>3, <1>4

(* Its end is the end of a launch, whatever becomes of the entry.          *)
LEMMA LaunchedForPool ==
  ASSUME IInv, NEW c \in Calls, calls[c].pc = "launched", Return(c),
         UNCHANGED <<state, running, registered, files, aged, proc, host, sweep>>
  PROVE  IInv' /\ (SerialInv => SerialInv')
<1> USE NoneIsNone DEF IInv, TypeOK, Idle, Return, files
<1>1. TypeOK'
  BY DEF CallRecords
<1>2. CallsWired' /\ RunningWired' /\ RegisteredUntilCollected' /\ ReadyHasRuntime'
  BY DEF CallsWired, RunningWired, RegisteredUntilCollected, ReadyHasRuntime, HostedBy
<1>3. AgedIsQuiet' /\ SweepIsQuiet' /\ DeletionIsQuiet'
  BY DEF AgedIsQuiet, SweepIsQuiet, DeletionIsQuiet, InFlight, Sweeps
<1>4. ASSUME SerialInv PROVE SerialInv'
  BY <1>4 DEF SerialInv, OneRequest, RequestsMatch, StatesMatch, NoForgottenProcess, Hosted, Watched, Alive
<1> QED
  BY <1>1, <1>2, <1>3, <1>4

(* A pooled runtime runs, so that the pool's handler of its eviction parks *)
(* in the wait for the process; the release after it is refused.           *)
LEMMA ReapStops ==
  ASSUME IInv, SerialInv, NEW i \in Ids, state[i] = "READY", InFlight(i) = {}, Reap(i),
         UNCHANGED <<running, registered, files, proc, host, sweep>>
  PROVE  /\ \E c \in Calls : calls[c] = Idle /\ Park(c, "stopping", "pool", i, running[i])
         /\ SetState(i, "STOPPING")
         /\ IInv' /\ (SerialRuntime => SerialInv')
<1>1. i \in registered /\ running[i] # None
  BY DEF IInv, ReadyHasRuntime
<1>2. /\ \E c \in Calls : calls[c] = Idle /\ Park(c, "stopping", "pool", i, running[i])
      /\ SetState(i, "STOPPING")
  BY <1>1 DEF Reap
<1>3. PICK c \in Calls : calls[c] = Idle /\ Park(c, "stopping", "pool", i, running[i])
  BY <1>2
<1> USE NoneIsNone, <1>1, <1>3 DEF IInv, TypeOK, Idle, Park, SetState, files
<1>4. TypeOK'
  BY <1>2 DEF CallRecords, States, ActiveStates
<1>5. CallsWired' /\ RunningWired' /\ RegisteredUntilCollected' /\ ReadyHasRuntime'
  BY <1>2 DEF CallsWired, RunningWired, RegisteredUntilCollected, ReadyHasRuntime, HostedBy
<1>6. AgedIsQuiet' /\ SweepIsQuiet' /\ DeletionIsQuiet'
  BY <1>2 DEF AgedIsQuiet, SweepIsQuiet, DeletionIsQuiet, InFlight, Sweeps
<1>7. ASSUME SerialRuntime PROVE SerialInv'
  <2>1. \A d \in Calls : calls[d].id # i
    BY <1>7, Unasked DEF SerialInv
  <2> QED
    BY <1>2, <2>1 DEF SerialInv, OneRequest, RequestsMatch, StatesMatch, NoForgottenProcess, Hosted, Watched, Alive, ActiveStates
<1> QED
  BY <1>2, <1>4, <1>5, <1>6, <1>7

-----------------------------------------------------------------------------
(* What the lifecycle does by itself leaves a pooled runtime READY.        *)
LEMMA LeftAlone ==
  ASSUME SerialRuntime, Polite, PoliteInv, LifecycleNext, NEW i \in Ids, EntriesOf(i) # {}
  PROVE  state'[i] = "READY" /\ InFlight(i)' = {}
<1>1. IInv /\ SerialInv /\ TypeOK /\ RequestsMatch
  BY DEF PoliteInv, IInv, SerialInv
<1>2. state[i] = "READY" /\ InFlight(i) = {}
  BY DEF PoliteInv, PooledOnce, PooledIsQuiet, EntriesOf
<1>3. \A c \in Calls : calls[c].id # i
  BY <1>1, <1>2, Unasked
<1> SUFFICES state'[i] = "READY" /\ \A c \in Calls : calls'[c].id # i
  BY DEF InFlight
<1> USE <1>1, <1>2, <1>3, NoneIsNone DEF TypeOK, Idle, Park, Return, SetState, Alone
<1>4. ASSUME NEW c \in Calls, NEW op \in {"create", "scenario"}, CreateBegin(c, op)
      PROVE  state'[i] = "READY" /\ \A d \in Calls : calls'[d].id # i
  BY <1>4 DEF CreateBegin
<1>5. ASSUME NEW c \in Calls, NEW j \in Ids, LaunchBegin(c, j, "launch")
      PROVE  state'[i] = "READY" /\ \A d \in Calls : calls'[d].id # i
  BY <1>5 DEF LaunchBegin
<1>6. ASSUME NEW c \in Calls, NEW j \in Ids, Alone(j), StopBegin(c, j) \/ ReleaseDiscarding(c, j)
      PROVE  state'[i] = "READY" /\ \A d \in Calls : calls'[d].id # i
  BY <1>6 DEF StopBegin, ReleaseDiscarding
<1>7. ASSUME NEW c \in Calls, Continue(c) PROVE state'[i] = "READY" /\ \A d \in Calls : calls'[d].id # i
  <2>1. CASE CreateEnd(c) \/ CreateFail(c) \/ JavaMissing(c)
    BY <2>1 DEF CreateEnd, CreateRuntimeImage, Register, CreateFail, JavaMissing
  <2>2. CASE Spawn(c) \/ SpawnFail(c) \/ MarkerRead(c) \/ MarkerGone(c)
    BY <2>2 DEF Spawn, SpawnFail, MarkerRead, MarkerGone
  <2>3. CASE GatePass(c) \/ GateFail(c) \/ StopEnd(c) \/ DiscardDone(c) \/ DiscardFail(c)
    BY <2>3 DEF GatePass, GateFail, StopEnd, DiscardDone, DiscardFail
  <2>4. CASE ScenarioEnd(c) \/ ScenarioEndStopped(c) \/ Dispose(c)
    BY <2>4 DEF ScenarioEnd, ScenarioEndStopped, Dispose
  <2> QED
    BY <1>7, <2>1, <2>2, <2>3, <2>4 DEF Continue
<1>8. ASSUME NEW j \in Ids, (Alone(j) /\ (StopNotRunning(j) \/ Release(j))) \/ Age(j)
      PROVE  state'[i] = "READY" /\ \A d \in Calls : calls'[d].id # i
  BY <1>8 DEF StopNotRunning, Release, Age
<1>9. ASSUME NEW p \in Procs, ProcUp(p) \/ ProcExit(p)
      PROVE  state'[i] = "READY" /\ \A d \in Calls : calls'[d].id # i
  BY <1>9 DEF ProcUp, ProcExit
<1>10. ASSUME Collect PROVE state'[i] = "READY" /\ \A d \in Calls : calls'[d].id # i
  BY <1>10, CollectEffect
<1> QED
  BY <1>4, <1>5, <1>6, <1>7, <1>8, <1>9, <1>10 DEF LifecycleNext

(* The lifecycle's steps in the pool are the lifecycle's.                  *)
LEMMA LifecycleIsNext == LifecycleNext => Next /\ UNCHANGED pool
BY DEF LifecycleNext, Next, Begin

Pooled == PooledOnce /\ PooledIsQuiet

(* The entries that the pool writes have their type.                       *)
LEMMA EntryTypes ==
  /\ Free \in EntryRecords
  /\ \A i \in Ids : [state |-> "ACQUIRED", id |-> i, reuse |-> 0] \in EntryRecords
BY PoolAssumption DEF Free, EntryRecords

(* A runtime comes into the pool that is READY, at rest and not in it.     *)
LEMMA Entered ==
  ASSUME PoliteInv, NEW i \in Ids, state[i] = "READY", EntriesOf(i) = {}, Enter(i),
         UNCHANGED state, InFlight(i)' = {}, \A j \in Ids \ {i} : InFlight(j) = {} => InFlight(j)' = {}
  PROVE  PoolTypeOK' /\ Pooled'
<1>1. PICK e \in Entries :
        pool[e].state = "FREE" /\ pool' = [pool EXCEPT ![e] = [state |-> "ACQUIRED", id |-> i, reuse |-> 0]]
  BY DEF Enter, Vacant
<1>2. PoolTypeOK'
  BY <1>1, EntryTypes DEF PoliteInv, PoolTypeOK
<1>3. /\ pool'[e].state = "ACQUIRED" /\ pool'[e].id = i
      /\ \A d \in Entries \ {e} : pool'[d] = pool[d]
      /\ \A d \in Entries : pool[d].state = "FREE" \/ pool[d].id # i
  BY <1>1 DEF PoliteInv, PoolTypeOK, EntriesOf
<1>4. PooledOnce'
  BY <1>3 DEF PoliteInv, PooledOnce
<1>5. ASSUME NEW j \in Ids, EntriesOf(j)' # {} PROVE InFlight(j)' = {}
  <2>1. CASE j # i
    BY <1>3, <1>5, <2>1 DEF EntriesOf, PoliteInv, PooledIsQuiet
  <2> QED
    BY <2>1
<1> QED
  BY <1>2, <1>4, <1>5 DEF Pooled, PooledIsQuiet

(* An entry leaves the pool: its runtime is stopped.                       *)
LEMMA Left ==
  ASSUME SerialRuntime, PoliteInv, NEW e \in Entries, pool[e].state # "FREE", Remove(e)
  PROVE  PoliteInv'
<1> DEFINE i == pool[e].id
<1>1. i \in Ids /\ state[i] = "READY" /\ e \in EntriesOf(i) /\ InFlight(i) = {}
  BY DEF PoliteInv, PooledOnce, PooledIsQuiet, EntriesOf
<1>2. /\ \E c \in Calls : calls[c] = Idle /\ Park(c, "stopping", "pool", i, running[i])
      /\ SetState(i, "STOPPING")
      /\ IInv' /\ SerialInv'
  BY <1>1, ReapStops DEF PoliteInv, Remove
<1>3. PoolTypeOK'
  BY EntryTypes DEF PoliteInv, PoolTypeOK, Remove
<1>4. /\ pool'[e].state = "FREE"
      /\ \A d \in Entries \ {e} : pool'[d] = pool[d] /\ (pool[d].state = "FREE" \/ pool[d].id # i)
      /\ \A j \in Ids \ {i} : state'[j] = state[j]
      /\ \A c \in Calls : calls'[c] = calls[c] \/ calls'[c].id = i
  BY <1>1, <1>2 DEF PoliteInv, PoolTypeOK, PooledOnce, IInv, TypeOK, Remove, Free, SetState, Park
<1>5. PooledOnce'
  BY <1>4 DEF PoliteInv, PooledOnce
<1>6. PooledIsQuiet'
  BY <1>4 DEF PoliteInv, PooledIsQuiet, EntriesOf, InFlight
<1> QED
  BY <1>2, <1>3, <1>5, <1>6 DEF PoliteInv

(* A step of the pool, or of the lifecycle beside it.                      *)
LEMMA PoliteStep ==
  ASSUME SerialRuntime, Polite, PoliteInv, [PoolNext]_poolVars
  PROVE  PoliteInv'
<1> USE DEF PoliteInv
<1>1. CASE LifecycleNext
  <2>1. Next /\ pool' = pool
    BY <1>1, LifecycleIsNext
  <2>2. IInv' /\ SerialInv'
    BY <2>1, LifecycleStep, SerialStep
  <2>3. \A i \in Ids : EntriesOf(i)' = EntriesOf(i)
    BY <2>1 DEF EntriesOf
  <2>4. \A i \in Ids : EntriesOf(i) # {} => state'[i] = "READY" /\ InFlight(i)' = {}
    BY <1>1, LeftAlone
  <2>5. PooledOnce'
    BY <2>1, <2>4 DEF PooledOnce, EntriesOf
  <2>6. PooledIsQuiet'
    BY <2>3, <2>4 DEF PooledIsQuiet
  <2> QED
    BY <2>1, <2>2, <2>5, <2>6 DEF PoolTypeOK
<1>2. ASSUME UNCHANGED vars, PoolTypeOK',
             \A e \in Entries : pool'[e].id = pool[e].id /\ (pool'[e].state = "FREE" <=> pool[e].state = "FREE")
      PROVE  PoliteInv'
  <2>1. IInv'
    BY <1>2, LifecycleStep
  <2>2. SerialInv'
    BY <1>2, SerialStep
  <2>3. PooledOnce'
    BY <1>2 DEF PooledOnce, vars
  <2>4. PooledIsQuiet'
    BY <1>2 DEF PooledIsQuiet, EntriesOf, InFlight, vars
  <2> QED
    BY <1>2, <2>1, <2>2, <2>3, <2>4
<1>3. ASSUME NEW i \in Ids, AcquireIdle(i) PROVE PoliteInv'
  <2>1. PICK e \in Entries : pool[e].state = "IDLE" /\ pool' = [pool EXCEPT ![e].state = "ACQUIRED"]
    BY <1>3 DEF AcquireIdle, IdleOf, EntriesOf
  <2>2. PoolTypeOK'
    BY <2>1 DEF PoolTypeOK, EntryRecords
  <2>3. \A d \in Entries : pool'[d].id = pool[d].id /\ (pool'[d].state = "FREE" <=> pool[d].state = "FREE")
    BY <2>1 DEF PoolTypeOK, EntryRecords
  <2> QED
    BY <1>2, <1>3, <2>2, <2>3 DEF AcquireIdle
<1>4. ASSUME NEW i \in Ids, AcquireRunning(i) PROVE PoliteInv'
  <2>1. /\ EntriesOf(i) = {} /\ InFlight(i) = {} /\ running[i] # None
        /\ Enter(i) /\ UNCHANGED vars
    BY <1>4 DEF AcquireRunning, MayAcquire, Held, Addressable
  <2>2. state[i] = "READY"
    <3>1. \A c \in Calls : calls[c].id # i
      BY <2>1, Unasked DEF IInv, SerialInv
    <3> QED
      BY <2>1, <3>1 DEF SerialInv, StatesMatch
  <2>3. \A j \in Ids : InFlight(j)' = InFlight(j)
    BY <2>1 DEF InFlight, vars
  <2>4. PoolTypeOK' /\ Pooled'
    BY <2>1, <2>2, <2>3, Entered DEF vars
  <2>5. IInv' /\ SerialInv'
    BY <2>1, LifecycleStep, SerialStep
  <2> QED
    BY <2>4, <2>5 DEF Pooled
<1>5. ASSUME NEW c \in Calls, NEW i \in Ids, AcquireLaunch(c, i) PROVE PoliteInv'
  <2>1. LaunchBegin(c, i, "pool") /\ pool' = pool
    BY <1>5 DEF AcquireLaunch
  <2>2. IInv' /\ SerialInv'
    BY <2>1, LaunchForPool
  <2>3. /\ state' = state /\ state[i] = "CREATED"
        /\ \A d \in Calls : calls'[d] = calls[d] \/ calls'[d].id = i
    BY <2>1 DEF LaunchBegin, Park, IInv, TypeOK
  <2>4. PooledOnce'
    BY <2>1, <2>3 DEF PooledOnce
  <2>5. PooledIsQuiet'
    BY <2>1, <2>3 DEF PooledOnce, PooledIsQuiet, EntriesOf, InFlight
  <2> QED
    BY <2>1, <2>2, <2>4, <2>5 DEF PoolTypeOK
<1>6. ASSUME NEW c \in Calls, AcquireLaunched(c) PROVE PoliteInv'
  <2>0. PICK i : i = calls[c].id
    OBVIOUS
  <2>1. /\ calls[c].pc = "launched" /\ Return(c)
        /\ UNCHANGED <<state, running, registered, files, aged, proc, host, sweep>>
    BY <1>6 DEF AcquireLaunched
  <2>2. IInv' /\ SerialInv'
    BY <2>1, LaunchedForPool
  <2>3. /\ i \in Ids /\ state[i] = "READY"
        /\ \A d \in Calls \ {c} : calls[d].id # i
    BY <2>0, <2>1, NoneIsNone DEF IInv, TypeOK, CallsWired, SerialInv, RequestsMatch, OneRequest
  <2>4. /\ calls'[c].pc = "idle" /\ \A d \in Calls \ {c} : calls'[d] = calls[d]
    BY <2>1 DEF Return, Idle, IInv, TypeOK
  <2>5. InFlight(i)' = {} /\ \A j \in Ids : InFlight(j) = {} => InFlight(j)' = {}
    BY <2>3, <2>4 DEF InFlight
  <2>6. EntriesOf(i) = {}
    BY <2>0, <2>1, <2>3 DEF PooledIsQuiet, InFlight
  <2>7. CASE pool' = pool
    <3>1. PooledOnce'
      BY <2>1, <2>7 DEF PooledOnce
    <3>2. PooledIsQuiet'
      BY <2>5, <2>7 DEF PooledIsQuiet, EntriesOf
    <3> QED
      BY <2>2, <2>7, <3>1, <3>2 DEF PoolTypeOK
  <2>8. CASE Enter(i)
    <3>1. PoolTypeOK' /\ Pooled'
      BY <2>1, <2>3, <2>5, <2>6, <2>8, Entered
    <3> QED
      BY <2>2, <3>1 DEF Pooled
  <2> QED
    BY <1>6, <2>0, <2>7, <2>8 DEF AcquireLaunched
<1>7. ASSUME NEW e \in Entries, ReleaseEntry(e) \/ Evict(e) \/ Expire(e) PROVE PoliteInv'
  <2>1. CASE pool[e].state # "FREE" /\ Remove(e)
    BY <2>1, Left
  <2>2. CASE /\ pool[e].state = "ACQUIRED" /\ ~ (pool[e].reuse + 1 >= MaxReuseCount)
             /\ pool' = [pool EXCEPT ![e].state = "IDLE", ![e].reuse = @ + 1]
             /\ UNCHANGED vars
    <3>1. PoolTypeOK'
      BY <2>2, PoolAssumption DEF PoolTypeOK, EntryRecords
    <3>2. \A d \in Entries : pool'[d].id = pool[d].id /\ (pool'[d].state = "FREE" <=> pool[d].state = "FREE")
      BY <2>2 DEF PoolTypeOK, EntryRecords
    <3> QED
      BY <1>2, <2>2, <3>1, <3>2
  <2> QED
    BY <1>7, <2>1, <2>2 DEF ReleaseEntry, Evict, Expire
<1>8. CASE UNCHANGED poolVars
  <2>1. UNCHANGED vars /\ pool' = pool
    BY <1>8 DEF poolVars
  <2> QED
    BY <1>2, <2>1 DEF PoolTypeOK
<1> QED
  BY <1>1, <1>3, <1>4, <1>5, <1>6, <1>7, <1>8 DEF PoolNext

(* Requests and runtimes agree at the start.                               *)
LEMMA InitInv == Init => IInv /\ SerialInv
<1>1. Init => IInv
  BY NoneIsNone, IdleIsCall DEF Init, IInv, TypeOK, States, CallsWired, RunningWired, HostedBy,
    RegisteredUntilCollected, ReadyHasRuntime, AgedIsQuiet, SweepIsQuiet, DeletionIsQuiet,
    InFlight, Idle, NoSweep
<1>2. Init => SerialInv
  BY NoneIsNone DEF Init, SerialInv, OneRequest, RequestsMatch, StatesMatch, NoForgottenProcess, Hosted,
    Alive, Idle, ActiveStates
<1> QED
  BY <1>1, <1>2

(* The pool, the lifecycle and the requests together are inductive.        *)
LEMMA PoliteIsInductive == SerialRuntime /\ Polite => (PoolSpec => []PoliteInv)
<1> SUFFICES ASSUME SerialRuntime, Polite PROVE PoolSpec => []PoliteInv
  OBVIOUS
<1>1. PoolInit => PoliteInv
  <2> SUFFICES ASSUME PoolInit PROVE PoliteInv
    OBVIOUS
  <2>1. IInv /\ SerialInv
    BY InitInv DEF PoolInit
  <2>2. PoolTypeOK /\ PooledOnce /\ PooledIsQuiet
    BY EntryTypes DEF PoolInit, PoolTypeOK, PooledOnce, PooledIsQuiet, EntriesOf, Free
  <2> QED
    BY <2>1, <2>2 DEF PoliteInv
<1>2. PoliteInv /\ [PoolNext]_poolVars => PoliteInv'
  BY PoliteStep
<1> QED
  BY <1>1, <1>2, PTL DEF PoolSpec

-----------------------------------------------------------------------------
(* The edges of the diagram that a step may take.                          *)
Moves == \A i \in Ids : state'[i] # state[i] => <<state[i], state'[i]>> \in Edges

(* Every step moves a runtime along documented transitions only.           *)
LEMMA MoveStep ==
  ASSUME SerialRuntime, IInv, SerialInv, [Next]_vars
  PROVE  Moves
<1>0. TypeOK /\ CallsWired /\ RequestsMatch /\ StatesMatch /\ marked \subseteq Ids
  BY DEF IInv, SerialInv, TypeOK
<1> USE <1>0, NoneIsNone DEF TypeOK, CallsWired, RequestsMatch, Moves, Edges, SetState
<1>1. ASSUME NEW c \in Calls, Begin(c) PROVE Moves
  BY <1>1 DEF Begin, CreateBegin, LaunchBegin, StopBegin, ReleaseDiscarding, StatesMatch
<1>2. ASSUME NEW c \in Calls, Continue(c) PROVE Moves
  <2>1. CASE CreateEnd(c) \/ CreateFail(c) \/ JavaMissing(c)
    BY <2>1 DEF CreateEnd, CreateRuntimeImage, Register, CreateFail, JavaMissing
  <2>2. CASE Spawn(c) \/ SpawnFail(c) \/ MarkerRead(c) \/ MarkerGone(c)
    BY <2>2 DEF Spawn, SpawnFail, MarkerRead, MarkerGone
  <2>3. CASE GatePass(c) \/ GateFail(c) \/ StopEnd(c) \/ DiscardDone(c) \/ DiscardFail(c)
    BY <2>3 DEF GatePass, GateFail, StopEnd, DiscardDone, DiscardFail
  <2>4. CASE ScenarioEnd(c) \/ ScenarioEndStopped(c) \/ Dispose(c)
    BY <2>4 DEF ScenarioEnd, ScenarioEndStopped, Dispose, HostedBy
  <2> QED
    BY <1>2, <2>1, <2>2, <2>3, <2>4 DEF Continue
<1>3. ASSUME NEW i \in Ids, StopNotRunning(i) PROVE Moves
  <2>1. \A c \in Calls : calls[c].id # i
    BY <1>3, Unasked DEF StopNotRunning, Addressable
  <2> QED
    BY <1>3, <2>1 DEF StopNotRunning, StatesMatch, IInv, ReadyHasRuntime
<1>4. ASSUME NEW i \in Ids, Release(i) \/ Age(i) PROVE Moves
  BY <1>4 DEF Release, Age
<1>5. ASSUME NEW p \in Procs, ProcUp(p) \/ ProcExit(p) PROVE Moves
  BY <1>5 DEF ProcUp, ProcExit
<1>6. ASSUME Collect PROVE Moves
  BY <1>6, CollectEffect
<1>7. ASSUME UNCHANGED vars PROVE Moves
  BY <1>7 DEF vars
<1> QED
  BY <1>1, <1>2, <1>3, <1>4, <1>5, <1>6, <1>7 DEF Next

(* What a step of the pool does to the runtimes is a step of the lifecycle *)
(* or stops the runtime of an entry.                                       *)
LEMMA PoolMoves ==
  ASSUME SerialRuntime, Polite, PoliteInv, [PoolNext]_poolVars
  PROVE  \/ [Next]_vars
         \/ \A i \in Ids : state'[i] # state[i] => state[i] = "READY" /\ state'[i] = "STOPPING"
<1> USE DEF PoliteInv
<1>1. ASSUME NEW c \in Calls, (\E i \in Ids : AcquireLaunch(c, i)) \/ AcquireLaunched(c)
      PROVE  state' = state
  BY <1>1 DEF AcquireLaunch, LaunchBegin, AcquireLaunched
<1>2. ASSUME NEW e \in Entries, pool[e].state # "FREE", Remove(e)
      PROVE  \A i \in Ids : state'[i] # state[i] => state[i] = "READY" /\ state'[i] = "STOPPING"
  <2>1. PICK i \in Ids : i = pool[e].id /\ state[i] = "READY" /\ InFlight(i) = {}
    BY <1>2 DEF PooledOnce, PooledIsQuiet, EntriesOf
  <2>2. SetState(i, "STOPPING")
    BY <1>2, <2>1, ReapStops DEF Remove
  <2> QED
    BY <2>1, <2>2 DEF SetState, IInv, TypeOK
<1> QED
  BY <1>1, <1>2, LifecycleIsNext DEF PoolNext, poolVars, AcquireIdle, AcquireRunning, ReleaseEntry, Evict, Expire

(* Nobody loses a process, and no two processes share a directory.         *)
LEMMA Held1 == IInv /\ SerialInv => ProcessesAreHeld
<1> SUFFICES ASSUME IInv, SerialInv PROVE ProcessesAreHeld
  OBVIOUS
<1> USE DEF IInv, SerialInv
<1>1. NoForgottenProcess
  OBVIOUS
<1>2. ASSUME NEW p \in Procs, Alive(p)
      PROVE  /\ host[p] \in Ids /\ state[host[p]] \in {"STARTING", "READY", "STOPPING"}
             /\ \/ \E c \in Calls : calls[c].pc \in {"reading", "gating"} /\ calls[c].proc = p /\ calls[c].id = host[p]
                \/ running[host[p]] = p /\ state[host[p]] # "STARTING"
  BY <1>2 DEF NoForgottenProcess, Watched, Hosted, RequestsMatch, CallsWired, HostedBy
<1>3. ASSUME NEW p \in Procs, Alive(p) PROVE host[p] \in dir
  BY <1>2, <1>3 DEF StatesMatch, ActiveStates, TypeOK
<1>4. ASSUME NEW p \in Procs, NEW q \in Procs, Alive(p), Alive(q), host[p] = host[q] PROVE p = q
  BY <1>2, <1>4, NoneIsNone DEF OneRequest, RequestsMatch
<1> QED
  BY <1>1, <1>3, <1>4 DEF ProcessesAreHeld, OneProcessPerRoot

(* Requests and runtimes agree in every run of serial clients.             *)
LEMMA SerialIsInductive == SerialRuntime => (Spec => [](IInv /\ SerialInv))
<1> SUFFICES ASSUME SerialRuntime PROVE Spec => [](IInv /\ SerialInv)
  OBVIOUS
<1>1. IInv /\ SerialInv /\ [Next]_vars => (IInv /\ SerialInv)'
  BY LifecycleStep, SerialStep
<1> QED
  BY <1>1, InitInv, PTL DEF Spec

(* With clients that wait for one answer per runtime, and no pool: every   *)
(* live Paper is waited for or pointed to, and is alone in its directory.  *)
THEOREM SerialClientsHoldProcesses == SerialRuntime => (Spec => []ProcessesAreHeld)
BY SerialIsInductive, Held1, PTL

(* The same under the pool.                                                *)
THEOREM PoolHoldsProcesses == SerialRuntime /\ Polite => (PoolSpec => []ProcessesAreHeld)
<1>1. PoliteInv => ProcessesAreHeld
  BY Held1 DEF PoliteInv
<1> QED
  BY <1>1, PoliteIsInductive, PTL

(* A runtime in the pool is READY, has a process and is there once.        *)
THEOREM PooledRuntimesAreReady == SerialRuntime /\ Polite => (PoolSpec => []PooledIsReady)
<1>1. PoliteInv => PooledIsReady
  <2> SUFFICES ASSUME PoliteInv, NEW i \in Ids, EntriesOf(i) # {}
               PROVE  state[i] = "READY" /\ running[i] # None /\ Cardinality(EntriesOf(i)) = 1
    BY DEF PooledIsReady
  <2>1. PICK e \in Entries : e \in EntriesOf(i)
    BY DEF EntriesOf
  <2>2. EntriesOf(i) = {e}
    BY <2>1 DEF PoliteInv, PooledOnce, EntriesOf
  <2>3. state[i] = "READY"
    BY <2>1 DEF PoliteInv, PooledOnce, EntriesOf
  <2>4. running[i] # None
    BY <2>3 DEF PoliteInv, IInv, ReadyHasRuntime
  <2> QED
    BY <2>2, <2>3, <2>4, FS_Singleton
<1> QED
  BY <1>1, PoliteIsInductive, PTL

(* Runtimes go along the edges of the documented diagram only.             *)
THEOREM MovesAreDocumented == SerialRuntime /\ Polite => (PoolSpec => DocumentedTransitions)
<1> SUFFICES ASSUME SerialRuntime, Polite PROVE PoolSpec => DocumentedTransitions
  OBVIOUS
<1>1. PoliteInv /\ [PoolNext]_poolVars => [Moves]_vars
  <2> SUFFICES ASSUME PoliteInv, [PoolNext]_poolVars PROVE Moves
    OBVIOUS
  <2>1. CASE [Next]_vars
    BY <2>1, MoveStep DEF PoliteInv
  <2>2. CASE \A i \in Ids : state'[i] # state[i] => state[i] = "READY" /\ state'[i] = "STOPPING"
    BY <2>2 DEF Moves, Edges
  <2> QED
    BY <2>1, <2>2, PoolMoves
<1> QED
  BY <1>1, PoliteIsInductive, PTL DEF PoolSpec, DocumentedTransitions, Moves

-----------------------------------------------------------------------------
(* The quota.  What counts is not what is active but what is occupied: a   *)
(* request that works on a runtime may make it active again.               *)
Active == {i \in registered : state[i] \in ActiveStates}
Working == {c \in Calls : calls[c].pc \notin {"idle", "creating"}}
Worked == {calls[c].id : c \in Working}
Occupied == {i \in Ids : state[i] \in ActiveStates \/ i \in Worked}
QuotaInv ==
  Cardinality(Occupied) + Cardinality(Creating) <= MaxConcurrent + Cardinality(Calls) - 1

(* What counts is finite, and requests that create are not those that work.*)
LEMMA Counts ==
  /\ IsFiniteSet(Calls) /\ Cardinality(Calls) \in Nat \ {0}
  /\ IsFiniteSet(Occupied) /\ Cardinality(Occupied) \in Nat
  /\ IsFiniteSet(Creating) /\ Cardinality(Creating) \in Nat
  /\ IsFiniteSet(Working) /\ Cardinality(Working) \in Nat
<1>1. IsFiniteSet(Ids)
  BY FS_Interval, LifecycleAssumption DEF Ids
<1>2. IsFiniteSet(Occupied)
  BY <1>1, FS_Subset DEF Occupied
<1>3. IsFiniteSet(Calls)
  BY LifecycleAssumption
<1>4. IsFiniteSet(Creating) /\ IsFiniteSet(Working)
  BY <1>3, FS_Subset DEF Creating, Working
<1>5. Cardinality(Calls) # 0
  BY <1>3, FS_EmptySet, LifecycleAssumption
<1> QED
  BY <1>2, <1>3, <1>4, <1>5, FS_CardinalityType

(* No more runtimes are worked on than requests work.                      *)
LEMMA OneEach == IsFiniteSet(Worked) /\ Cardinality(Worked) <= Cardinality(Working)
<1> DEFINE f == [c \in Working |-> calls[c].id]
<1>1. f \in Surjection(Working, Worked)
  BY DEF Worked, Surjection
<1> QED
  BY <1>1, Counts, FS_Surjection

(* Steps that occupy no further runtime.                                   *)
NoneCreated == Occupied' \subseteq Occupied /\ Creating' \subseteq Creating

(* An entry is occupied from the end of its creation on only while it is   *)
(* active or worked on.                                                    *)
LEMMA WhoCreates ==
  ASSUME IInv, [Next]_vars
  PROVE  \/ NoneCreated
         \/ \E c \in Calls, op \in {"create", "scenario"} : CreateBegin(c, op)
         \/ \E c \in Calls : CreateEnd(c)
<1> USE NoneIsNone DEF IInv, TypeOK, CallsWired, NoneCreated, Occupied, Worked, Working, Creating, Idle,
      Park, Return, SetState, ActiveStates
<1>1. ASSUME NEW c \in Calls, Begin(c), ~ \E op \in {"create", "scenario"} : CreateBegin(c, op) PROVE NoneCreated
  <2>1. CASE \E i \in Ids : LaunchBegin(c, i, "launch")
    BY <2>1 DEF LaunchBegin
  <2>2. CASE \E i \in Ids : StopBegin(c, i)
    BY <2>2 DEF StopBegin
  <2>3. CASE \E i \in Ids : ReleaseDiscarding(c, i)
    BY <2>3 DEF ReleaseDiscarding
  <2> QED
    BY <1>1, <2>1, <2>2, <2>3 DEF Begin
<1>2. ASSUME NEW c \in Calls, Continue(c), ~ CreateEnd(c) PROVE NoneCreated
  <2>1. CASE CreateFail(c) \/ JavaMissing(c)
    BY <2>1 DEF CreateFail, JavaMissing
  <2>2. CASE Spawn(c) \/ SpawnFail(c)
    BY <2>2 DEF Spawn, SpawnFail
  <2>3. CASE MarkerRead(c) \/ MarkerGone(c)
    BY <2>3 DEF MarkerRead, MarkerGone
  <2>4. CASE GatePass(c) \/ GateFail(c)
    BY <2>4 DEF GatePass, GateFail
  <2>5. CASE StopEnd(c) \/ DiscardDone(c) \/ DiscardFail(c)
    BY <2>5 DEF StopEnd, DiscardDone, DiscardFail
  <2>6. CASE ScenarioEnd(c) \/ ScenarioEndStopped(c)
    BY <2>6 DEF ScenarioEnd, ScenarioEndStopped
  <2>7. CASE Dispose(c)
    BY <2>7 DEF Dispose
  <2> QED
    BY <1>2, <2>1, <2>2, <2>3, <2>4, <2>5, <2>6, <2>7 DEF Continue
<1>3. ASSUME NEW i \in Ids, StopNotRunning(i) \/ Release(i) \/ Age(i) PROVE NoneCreated
  BY <1>3 DEF StopNotRunning, Release, Age
<1>4. ASSUME NEW p \in Procs, ProcUp(p) \/ ProcExit(p) PROVE NoneCreated
  BY <1>4 DEF ProcUp, ProcExit
<1>5. ASSUME Collect PROVE NoneCreated
  <2>1. calls' = calls
    BY <1>5 DEF Collect, SweepBegin, RmDone, RmFail
  <2>2. \A i \in Ids : state'[i] \in ActiveStates => state[i] \in ActiveStates
    BY <1>5, CollectEffect
  <2> QED
    BY <2>1, <2>2
<1>6. ASSUME UNCHANGED vars PROVE NoneCreated
  BY <1>6 DEF vars
<1> QED
  BY <1>1, <1>2, <1>3, <1>4, <1>5, <1>6 DEF Next

(* Steps that create nothing can only free quota.                          *)
LEMMA QuotaShrinks == ASSUME QuotaInv, NoneCreated PROVE QuotaInv'
<1>1. /\ Cardinality(Occupied') <= Cardinality(Occupied) /\ Cardinality(Occupied') \in Nat
      /\ Cardinality(Creating') <= Cardinality(Creating) /\ Cardinality(Creating') \in Nat
  BY Counts, FS_Subset, FS_CardinalityType DEF NoneCreated
<1> QED
  BY <1>1, Counts, LifecycleAssumption DEF QuotaInv

(* Every step keeps the quota.  A request that passes the check finds less *)
(* than the quota active; whatever else is occupied, or being prepared, has*)
(* one of the other requests to itself.                                    *)
LEMMA QuotaStep == ASSUME IInv, QuotaInv, [Next]_vars PROVE QuotaInv'
<1>0. TypeOK /\ RegisteredUntilCollected
  BY DEF IInv
<1>1. CASE NoneCreated
  BY <1>1, QuotaShrinks
<1>2. ASSUME NEW c \in Calls, NEW op \in {"create", "scenario"}, CreateBegin(c, op) PROVE QuotaInv'
  <2>1. /\ calls[c].pc = "idle" /\ Cardinality(Active) + 1 <= MaxConcurrent
        /\ IsFiniteSet(Active) /\ Cardinality(Active) \in Nat
    <3>1. IsFiniteSet(Active) /\ Cardinality(Active) \in Nat
      BY <1>0, Counts, FS_Subset, FS_CardinalityType DEF Active, Occupied, TypeOK
    <3> QED
      BY <1>2, <3>1, LifecycleAssumption DEF CreateBegin, ActiveCount, Active, Idle
  <2>2. Occupied \subseteq Active \cup Worked /\ Occupied' = Occupied
    BY <1>0, <1>2, <2>1 DEF Occupied, Active, Worked, Working, RegisteredUntilCollected, ActiveStates,
      CreateBegin, Park, TypeOK
  <2>3. Cardinality(Occupied') <= Cardinality(Active) + Cardinality(Working)
    <3>1. /\ IsFiniteSet(Active \cup Worked)
          /\ Cardinality(Active \cup Worked) <= Cardinality(Active) + Cardinality(Worked)
      <4>1. Cardinality(Active \cap Worked) \in Nat /\ Cardinality(Worked) \in Nat
        BY <2>1, OneEach, FS_Intersection, FS_CardinalityType
      <4> QED
        BY <2>1, <4>1, OneEach, FS_Union
    <3>2. Cardinality(Occupied) <= Cardinality(Active \cup Worked)
      BY <2>2, <3>1, FS_Subset
    <3> QED
      BY <2>1, <2>2, <3>1, <3>2, OneEach, Counts, FS_CardinalityType
  <2>4. Cardinality(Working) + Cardinality(Creating') <= Cardinality(Calls)
    <3>1. Creating' = Creating \cup {c} /\ Creating' \cap Working = {} /\ Creating' \cup Working \subseteq Calls
      BY <1>0, <1>2, <2>1 DEF CreateBegin, Park, Creating, Working, TypeOK
    <3>2. IsFiniteSet(Creating') /\ Cardinality(Creating') \in Nat
      BY <3>1, Counts, FS_Subset, FS_CardinalityType
    <3>3. Cardinality(Creating' \cup Working) = Cardinality(Creating') + Cardinality(Working)
      <4>1. Cardinality(Creating' \cup Working)
              = Cardinality(Creating') + Cardinality(Working) - Cardinality(Creating' \cap Working)
        BY <3>2, Counts, FS_Union
      <4>2. Cardinality(Creating' \cap Working) = 0
        BY <3>1, FS_EmptySet
      <4> QED
        BY <3>2, <4>1, <4>2, Counts
    <3> QED
      BY <3>1, <3>2, <3>3, Counts, FS_Subset
  <2>5. Cardinality(Occupied') \in Nat /\ Cardinality(Creating') \in Nat
    BY <1>0, <1>2, <2>2, Counts, FS_Subset, FS_CardinalityType DEF CreateBegin, Creating, Park, TypeOK
  <2> QED
    BY <2>1, <2>3, <2>4, <2>5, Counts, LifecycleAssumption DEF QuotaInv
<1>3. ASSUME NEW c \in Calls, CreateEnd(c) PROVE QuotaInv'
  <2>1. c \in Creating /\ Creating' = Creating \ {c}
    BY <1>0, <1>3 DEF CreateEnd, CreateRuntimeImage, Register, Park, Return, Idle, Creating, TypeOK
  <2>2. PICK i \in Ids : Occupied' \subseteq Occupied \cup {i}
    BY <1>0, <1>3, NoneIsNone DEF CreateEnd, CreateRuntimeImage, Register, SetState, Park, Return, Idle,
      Occupied, Worked, Working, TypeOK
  <2>3. Cardinality(Creating') = Cardinality(Creating) - 1
    BY <2>1, Counts, FS_RemoveElement
  <2>4. Cardinality(Occupied') <= Cardinality(Occupied) + 1 /\ Cardinality(Occupied') \in Nat
    <3>1. /\ IsFiniteSet(Occupied \cup {i})
          /\ Cardinality(Occupied \cup {i}) <= Cardinality(Occupied) + 1
      <4>1. /\ IsFiniteSet(Occupied \cup {i})
            /\ Cardinality(Occupied \cup {i})
                 = IF i \in Occupied THEN Cardinality(Occupied) ELSE Cardinality(Occupied) + 1
        BY Counts, FS_AddElement
      <4> QED
        BY <4>1, Counts
    <3>2. IsFiniteSet(Occupied') /\ Cardinality(Occupied') <= Cardinality(Occupied \cup {i})
      BY <2>2, <3>1, FS_Subset
    <3> QED
      BY <3>1, <3>2, Counts, FS_CardinalityType
  <2> QED
    BY <2>3, <2>4, Counts, LifecycleAssumption DEF QuotaInv
<1> QED
  BY <1>1, <1>2, <1>3, WhoCreates

(* The quota at the start.                                                 *)
LEMMA QuotaInit == Init => QuotaInv
<1> SUFFICES ASSUME Init PROVE QuotaInv
  OBVIOUS
<1>1. Creating = {} /\ Occupied = {}
  BY DEF Init, Creating, Occupied, Worked, Working, Idle, ActiveStates
<1> QED
  BY <1>1, FS_EmptySet, Counts, LifecycleAssumption DEF QuotaInv

(* What is active is occupied.                                             *)
LEMMA QuotaOfActive == IInv /\ QuotaInv => QuotaHolds
<1> SUFFICES ASSUME IInv, QuotaInv PROVE QuotaHolds
  OBVIOUS
<1>1. ActiveCount <= Cardinality(Occupied) /\ ActiveCount \in Nat
  BY Counts, FS_Subset, FS_CardinalityType DEF ActiveCount, Occupied, IInv, TypeOK
<1> QED
  BY <1>1, Counts, LifecycleAssumption DEF QuotaInv, QuotaHolds

(* Whatever the clients do, the quota is exceeded by no more than the      *)
(* requests that may be in flight beside the one that passes the check.    *)
THEOREM QuotaIsKept == Spec => []QuotaHolds
<1>1. IInv /\ QuotaInv /\ [Next]_vars => (IInv /\ QuotaInv)'
  BY LifecycleStep, QuotaStep
<1> QED
  BY <1>1, QuotaOfActive, InitInv, QuotaInit, PTL DEF Spec

(* What the pool does to a runtime whose entry it removes, in whatever     *)
(* state it finds it.                                                      *)
LEMMA ReapKeeps ==
  ASSUME IInv, NEW i, Reap(i), UNCHANGED <<running, registered, files, proc, host, sweep>>
  PROVE  IInv' /\ NoneCreated
<1> USE NoneIsNone DEF IInv, TypeOK, Idle, Park, SetState, files
<1>1. ASSUME i \in registered, state[i] \in {"READY", "STARTING"}, running[i] # None, SetState(i, "STOPPING"),
             NEW c \in Calls, calls[c] = Idle, Park(c, "stopping", "pool", i, running[i])
      PROVE  IInv' /\ NoneCreated
  <2> USE <1>1
  <2>1. TypeOK'
    BY DEF CallRecords, States, ActiveStates
  <2>2. CallsWired' /\ RunningWired' /\ RegisteredUntilCollected' /\ ReadyHasRuntime'
    BY DEF CallsWired, RunningWired, RegisteredUntilCollected, ReadyHasRuntime, HostedBy
  <2>3. AgedIsQuiet' /\ SweepIsQuiet' /\ DeletionIsQuiet'
    BY DEF AgedIsQuiet, SweepIsQuiet, DeletionIsQuiet, InFlight, Sweeps
  <2>4. NoneCreated
    BY DEF NoneCreated, Occupied, Worked, Working, Creating, ActiveStates
  <2> QED
    BY <2>1, <2>2, <2>3, <2>4
<1>2. ASSUME i \in registered, state[i] \in ActiveStates, SetState(i, "RELEASED"), UNCHANGED calls
      PROVE  IInv' /\ NoneCreated
  <2> USE <1>2
  <2>1. TypeOK'
    BY DEF States, ReleasedStates
  <2>2. CallsWired' /\ RunningWired' /\ RegisteredUntilCollected' /\ ReadyHasRuntime'
    BY DEF CallsWired, RunningWired, RegisteredUntilCollected, ReadyHasRuntime, HostedBy
  <2>3. AgedIsQuiet' /\ SweepIsQuiet' /\ DeletionIsQuiet'
    BY DEF AgedIsQuiet, SweepIsQuiet, DeletionIsQuiet, InFlight, Sweeps, ActiveStates
  <2>4. NoneCreated
    BY DEF NoneCreated, Occupied, Worked, Working, Creating, ActiveStates
  <2> QED
    BY <2>1, <2>2, <2>3, <2>4
<1>3. ASSUME UNCHANGED <<state, aged, calls>> PROVE IInv' /\ NoneCreated
  <2>1. UNCHANGED vars
    BY <1>3 DEF vars
  <2>2. IInv'
    BY <2>1, LifecycleStep
  <2> QED
    BY <1>3, <2>2 DEF NoneCreated, Occupied, Worked, Working, Creating
<1> QED
  BY <1>1, <1>2, <1>3 DEF Reap, ActiveStates

(* A step of the pool keeps the lifecycle's invariant and the quota,       *)
(* whether its clients are polite or not.                                  *)
LEMMA PoolStep ==
  ASSUME IInv, QuotaInv, [PoolNext]_poolVars
  PROVE  IInv' /\ QuotaInv'
<1>1. CASE [Next]_vars
  BY <1>1, LifecycleStep, QuotaStep
<1>2. ASSUME NEW c \in Calls, NEW i \in Ids, AcquireLaunch(c, i) PROVE IInv' /\ NoneCreated
  <2>1. IInv'
    BY <1>2, LaunchForPool DEF AcquireLaunch
  <2>2. NoneCreated
    BY <1>2 DEF AcquireLaunch, LaunchBegin, Park, Idle, NoneCreated, Occupied, Worked, Working, Creating,
      ActiveStates, IInv, TypeOK
  <2> QED
    BY <2>1, <2>2
<1>3. ASSUME NEW c \in Calls, AcquireLaunched(c) PROVE IInv' /\ NoneCreated
  <2>1. IInv'
    BY <1>3, LaunchedForPool DEF AcquireLaunched
  <2>2. NoneCreated
    BY <1>3 DEF AcquireLaunched, Return, Idle, NoneCreated, Occupied, Worked, Working, Creating, IInv, TypeOK
  <2> QED
    BY <2>1, <2>2
<1>4. ASSUME NEW e \in Entries, Remove(e) PROVE IInv' /\ NoneCreated
  BY <1>4, ReapKeeps DEF Remove
<1>5. CASE IInv' /\ NoneCreated
  BY <1>5, QuotaShrinks
<1> QED
  BY <1>1, <1>2, <1>3, <1>4, <1>5, LifecycleIsNext DEF PoolNext, poolVars, AcquireIdle, AcquireRunning,
    ReleaseEntry, Evict, Expire

(* The same under the pool, whatever its clients do.                       *)
THEOREM PoolKeepsQuota == PoolSpec => []QuotaHolds
<1>1. IInv /\ QuotaInv /\ [PoolNext]_poolVars => (IInv /\ QuotaInv)'
  BY PoolStep
<1>2. PoolInit => IInv /\ QuotaInv
  BY InitInv, QuotaInit DEF PoolInit
<1> QED
  BY <1>1, <1>2, QuotaOfActive, PTL DEF PoolSpec
=============================================================================
