---------------------------- MODULE BuildRunProofs ----------------------------
(* Theorems about BuildRun, for any project, any number of builds, versions *)
(* and edits.                                                               *)
EXTENDS BuildRun, TLAPS

(* What is told apart of a project: its wrapper and its sources.           *)
LEMMA TheFiles == Files = {"wrapper", "source"}
BY DEF Files, Walk

(* The types of the constants of a build.                                  *)
LEMMA Basics ==
  /\ Nothing \in Contents /\ NoJars \in Jars /\ Fresh \in Calls
  /\ \A f \in Files, v \in Versions : v \in 0..MaxVersion
BY BuildAssumption DEF Nothing, Contents, NoJars, Jars, Fresh, Calls, Places, Backends, Modes, Networks, JarNames,
  Results, Versions


(* Each step of a build, as what it makes of the build's record.           *)
LEMMA EndedIsCall == \A r \in Calls : \A result : Ended(r, result) \in Calls
<1> SUFFICES ASSUME NEW r \in Calls, NEW result PROVE Ended(r, result) \in Calls
  OBVIOUS
<1>1. CASE result = "completed"
  BY <1>1 DEF Ended, Calls, Places, Results
<1>2. CASE result # "completed"
  BY <1>2, Basics DEF Ended, Calls, Places, Results
<1> QED
  BY <1>1, <1>2

(* Every step keeps the types.                                             *)
LEMMA TypeStep == TypeOK /\ [Next]_vars => TypeOK'
<1> SUFFICES ASSUME TypeOK, [Next]_vars PROVE TypeOK'
  OBVIOUS
<1>0. build \in [Builds -> Calls] /\ \A b \in Builds : build[b] \in Calls
  BY DEF TypeOK
<1> DEFINE BuildOK == build' \in [Builds -> Calls]
<1>b. ASSUME NEW b \in Builds, NEW r \in Calls, Update(b, r) PROVE BuildOK
  BY <1>0, <1>b DEF Update
<1>e. ASSUME NEW b \in Builds, NEW result, End(b, result) PROVE BuildOK
  BY <1>0, <1>b, <1>e, EndedIsCall DEF End
<1>g. ASSUME NEW b \in Builds, NEW place \in Places, Go(b, place) PROVE BuildOK
  <2>1. [build[b] EXCEPT !.at = place] \in Calls
    BY <1>0 DEF Calls
  <2> QED
    BY <1>b, <1>g, <2>1 DEF Go
<1>t. ASSUME BuildOK, UNCHANGED <<file, edits, allowed, libs, store, restored>>, work' \subseteq Builds, out' \in [Builds -> Jars],
             shared' \subseteq Builds PROVE TypeOK'
  BY <1>t DEF TypeOK
<1>u. ASSUME BuildOK, UNCHANGED <<file, edits, allowed, libs, out, work, store, shared, restored>> PROVE TypeOK'
  BY <1>u DEF TypeOK
<1>p. \A x \in {"snapshot", "validating", "starting", "running", "collecting", "cleaning",
           "rechecking", "rechecking_on", "selecting", "persisting", "answered"} : x \in Places
  BY DEF Places
<1>v. /\ out \in [Builds -> Jars] /\ work \subseteq Builds /\ shared \subseteq Builds
      /\ file \in [Files -> Versions] /\ \A f \in Files : file[f] \in 0..MaxVersion
      /\ libs \in Jars /\ store \in [Builds -> Contents]
      /\ restored \subseteq Builds \X Files /\ \A f \in Files : Walked(f, file[f]) \in 0..MaxVersion
  BY Basics, BuildAssumption DEF TypeOK, Walked
<1> HIDE DEF BuildOK
<1>c. ASSUME NEW f \in Files, Edit(f) PROVE TypeOK'
  <2>1. PICK version \in Edited[f] :
          /\ file' = [file EXCEPT ![f] = version] /\ edits < MaxEdits /\ edits' = edits + 1
          /\ UNCHANGED <<allowed, libs, out, build, work, store, shared>>
    BY <1>c DEF Edit
  <2>2. version \in Versions
    BY BuildAssumption
  <2>3. restored' \subseteq Builds \X Files
    BY <1>c, <1>v DEF Edit
  <2> QED
    BY <2>1, <2>2, <2>3, BuildAssumption DEF TypeOK
<1>d. ASSUME NEW b \in Builds, Request(b) PROVE TypeOK'
  <2>1. \A backend \in Backends, mode \in Requested, network \in Networks :
          [build[b] EXCEPT !.backend = backend, !.mode = mode, !.network = network, !.at = "snapshot"] \in Calls
    <3>1. Requested \subseteq Modes
      BY BuildAssumption
    <3> QED
      BY <1>0, <1>p, <3>1 DEF Calls
  <2>2. BuildOK
    BY <1>b, <1>d, <1>e, <2>1 DEF Request
  <2> QED
    BY <1>d, <1>u, <2>2 DEF Request, Project
<1>f. ASSUME NEW b \in Builds, CollectEntry(b) PROVE TypeOK'
  <2>1. PICK f : f = NextFile(build[b].snap)
    OBVIOUS
  <2>2. [build[b].snap EXCEPT ![f] = Walked(f, file[f])] \in Contents
    BY <1>0, <1>v DEF Calls, Contents
  <2>3. PICK place : place = IF ReadSoFar(build[b].snap) \cup {f} = Files THEN "validating" ELSE build[b].at
    OBVIOUS
  <2>4. place \in Places
    BY <1>0, <1>p, <2>3 DEF Calls
  <2>5. [build[b] EXCEPT !.snap = [build[b].snap EXCEPT ![f] = Walked(f, file[f])], !.at = place] \in Calls
    BY <1>0, <2>2, <2>4 DEF Calls
  <2>6. \/ Update(b, [build[b] EXCEPT !.snap = [build[b].snap EXCEPT ![f] = Walked(f, file[f])], !.at = place])
        \/ End(b, "thrown")
    BY <1>f, <2>1, <2>3 DEF CollectEntry
  <2>7. BuildOK
    BY <1>b, <1>e, <2>5, <2>6
  <2> QED
    BY <1>f, <1>u, <2>7 DEF CollectEntry, Project
<1>h. ASSUME NEW b \in Builds, Validate(b) PROVE TypeOK'
  <2>1. [build[b] EXCEPT !.at = "starting", !.approved = file["wrapper"]] \in Calls
    BY <1>0, <1>p, <1>v, TheFiles DEF Calls
  <2>2. BuildOK
    BY <1>b, <1>e, <1>h, <2>1 DEF Validate
  <2> QED
    BY <1>h, <1>t, <1>v, <2>2 DEF Validate, Project
<1>i. ASSUME NEW b \in Builds, RunLocal(b) PROVE TypeOK'
  <2>1. /\ [build[b] EXCEPT !.at = "cleaning", !.result = "thrown"] \in Calls
        /\ [build[b] EXCEPT !.at = "running", !.process = "running"] \in Calls
    BY <1>0, <1>p DEF Calls, Results
  <2>2. BuildOK
    BY <1>b, <1>i, <2>1 DEF RunLocal
  <2> QED
    BY <1>i, <1>t, <1>v, <2>2 DEF RunLocal, Project
<1>j. ASSUME NEW b \in Builds, RunContainer(b) PROVE TypeOK'
  <2>1. [build[b] EXCEPT !.at = "running", !.process = "running"] \in Calls
    BY <1>0, <1>p DEF Calls
  <2>2. BuildOK
    BY <1>b, <1>j, <2>1 DEF RunContainer
  <2> QED
    BY <1>j, <1>t, <1>v, <2>2 DEF RunContainer, Project
<1>k. ASSUME NEW b \in Builds, Compile(b) PROVE TypeOK'
  <2>1. PICK f : f = NextFile(build[b].compiled)
    OBVIOUS
  <2>2. [build[b].compiled EXCEPT ![f] = file[f]] \in Contents
    BY <1>0, <1>v DEF Calls, Contents
  <2>3. [build[b] EXCEPT !.compiled = [build[b].compiled EXCEPT ![f] = file[f]]] \in Calls
    BY <1>0, <2>2 DEF Calls
  <2>4. BuildOK
    BY <1>b, <1>k, <2>1, <2>3 DEF Compile
  <2>5. Cleaned(b, libs) \in Jars /\ Cleaned(b, out[b]) \in Jars
    BY <1>v, Basics DEF Cleaned
  <2> QED
    BY <1>k, <1>v, <2>4, <2>5 DEF Compile, Project, TypeOK, BuildOK
<1>l. ASSUME NEW b \in Builds, Succeed(b) PROVE TypeOK'
  <2>1. [build[b] EXCEPT !.process = "exited"] \in Calls
    BY <1>0 DEF Calls
  <2>2. BuildOK
    BY <1>b, <1>l, <2>1 DEF Succeed
  <2>3. build[b].compiled \in Contents
    BY <1>0 DEF Calls
  <2>4. \A jars \in Jars : Written(b, jars) \in Jars
    BY <2>3 DEF Written, Jars
  <2> QED
    BY <1>l, <1>v, <2>2, <2>4 DEF Succeed, Project, TypeOK, BuildOK
<1>m. ASSUME NEW b \in Builds, Fail(b) \/ TimedOut(b) PROVE TypeOK'
  <2>1. /\ [build[b] EXCEPT !.process = "exited", !.exit = 1, !.compiled = Nothing] \in Calls
        /\ \A exit \in {0, 1}, compiled \in Contents, process \in {"none", "running", "exited", "unremoved"} :
             [build[b] EXCEPT !.timedOut = TRUE, !.exit = exit, !.compiled = compiled, !.process = process] \in Calls
    BY <1>0, Basics DEF Calls
  <2>2. CASE Fail(b)
    BY <1>b, <1>u, <2>1, <2>2 DEF Fail, Project
  <2>3. CASE TimedOut(b)
    <3>1. PICK killed \in BOOLEAN : killed = (build[b].process = "running")
      OBVIOUS
    <3>2. /\ (IF killed THEN 1 ELSE build[b].exit) \in {0, 1}
          /\ (IF killed /\ Local(b) THEN Nothing ELSE build[b].compiled) \in Contents
          /\ (IF killed /\ Local(b) THEN "exited" ELSE build[b].process) \in {"none", "running", "exited", "unremoved"}
      BY <1>0, Basics DEF Calls
    <3>3. Update(b, [build[b] EXCEPT !.timedOut = TRUE,
                       !.exit = IF killed THEN 1 ELSE build[b].exit,
                       !.compiled = IF killed /\ Local(b) THEN Nothing ELSE build[b].compiled,
                       !.process = IF killed /\ Local(b) THEN "exited" ELSE build[b].process])
      BY <2>3, <3>1 DEF TimedOut
    <3>4. BuildOK
      BY <1>b, <2>1, <3>2, <3>3
    <3> QED
      BY <1>u, <2>3, <3>4 DEF TimedOut, Project
  <2> QED
    BY <1>m, <2>2, <2>3
<1>n. ASSUME NEW b \in Builds, ExitLocal(b) \/ ExitContainer(b) PROVE TypeOK'
  <2>1. \A end \in {"none", "running", "exited", "unremoved"} :
          [build[b] EXCEPT !.at = "collecting", !.process = end] \in Calls
    BY <1>0, <1>p DEF Calls
  <2>2. build[b].process \in {"none", "running", "exited", "unremoved"}
    BY <1>0 DEF Calls
  <2>3. BuildOK
    BY <1>b, <1>g, <1>n, <1>p, <2>1, <2>2 DEF ExitLocal, ExitContainer, Removed
  <2> QED
    BY <1>n, <1>u, <2>3 DEF ExitLocal, ExitContainer, Project
<1>o. ASSUME NEW b \in Builds, CollectArtifact(b) \/ SelectArtifact(b) PROVE TypeOK'
  <2>1. /\ [build[b] EXCEPT !.at = "cleaning", !.result = "thrown"] \in Calls
        /\ \A j \in JarNames, id \in Contents : [build[b] EXCEPT !.jar = j, !.id = id, !.at = "persisting"] \in Calls
    BY <1>0, <1>p DEF Calls, Results
  <2>2. \A jars \in Jars, j \in JarNames : jars[j] \in Contents
    BY DEF Jars
  <2>3. \A jars \in Jars : Selected(b, jars) => BuildOK
    BY <1>b, <2>1, <2>2 DEF Selected, Candidates
  <2>4. BuildOK
    BY <1>b, <1>e, <1>g, <1>o, <1>p, <1>v, <2>1, <2>3 DEF CollectArtifact, SelectArtifact
  <2> QED
    BY <1>o, <1>u, <2>4 DEF CollectArtifact, SelectArtifact, Project
<1>q. ASSUME NEW b \in Builds, PersistArtifact(b) PROVE TypeOK'
  <2>1. PICK jar : jar = (IF Local(b) THEN libs ELSE out[b])[build[b].jar]
    OBVIOUS
  <2>2. jar \in Contents
    BY <1>0, <1>v, <2>1 DEF Jars, Calls
  <2>3. /\ [build[b] EXCEPT !.sha = jar] \in Calls
        /\ [build[b] EXCEPT !.sha = jar, !.at = "cleaning"] \in Calls
        /\ [build[b] EXCEPT !.at = "cleaning", !.result = "ARTIFACT_PERSIST_FAILED"] \in Calls
    BY <1>0, <1>p, <2>2 DEF Calls, Results
  <2>4. \/ store' = [store EXCEPT ![b] = jar]
        \/ store' = store
    BY <1>q, <2>1 DEF PersistArtifact
  <2>5. \/ Update(b, Ended([build[b] EXCEPT !.sha = jar], "completed"))
        \/ Update(b, [build[b] EXCEPT !.sha = jar, !.at = "cleaning"])
        \/ End(b, "ARTIFACT_PERSIST_FAILED")
        \/ Update(b, [build[b] EXCEPT !.at = "cleaning", !.result = "ARTIFACT_PERSIST_FAILED"])
    BY <1>q, <2>1 DEF PersistArtifact
  <2>6. BuildOK
    BY <1>b, <1>e, <2>3, <2>5, EndedIsCall
  <2> QED
    BY <1>q, <1>v, <2>2, <2>4, <2>6 DEF PersistArtifact, Project, TypeOK, BuildOK
<1>r. ASSUME NEW b \in Builds, CleanUp(b) PROVE TypeOK'
  <2>2. BuildOK
    BY <1>e, <1>g, <1>p, <1>r DEF CleanUp
  <2> QED
    BY <1>r, <1>t, <1>v, <2>2, Basics DEF CleanUp, Project
<1>s. ASSUME NEW b \in Builds, AssertUnchanged(b) PROVE TypeOK'
  <2>1. BuildOK
    BY <1>e, <1>g, <1>p, <1>s DEF AssertUnchanged
  <2> QED
    BY <1>s, <1>u, <2>1 DEF AssertUnchanged, Project
<1>x. CASE UNCHANGED vars
  BY <1>x DEF vars, TypeOK
<1> QED
  BY <1>c, <1>d, <1>f, <1>h, <1>i, <1>j, <1>k, <1>l, <1>m, <1>n, <1>o, <1>q, <1>r, <1>s, <1>x
  DEF Next, Step, Done

-----------------------------------------------------------------------------
(* A step of one build leaves the records of the others alone.             *)
LEMMA OthersStay ==
  ASSUME TypeOK, NEW b \in Builds, NEW r, Update(b, r)
  PROVE  build'[b] = r /\ \A d \in Builds \ {b} : build'[d] = build[d]
BY DEF TypeOK, Update

(* Calls, processes and directories keep in step.                          *)
LEMMA OrderFrame ==
  ASSUME TypeOK, CallsInOrder, NEW b \in Builds, NEW r, Update(b, r),
         \A d \in Builds \ {b} : d \in work' <=> d \in work, InOrder(r, b \in work')
  PROVE  CallsInOrder'
<1>1. InOrder(build'[b], b \in work')
  BY OthersStay
<1>2. ASSUME NEW d \in Builds \ {b} PROVE InOrder(build'[d], d \in work')
  <2>1. build'[d] = build[d] /\ (d \in work' <=> d \in work)
    BY OthersStay
  <2>2. InOrder(build[d], d \in work)
    BY DEF CallsInOrder
  <2>3. CASE d \in work
    BY <2>1, <2>2, <2>3 DEF InOrder
  <2>4. CASE d \notin work
    BY <2>1, <2>2, <2>4 DEF InOrder
  <2> QED
    BY <2>3, <2>4
<1> QED
  BY <1>1, <1>2 DEF CallsInOrder

(* Every step keeps every build to the order of its calls.                 *)
LEMMA OrderStep == IInv /\ [Next]_vars => CallsInOrder'
<1> SUFFICES ASSUME IInv, [Next]_vars PROVE CallsInOrder'
  OBVIOUS
<1>0. CallsInOrder /\ TypeOK /\ \A b \in Builds : build[b] \in Calls /\ InOrder(build[b], b \in work)
  BY DEF IInv, TypeOK, CallsInOrder
<1>t. TypeOK' /\ \A b \in Builds : build'[b] \in Calls
  BY <1>0, TypeStep DEF TypeOK
<1>e. ASSUME NEW b \in Builds, NEW result, result # "completed", b \notin work', build[b].process # "running",
             End(b, result), \A d \in Builds \ {b} : d \in work' <=> d \in work
      PROVE  CallsInOrder'
  <2>1. InOrder(Ended(build[b], result), b \in work')
    BY <1>0, <1>e DEF InOrder, Ended, Fresh, Unstarted, Checked
  <2> QED
    BY <1>0, <1>e, <2>1, OrderFrame DEF End
<1>z. ASSUME NEW b \in Builds, build[b].at = "starting"
      PROVE  InOrder([build[b] EXCEPT !.at = "running", !.process = "running"], b \in work)
  <2>1. PICK r : r = [build[b] EXCEPT !.at = "running", !.process = "running"]
    OBVIOUS
  <2>2. /\ r.at = "running" /\ r.process = "running" /\ r.timedOut = build[b].timedOut
        /\ r.exit = build[b].exit /\ r.result = build[b].result
    BY <1>0, <2>1 DEF Calls
  <2>3. ~ build[b].timedOut /\ build[b].result = "none"
    BY <1>0, <1>z DEF InOrder, Unstarted
  <2>4. InOrder(r, b \in work)
    BY <2>2, <2>3 DEF InOrder, Unstarted, Checked
  <2> QED
    BY <2>1, <2>4
<1> USE DEF At, Local, Calls, Unstarted, Checked
<1>c. ASSUME NEW f \in Files, Edit(f) PROVE CallsInOrder'
  BY <1>0, <1>c DEF Edit, CallsInOrder
<1>d. ASSUME NEW b \in Builds, Request(b) PROVE CallsInOrder'
  <2>1. ASSUME NEW backend, NEW mode, NEW network PROVE
          InOrder([build[b] EXCEPT !.backend = backend, !.mode = mode, !.network = network, !.at = "snapshot"], b \in work')
    BY <1>0, <1>d DEF Request, InOrder
  <2>2. work' = work /\ b \notin work /\ build[b].process # "running"
    BY <1>0, <1>d DEF Request, InOrder
  <2>3. \/ End(b, "BACKEND_UNAVAILABLE")
        \/ \E backend, mode, network :
             Update(b, [build[b] EXCEPT !.backend = backend, !.mode = mode, !.network = network, !.at = "snapshot"])
    BY <1>d DEF Request
  <2> QED
    BY <1>0, <1>e, <2>1, <2>2, <2>3, OrderFrame
<1>f. ASSUME NEW b \in Builds, CollectEntry(b) PROVE CallsInOrder'
  <2>1. ASSUME NEW snap, NEW at, at = "validating" \/ at = "snapshot" PROVE
          InOrder([build[b] EXCEPT !.snap = snap, !.at = at], b \in work')
    BY <1>0, <1>f, <2>1 DEF CollectEntry, InOrder
  <2>2. work' = work /\ b \notin work /\ build[b].process # "running" /\ build[b].at = "snapshot"
    BY <1>0, <1>f DEF CollectEntry, InOrder
  <2>3. \/ End(b, "thrown")
        \/ \E snap, at : (at = "validating" \/ at = "snapshot") /\ Update(b, [build[b] EXCEPT !.snap = snap, !.at = at])
    BY <1>f, <2>2 DEF CollectEntry
  <2> QED
    BY <1>0, <1>e, <2>1, <2>2, <2>3, OrderFrame
<1>h. ASSUME NEW b \in Builds, Validate(b) PROVE CallsInOrder'
  <2>1. InOrder([build[b] EXCEPT !.at = "starting", !.approved = file["wrapper"]], b \in work')
    BY <1>0, <1>h DEF Validate, InOrder
  <2>2. b \notin work /\ build[b].process # "running"
    BY <1>0, <1>h DEF Validate, InOrder
  <2> QED
    BY <1>0, <1>e, <1>h, <2>1, <2>2, OrderFrame DEF Validate
<1>i. ASSUME NEW b \in Builds, RunLocal(b) PROVE CallsInOrder'
  <2>1. InOrder([build[b] EXCEPT !.at = "cleaning", !.result = "thrown"], b \in work')
    BY <1>0, <1>i DEF RunLocal, InOrder
  <2> QED
    BY <1>0, <1>i, <1>z, <2>1, OrderFrame DEF RunLocal
<1>j. ASSUME NEW b \in Builds, RunContainer(b) PROVE CallsInOrder'
  BY <1>0, <1>j, <1>z, OrderFrame DEF RunContainer
<1>k. ASSUME NEW b \in Builds, Compile(b) PROVE CallsInOrder'
  <2>1. build[b].at = "running" /\ build[b].process = "running"
    BY <1>0, <1>k DEF Compile, InOrder
  <2>2. ASSUME NEW compiled PROVE InOrder([build[b] EXCEPT !.compiled = compiled], b \in work')
    BY <1>0, <1>k, <2>1 DEF Compile, InOrder
  <2> QED
    BY <1>0, <1>k, <2>2, OrderFrame DEF Compile
<1>l. ASSUME NEW b \in Builds, Succeed(b) PROVE CallsInOrder'
  <2>1. build[b].at = "running" /\ build[b].process = "running"
    BY <1>0, <1>l DEF Succeed, InOrder
  <2>2. \A f \in Files : build[b].compiled[f] # 0
    BY <1>l DEF Succeed, ReadSoFar
  <2>3. InOrder([build[b] EXCEPT !.process = "exited"], b \in work')
    BY <1>0, <1>l, <2>1, <2>2 DEF Succeed, InOrder
  <2> QED
    BY <1>0, <1>l, <2>3, OrderFrame DEF Succeed
<1>m. ASSUME NEW b \in Builds, Fail(b) PROVE CallsInOrder'
  <2>1. build[b].at = "running" /\ build[b].process = "running"
    BY <1>0, <1>m DEF Fail, InOrder
  <2>2. PICK r : r = [build[b] EXCEPT !.process = "exited", !.exit = 1, !.compiled = Nothing]
    OBVIOUS
  <2>3. /\ r.at = "running" /\ r.process = "exited" /\ r.exit = 1 /\ r.result = build[b].result
    BY <1>0, <2>1, <2>2
  <2>5. build[b].result = "none"
    BY <1>0, <2>1 DEF InOrder
  <2>4. InOrder(r, b \in work)
    BY <2>3, <2>5 DEF InOrder
  <2> QED
    BY <1>0, <1>m, <2>2, <2>4, OrderFrame DEF Fail
<1>n. ASSUME NEW b \in Builds, TimedOut(b) PROVE CallsInOrder'
  <2>1. build[b].at = "running" /\ work' = work
    BY <1>n DEF TimedOut
  <2>2. CASE build[b].process = "running"
    <3>1. Update(b, [build[b] EXCEPT !.timedOut = TRUE, !.exit = 1,
                       !.compiled = IF Local(b) THEN Nothing ELSE build[b].compiled,
                       !.process = IF Local(b) THEN "exited" ELSE build[b].process])
      BY <1>n, <2>2 DEF TimedOut
    <3>2. PICK r : r = [build[b] EXCEPT !.timedOut = TRUE, !.exit = 1,
                       !.compiled = IF Local(b) THEN Nothing ELSE build[b].compiled,
                       !.process = IF Local(b) THEN "exited" ELSE build[b].process]
      OBVIOUS
    <3>3. /\ r.at = "running" /\ r.exit = 1 /\ r.result = build[b].result
          /\ r.process = "running" \/ r.process = "exited"
      BY <1>0, <2>1, <2>2, <3>2
    <3>5. build[b].result = "none"
      BY <1>0, <2>1 DEF InOrder
    <3>4. InOrder(r, b \in work)
      BY <3>3, <3>5 DEF InOrder
    <3> QED
      BY <1>0, <2>1, <3>1, <3>2, <3>4, OrderFrame
  <2>3. CASE build[b].process # "running"
    <3>1. Update(b, [build[b] EXCEPT !.timedOut = TRUE, !.exit = build[b].exit,
                       !.compiled = build[b].compiled, !.process = build[b].process])
      BY <1>n, <2>3 DEF TimedOut
    <3>2. InOrder([build[b] EXCEPT !.timedOut = TRUE, !.exit = build[b].exit,
                       !.compiled = build[b].compiled, !.process = build[b].process], b \in work')
      BY <1>0, <2>1, <2>3 DEF InOrder
    <3> QED
      BY <1>0, <2>1, <3>1, <3>2, OrderFrame
  <2> QED
    BY <2>2, <2>3
<1>o. ASSUME NEW b \in Builds, ExitLocal(b) PROVE CallsInOrder'
  <2>1. InOrder([build[b] EXCEPT !.at = "cleaning"], b \in work')
    BY <1>0, <1>o DEF ExitLocal, InOrder
  <2> QED
    BY <1>0, <1>o, <2>1, OrderFrame DEF ExitLocal, Go
<1>p. ASSUME NEW b \in Builds, ExitContainer(b) PROVE CallsInOrder'
  <2>1. PICK end : /\ Update(b, [build[b] EXCEPT !.at = "collecting", !.process = end])
                   /\ \/ end = "exited"
                      \/ end = "unremoved" /\ build[b].timedOut /\ build[b].process = "running"
    BY <1>0, <1>p DEF ExitContainer, Removed, InOrder
  <2>2. build[b].at = "running" /\ work' = work
    BY <1>p DEF ExitContainer
  <2>3. PICK r : r = [build[b] EXCEPT !.at = "collecting", !.process = end]
    OBVIOUS
  <2>4. /\ r.at = "collecting" /\ r.process = end /\ r.timedOut = build[b].timedOut
        /\ r.exit = build[b].exit /\ r.result = build[b].result /\ r.compiled = build[b].compiled
        /\ r.backend = build[b].backend
    BY <1>0, <2>3
  <2>5. /\ build[b].backend # "trusted-local"
        /\ build[b].result = "none" \/ build[b].result \notin {"none", "completed"}
        /\ ~ build[b].result # "none"
        /\ build[b].process = "exited" \/ (build[b].process = "running" /\ build[b].timedOut /\ build[b].exit = 1)
    BY <1>0, <1>p, <2>2 DEF InOrder, ExitContainer
  <2>6. build[b].process = "exited" /\ build[b].exit = 0 => \A f \in Files : build[b].compiled[f] # 0
    BY <1>0 DEF InOrder
  <2>7. InOrder(r, b \in work)
    BY <2>1, <2>4, <2>5, <2>6 DEF InOrder
  <2> QED
    BY <1>0, <2>1, <2>2, <2>3, <2>7, OrderFrame
<1>a. ASSUME NEW b \in Builds, CollectArtifact(b) PROVE CallsInOrder'
  <2>0. build[b].at = "collecting" /\ work' = work
    BY <1>a DEF CollectArtifact
  <2>1. InOrder([build[b] EXCEPT !.at = "cleaning"], b \in work)
    BY <1>0, <2>0 DEF InOrder
  <2>2. InOrder([build[b] EXCEPT !.at = "cleaning", !.result = "thrown"], b \in work)
    BY <1>0, <2>0 DEF InOrder
  <2>3. ASSUME NEW j, NEW id, build[b].exit = 0
        PROVE  InOrder([build[b] EXCEPT !.jar = j, !.id = id, !.at = "persisting"], b \in work)
    <3>1. PICK r : r = [build[b] EXCEPT !.jar = j, !.id = id, !.at = "persisting"]
      OBVIOUS
    <3>2. /\ r.at = "persisting" /\ r.process = build[b].process /\ r.timedOut = build[b].timedOut
          /\ r.exit = build[b].exit /\ r.result = build[b].result /\ r.compiled = build[b].compiled
          /\ r.backend = build[b].backend
      BY <1>0, <3>1
    <3>4. /\ build[b].backend # "trusted-local" /\ build[b].result = "none"
          /\ build[b].process = "exited"
      BY <1>0, <2>0, <2>3 DEF InOrder
    <3>5. \A f \in Files : build[b].compiled[f] # 0
      BY <1>0, <2>3, <3>4 DEF InOrder
    <3>3. InOrder(r, b \in work)
      BY <2>3, <3>2, <3>4, <3>5 DEF InOrder
    <3> QED
      BY <3>1, <3>3
  <2>4. \/ Update(b, [build[b] EXCEPT !.at = "cleaning"])
        \/ Update(b, [build[b] EXCEPT !.at = "cleaning", !.result = "thrown"])
        \/ build[b].exit = 0 /\ \E j, id : Update(b, [build[b] EXCEPT !.jar = j, !.id = id, !.at = "persisting"])
    BY <1>a DEF CollectArtifact, Selected, Go
  <2> QED
    BY <1>0, <2>0, <2>1, <2>2, <2>3, <2>4, OrderFrame
<1>b. ASSUME NEW b \in Builds, SelectArtifact(b) PROVE CallsInOrder'
  <2>0. build[b].at = "selecting" /\ work' = work
    BY <1>b DEF SelectArtifact
  <2>1. b \notin work /\ build[b].process # "running"
    BY <1>0, <2>0 DEF InOrder
  <2>2. ASSUME NEW j, NEW id
        PROVE  InOrder([build[b] EXCEPT !.jar = j, !.id = id, !.at = "persisting"], b \in work)
    <3>1. PICK r : r = [build[b] EXCEPT !.jar = j, !.id = id, !.at = "persisting"]
      OBVIOUS
    <3>2. /\ r.at = "persisting" /\ r.process = build[b].process /\ r.timedOut = build[b].timedOut
          /\ r.exit = build[b].exit /\ r.result = build[b].result /\ r.compiled = build[b].compiled
          /\ r.backend = build[b].backend
      BY <1>0, <3>1
    <3>4. /\ build[b].result = "none" /\ build[b].exit = 0 /\ ~ build[b].timedOut
          /\ build[b].process = "exited" /\ \A f \in Files : build[b].compiled[f] # 0
      BY <1>0, <2>0 DEF InOrder
    <3>3. InOrder(r, b \in work)
      BY <2>1, <3>2, <3>4 DEF InOrder
    <3> QED
      BY <3>1, <3>3
  <2>3. \/ \E j, id : Update(b, [build[b] EXCEPT !.jar = j, !.id = id, !.at = "persisting"])
        \/ \E result : result # "completed" /\ End(b, result)
    BY <1>b DEF SelectArtifact, Selected
  <2> QED
    BY <1>0, <1>e, <2>0, <2>1, <2>2, <2>3, OrderFrame
<1>q. ASSUME NEW b \in Builds, PersistArtifact(b) PROVE CallsInOrder'
  <2>1. PICK jar : jar = (IF Local(b) THEN libs ELSE out[b])[build[b].jar]
    OBVIOUS
  <2>2. /\ build[b].at = "persisting" /\ work' = work /\ build[b].process # "running"
        /\ Local(b) => b \notin work
    BY <1>0, <1>q DEF PersistArtifact, InOrder
  <2>3. /\ Local(b) => InOrder(Ended([build[b] EXCEPT !.sha = jar], "completed"), b \in work')
        /\ ~ Local(b) => /\ InOrder([build[b] EXCEPT !.sha = jar, !.at = "cleaning"], b \in work')
                         /\ InOrder([build[b] EXCEPT !.at = "cleaning", !.result = "ARTIFACT_PERSIST_FAILED"], b \in work')
    BY <1>0, <2>2 DEF Ended, InOrder
  <2>4. \/ Local(b) /\ Update(b, Ended([build[b] EXCEPT !.sha = jar], "completed"))
        \/ ~ Local(b) /\ Update(b, [build[b] EXCEPT !.sha = jar, !.at = "cleaning"])
        \/ Local(b) /\ End(b, "ARTIFACT_PERSIST_FAILED")
        \/ ~ Local(b) /\ Update(b, [build[b] EXCEPT !.at = "cleaning", !.result = "ARTIFACT_PERSIST_FAILED"])
    BY <1>q, <2>1 DEF PersistArtifact
  <2> QED
    BY <1>0, <1>e, <2>2, <2>3, <2>4, OrderFrame
<1>r. ASSUME NEW b \in Builds, CleanUp(b) PROVE CallsInOrder'
  <2>1. /\ build[b].at = "cleaning" /\ work' = work \ {b} /\ build[b].process # "running"
        /\ build[b].result # "completed"
    BY <1>0, <1>r DEF CleanUp, InOrder
  <2>2. build[b].result = "none" /\ ~ build[b].timedOut /\ build[b].exit = 0 =>
          InOrder([build[b] EXCEPT !.at = "rechecking"], b \in work')
    BY <1>0, <2>1 DEF InOrder
  <2>3. \/ \E result : result # "completed" /\ End(b, result)
        \/ /\ build[b].result = "none" /\ ~ build[b].timedOut /\ build[b].exit = 0
           /\ Update(b, [build[b] EXCEPT !.at = "rechecking"])
    BY <1>r, <2>1 DEF CleanUp, Go
  <2> QED
    BY <1>0, <1>e, <2>1, <2>2, <2>3, OrderFrame
<1>s. ASSUME NEW b \in Builds, AssertUnchanged(b) PROVE CallsInOrder'
  <2>1. /\ InOrder([build[b] EXCEPT !.at = "rechecking_on"], b \in work')
        /\ Local(b) => InOrder([build[b] EXCEPT !.at = "selecting"], b \in work')
        /\ b \notin work /\ build[b].process # "running" /\ work' = work
        /\ InOrder(Ended(build[b], "completed"), b \in work')
    BY <1>0, <1>s DEF AssertUnchanged, InOrder, Ended
  <2> QED
    BY <1>0, <1>e, <1>s, <2>1, OrderFrame DEF AssertUnchanged, Go, End
<1>x. CASE UNCHANGED vars
  BY <1>0, <1>x DEF vars, CallsInOrder
<1> QED
  BY <1>a, <1>b, <1>c, <1>d, <1>f, <1>h, <1>i, <1>j, <1>k, <1>l, <1>m, <1>n, <1>o, <1>p, <1>q, <1>r, <1>s, <1>x
  DEF Next, Step, Done

-----------------------------------------------------------------------------
(* What a build has read of a file agrees with its snapshot, or the file    *)
(* was put back.                                                            *)
LEMMA ReadFrame ==
  ASSUME TypeOK, ReadInOrder, NEW b \in Builds, NEW r, Update(b, r), file' = file /\ restored' = restored, ReadAlike(b, r, file, restored)
  PROVE  ReadInOrder'
BY OthersStay DEF ReadInOrder

\* Reading is over: only the place changes.
LEMMA ReadAlready ==
  ASSUME NEW b, NEW now, NEW back, NEW r, NEW q, ReadAlike(b, r, now, back),
         q.snap = r.snap, q.compiled = r.compiled \/ q.compiled = Nothing, q.approved = r.approved,
         r.at \notin {"idle", "snapshot", "validating", "answered"},
         q.at \notin {"idle", "snapshot", "validating", "rechecking_on", "selecting"},
         q.at = "persisting" /\ q.backend = "trusted-local" => r.at = "selecting" /\ q.compiled = r.compiled,
         q.result # "completed",
         \A f \in Files : now[f] \in Nat
  PROVE  ReadAlike(b, q, now, back)
<1>1. r.approved # 0 /\ \A f \in Files : r.snap[f] # 0
  BY DEF ReadAlike
<1>2. \A f \in Files :
        /\ q.compiled[f] # 0 => r.compiled[f] # 0 /\ q.compiled[f] = r.compiled[f]
        /\ Settled(b, r, f, back) => Settled(b, q, f, back)
  <2>1. CASE q.compiled = r.compiled
    BY <2>1 DEF Settled, Faithful
  <2>2. CASE q.compiled = Nothing
    BY <2>2 DEF Settled, Faithful, Nothing
  <2> QED
    BY <2>1, <2>2
<1> QED
  BY <1>1, <1>2 DEF ReadAlike

(* A build that has read nothing has read nothing else.                    *)
LEMMA FreshReadsAlike ==
  ASSUME NEW b, NEW now, NEW back, NEW r, r.snap = Nothing, r.compiled = Nothing, r.approved = 0,
         r.at \in {"idle", "snapshot", "answered"}, r.result # "completed",
         \A f \in Files : now[f] \in Nat
  PROVE  ReadAlike(b, r, now, back)
<1>1. \A f \in Files : r.snap[f] = 0 /\ r.compiled[f] = 0
  BY DEF Nothing
<1> QED
  BY <1>1, TheFiles DEF ReadAlike

(* Every step keeps what was read in agreement, but for what is put back.  *)
LEMMA ReadStep == IInv /\ [Next]_vars => ReadInOrder'
<1> SUFFICES ASSUME IInv, [Next]_vars PROVE ReadInOrder'
  OBVIOUS
<1>0. /\ ReadInOrder /\ TypeOK
      /\ \A b \in Builds : build[b] \in Calls /\ InOrder(build[b], b \in work) /\ ReadAlike(b, build[b], file, restored)
  BY DEF IInv, TypeOK, CallsInOrder, ReadInOrder
<1>1. /\ \A f \in Files : file[f] \in Nat /\ file[f] # 0
      /\ \A b \in Builds, f \in Files : build[b].snap[f] \in Nat /\ build[b].compiled[f] \in Nat
      /\ \A b \in Builds : build[b].approved \in Nat
  <2>1. \A f \in Files : file[f] \in 1..MaxVersion
    BY <1>0 DEF TypeOK, Versions
  <2>2. \A b \in Builds : /\ build[b].snap \in [Files -> 0..MaxVersion]
                          /\ build[b].compiled \in [Files -> 0..MaxVersion]
                          /\ build[b].approved \in 0..MaxVersion
    BY <1>0 DEF Calls, Contents
  <2> QED
    BY <2>1, <2>2, BuildAssumption
<1>e. ASSUME NEW b \in Builds, NEW result, result # "completed", End(b, result), file' = file /\ restored' = restored PROVE ReadInOrder'
  <2>1. ReadAlike(b, Ended(build[b], result), file, restored)
    BY <1>1, <1>e, FreshReadsAlike DEF Ended, Fresh
  <2> QED
    BY <1>0, <1>e, <2>1, ReadFrame DEF End
\* The place alone changes, after the walk is over.
<1>a. ASSUME NEW b \in Builds, NEW q, Update(b, q), file' = file /\ restored' = restored,
             q.snap = build[b].snap, q.compiled = build[b].compiled \/ q.compiled = Nothing,
             q.approved = build[b].approved,
             build[b].at \notin {"idle", "snapshot", "validating", "answered"},
             q.at \notin {"idle", "snapshot", "validating", "rechecking_on", "selecting"},
             q.at = "persisting" /\ q.backend = "trusted-local" =>
               build[b].at = "selecting" /\ q.compiled = build[b].compiled,
             q.result # "completed"
      PROVE  ReadInOrder'
  <2>1. ReadAlike(b, q, file, restored)
    BY <1>0, <1>1, <1>a, ReadAlready
  <2> QED
    BY <1>0, <1>a, <2>1, ReadFrame
<1> USE DEF At, Local, Calls
<1>c. ASSUME NEW f \in Files, Edit(f) PROVE ReadInOrder'
  <2>1. build' = build /\ restored \subseteq restored'
    BY <1>c DEF Edit
  <2> SUFFICES ASSUME NEW b \in Builds PROVE ReadAlike(b, build[b], file', restored')
    BY <2>1 DEF ReadInOrder
  <2>2. \A g \in Files : Settled(b, build[b], g, restored) => Settled(b, build[b], g, restored')
    BY <2>1 DEF Settled
  \* Put back by this very edit, or as it was before.
  <2>3. ASSUME NEW g \in Files, build[b].at # "answered", build[b].snap[g] # 0,
               Walked(g, file'[g]) = build[b].snap[g]
        PROVE  Settled(b, build[b], g, restored')
    <3>1. CASE Walked(g, file[g]) = build[b].snap[g]
      BY <1>0, <2>2, <2>3, <3>1 DEF ReadAlike
    <3>2. CASE Walked(g, file[g]) # build[b].snap[g]
      <4>1. g = f
        <5>1. ASSUME g # f PROVE file'[g] = file[g]
          BY <1>0, <1>c, <5>1 DEF Edit, TypeOK
        <5> QED
          BY <2>3, <3>2, <5>1
      <4>2. PICK version : /\ file' = [file EXCEPT ![f] = version]
                           /\ restored' = restored \cup {<<d, f>> : d \in {c \in Builds :
                                ~ At(c, "answered") /\ ~ AsInSnapshot(c, f, file[f])
                                  /\ AsInSnapshot(c, f, version)}}
        BY <1>c DEF Edit
      <4>3. file'[f] = version
        BY <1>0, <4>2 DEF TypeOK
      <4>4. <<b, f>> \in restored'
        BY <2>3, <3>2, <4>1, <4>2, <4>3 DEF AsInSnapshot
      <4> QED
        BY <4>1, <4>4 DEF Settled
    <3> QED
      BY <3>1, <3>2
  <2> QED
    BY <1>0, <2>2, <2>3, TheFiles DEF ReadAlike
<1>d. ASSUME NEW b \in Builds, Request(b) PROVE ReadInOrder'
  <2>1. /\ build[b].at = "idle" /\ file' = file /\ restored' = restored
        /\ \/ End(b, "BACKEND_UNAVAILABLE")
           \/ \E backend, mode, network :
                Update(b, [build[b] EXCEPT !.backend = backend, !.mode = mode, !.network = network, !.at = "snapshot"])
    BY <1>d DEF Request, Project
  <2>2. ASSUME NEW backend, NEW mode, NEW network PROVE
          ReadAlike(b, [build[b] EXCEPT !.backend = backend, !.mode = mode, !.network = network, !.at = "snapshot"], file, restored)
    <3>1. PICK q : q = [build[b] EXCEPT !.backend = backend, !.mode = mode, !.network = network, !.at = "snapshot"]
      OBVIOUS
    <3>2. /\ q.snap = build[b].snap /\ q.compiled = build[b].compiled /\ q.approved = build[b].approved
          /\ q.at = "snapshot" /\ q.result = build[b].result
      BY <1>0, <3>1
    <3>3. build[b].result # "completed"
      BY <1>0, <2>1 DEF InOrder
    <3>7. build[b].approved = 0
      BY <1>0, <2>1 DEF ReadAlike
    <3>8. build[b].compiled = Nothing
      BY <1>0, <2>1 DEF InOrder, Unstarted
    <3>5. build[b].approved = 0 /\ \A f \in Files : build[b].compiled[f] = 0
      BY <3>7, <3>8 DEF Nothing
    <3>6. \A f \in Files : Faithful(q, f)
      BY <3>2, <3>5 DEF Faithful
    <3>4. ReadAlike(b, q, file, restored)
      BY <1>1, <3>2, <3>3, <3>5, <3>6, TheFiles DEF ReadAlike, Settled
    <3> QED
      BY <3>1, <3>4
  <2> QED
    BY <1>0, <1>e, <2>1, <2>2, ReadFrame
<1>f. ASSUME NEW b \in Builds, CollectEntry(b) PROVE ReadInOrder'
  <2>1. PICK f : f = NextFile(build[b].snap)
    OBVIOUS
  <2>2. PICK snap : snap = [build[b].snap EXCEPT ![f] = Walked(f, file[f])]
    OBVIOUS
  <2>3. \A g \in Files : snap[g] = IF g = f THEN Walked(f, file[f]) ELSE build[b].snap[g]
    BY <1>0, <2>2 DEF Contents
  <2>4. PICK at : at = IF ReadSoFar(build[b].snap) \cup {f} = Files THEN "validating" ELSE build[b].at
    OBVIOUS
  <2>5. /\ build[b].at = "snapshot" /\ file' = file /\ restored' = restored
        /\ \/ End(b, "thrown")
           \/ Update(b, [build[b] EXCEPT !.snap = snap, !.at = at])
    BY <1>f, <2>1, <2>2, <2>4 DEF CollectEntry, Project
  <2>6. PICK q : q = [build[b] EXCEPT !.snap = snap, !.at = at]
    OBVIOUS
  <2>7. /\ q.snap = snap /\ q.compiled = build[b].compiled /\ q.approved = build[b].approved
        /\ q.at = at /\ q.result = build[b].result
    BY <1>0, <2>6
  <2>8. build[b].compiled = Nothing /\ build[b].result # "completed"
    BY <1>0, <2>5 DEF InOrder, Unstarted
  <2>9. build[b].approved = 0
    BY <1>0, <2>5 DEF ReadAlike
  <2>10. at \in {"snapshot", "validating"} /\ (at = "validating" => \A g \in Files : snap[g] # 0)
    <3>1. f \in Files => Walked(f, file[f]) # 0
      BY <1>0, BuildAssumption DEF TypeOK, Walked, Versions
    <3> QED
      BY <3>1, <2>3, <2>4, <2>5 DEF ReadSoFar
  <2>12. \A g \in Files : build[b].compiled[g] = 0
    BY <2>8 DEF Nothing
  <2>11. \A g \in Files : Faithful(q, g)
    BY <2>7, <2>9, <2>12 DEF Faithful
  <2>13. ReadAlike(b, q, file, restored)
    BY <1>1, <2>7, <2>8, <2>9, <2>10, <2>11, <2>12, TheFiles DEF ReadAlike, Settled
  <2>14. CASE End(b, "thrown")
    BY <1>e, <2>5, <2>14
  <2>15. CASE Update(b, q)
    BY <1>0, <2>5, <2>13, <2>15, ReadFrame
  <2> QED
    BY <2>5, <2>6, <2>14, <2>15
<1>h. ASSUME NEW b \in Builds, Validate(b) PROVE ReadInOrder'
  <2>1. PICK q : q = [build[b] EXCEPT !.at = "starting", !.approved = file["wrapper"]]
    OBVIOUS
  <2>2. /\ build[b].at = "validating" /\ file' = file /\ restored' = restored
        /\ \/ End(b, "validation")
           \/ Update(b, q) /\ GradleFindings(Wrapper[file["wrapper"]], Pin) = {}
    BY <1>h, <2>1 DEF Validate, Project
  <2>3. /\ q.snap = build[b].snap /\ q.compiled = build[b].compiled /\ q.approved = file["wrapper"]
        /\ q.at = "starting" /\ q.result = build[b].result
    BY <1>0, <2>1
  <2>4. build[b].compiled = Nothing /\ build[b].result # "completed"
    BY <1>0, <2>2 DEF InOrder, Unstarted
  <2>5. \A g \in Files : build[b].compiled[g] = 0
    BY <2>4 DEF Nothing
  <2>9. \A g \in Files : Walked(g, file[g]) = q.snap[g] => Faithful(q, g)
    BY <2>3, <2>5 DEF Faithful, Walked
  <2>6. GradleFindings(Wrapper[file["wrapper"]], Pin) = {} => ReadAlike(b, q, file, restored)
    BY <1>0, <1>1, <2>2, <2>3, <2>4, <2>5, <2>9, TheFiles DEF ReadAlike, Settled
  <2>7. CASE End(b, "validation")
    BY <1>e, <2>2, <2>7
  <2>8. CASE Update(b, q) /\ GradleFindings(Wrapper[file["wrapper"]], Pin) = {}
    BY <1>0, <2>2, <2>6, <2>8, ReadFrame
  <2> QED
    BY <2>2, <2>7, <2>8
<1>i. ASSUME NEW b \in Builds, RunLocal(b) \/ RunContainer(b) PROVE ReadInOrder'
  <2>1. PICK q, p : /\ q = [build[b] EXCEPT !.at = "cleaning", !.result = "thrown"]
                    /\ p = [build[b] EXCEPT !.at = "running", !.process = "running"]
    OBVIOUS
  <2>2. /\ build[b].at = "starting" /\ file' = file /\ restored' = restored
        /\ Update(b, q) \/ Update(b, p)
    BY <1>i, <2>1 DEF RunLocal, RunContainer, Project
  <2>3. /\ q.snap = build[b].snap /\ q.compiled = build[b].compiled /\ q.approved = build[b].approved
        /\ q.at = "cleaning" /\ q.result = "thrown"
    BY <1>0, <2>1
  <2>4. /\ p.snap = build[b].snap /\ p.compiled = build[b].compiled /\ p.approved = build[b].approved
        /\ p.at = "running" /\ p.result = build[b].result
    BY <1>0, <2>1
  <2>5. build[b].result # "completed"
    BY <1>0, <2>2 DEF InOrder
  <2>6. CASE Update(b, q)
    BY <1>a, <2>2, <2>3, <2>6
  <2>7. CASE Update(b, p)
    BY <1>a, <2>2, <2>4, <2>5, <2>7
  <2> QED
    BY <2>2, <2>6, <2>7
<1>k. ASSUME NEW b \in Builds, Compile(b) PROVE ReadInOrder'
  <2>1. PICK f : f = NextFile(build[b].compiled)
    OBVIOUS
  <2>2. PICK compiled : compiled = [build[b].compiled EXCEPT ![f] = file[f]]
    OBVIOUS
  <2>3. \A g \in Files : compiled[g] = IF g = f THEN file[f] ELSE build[b].compiled[g]
    BY <1>0, <2>2 DEF Contents
  <2>4. PICK q : q = [build[b] EXCEPT !.compiled = compiled]
    OBVIOUS
  <2>5. build[b].process = "running" /\ file' = file /\ restored' = restored /\ Update(b, q)
    BY <1>k, <2>1, <2>2, <2>4 DEF Compile, Project
  <2>6. build[b].at = "running" /\ build[b].result = "none"
    BY <1>0, <2>5 DEF InOrder, Unstarted
  <2>7. /\ q.snap = build[b].snap /\ q.compiled = compiled /\ q.approved = build[b].approved
        /\ q.at = "running" /\ q.result = "none"
    BY <1>0, <2>4, <2>6
  <2>8. \A g \in Files : build[b].snap[g] # 0
    BY <1>0, <2>6 DEF ReadAlike
  <2>9. ASSUME NEW g \in Files, Walked(g, file[g]) = build[b].snap[g]
        PROVE  Settled(b, q, g, restored)
    <3>1. Settled(b, build[b], g, restored)
      BY <1>0, <2>6, <2>8, <2>9 DEF ReadAlike
    <3> QED
      BY <2>3, <2>7, <2>9, <3>1 DEF Settled, Faithful
  <2>10. ReadAlike(b, q, file, restored)
    BY <1>0, <2>6, <2>7, <2>8, <2>9 DEF ReadAlike
  <2> QED
    BY <1>0, <2>5, <2>10, ReadFrame
<1>l. ASSUME NEW b \in Builds, Succeed(b) \/ Fail(b) PROVE ReadInOrder'
  <2>1. PICK q, p : /\ q = [build[b] EXCEPT !.process = "exited"]
                    /\ p = [build[b] EXCEPT !.process = "exited", !.exit = 1, !.compiled = Nothing]
    OBVIOUS
  <2>2. build[b].process = "running" /\ file' = file /\ restored' = restored /\ (Update(b, q) \/ Update(b, p))
    BY <1>l, <2>1 DEF Succeed, Fail, Project
  <2>3. build[b].at = "running" /\ build[b].result = "none"
    BY <1>0, <2>2 DEF InOrder, Unstarted
  <2>4. /\ q.snap = build[b].snap /\ q.compiled = build[b].compiled /\ q.approved = build[b].approved
        /\ q.at = "running" /\ q.result = "none"
    BY <1>0, <2>1, <2>3
  <2>5. /\ p.snap = build[b].snap /\ p.compiled = Nothing /\ p.approved = build[b].approved
        /\ p.at = "running" /\ p.result = "none"
    BY <1>0, <2>1, <2>3
  <2>6. CASE Update(b, q)
    BY <1>a, <2>2, <2>3, <2>4, <2>6
  <2>7. CASE Update(b, p)
    BY <1>a, <2>2, <2>3, <2>5, <2>7
  <2> QED
    BY <2>2, <2>6, <2>7
<1>n. ASSUME NEW b \in Builds, TimedOut(b) PROVE ReadInOrder'
  <2>1. PICK exit, compiled, process :
          /\ build[b].at = "running" /\ file' = file /\ restored' = restored
          /\ compiled = build[b].compiled \/ compiled = Nothing
          /\ Update(b, [build[b] EXCEPT !.timedOut = TRUE, !.exit = exit, !.compiled = compiled, !.process = process])
    BY <1>n DEF TimedOut, Project
  <2>2. PICK q : q = [build[b] EXCEPT !.timedOut = TRUE, !.exit = exit, !.compiled = compiled, !.process = process]
    OBVIOUS
  <2>3. build[b].result = "none"
    BY <1>0, <2>1 DEF InOrder
  <2>4. /\ q.snap = build[b].snap /\ q.compiled = compiled /\ q.approved = build[b].approved
        /\ q.at = "running" /\ q.result = "none"
    BY <1>0, <2>1, <2>2, <2>3
  <2> QED
    BY <1>a, <2>1, <2>2, <2>4
<1>o. ASSUME NEW b \in Builds, ExitLocal(b) \/ ExitContainer(b) PROVE ReadInOrder'
  <2>1. PICK q : /\ build[b].at = "running" /\ file' = file /\ restored' = restored
                 /\ Update(b, q)
                 /\ \/ q = [build[b] EXCEPT !.at = "cleaning"]
                    \/ \E end : q = [build[b] EXCEPT !.at = "collecting", !.process = end]
    BY <1>o DEF ExitLocal, ExitContainer, Go, Project
  <2>2. build[b].result = "none"
    BY <1>0, <2>1 DEF InOrder
  <2>3. /\ q.snap = build[b].snap /\ q.compiled = build[b].compiled /\ q.approved = build[b].approved
        /\ q.at \in {"cleaning", "collecting"} /\ q.result = "none"
    BY <1>0, <2>1, <2>2
  <2> QED
    BY <1>a, <2>1, <2>3
<1>p. ASSUME NEW b \in Builds, CollectArtifact(b) \/ SelectArtifact(b) PROVE ReadInOrder'
  <2>1. /\ build[b].at \in {"collecting", "selecting"} /\ file' = file /\ restored' = restored
        /\ build[b].at = "collecting" => ~ Local(b)
        /\ \/ \E result : result # "completed" /\ End(b, result)
           \/ \E q : /\ Update(b, q)
                     /\ \/ q = [build[b] EXCEPT !.at = "cleaning"]
                        \/ q = [build[b] EXCEPT !.at = "cleaning", !.result = "thrown"]
                        \/ \E j, id : q = [build[b] EXCEPT !.jar = j, !.id = id, !.at = "persisting"]
    <3>1. build[b].at = "collecting" => ~ Local(b)
      BY <1>0 DEF InOrder
    <3> QED
      BY <1>p, <3>1 DEF CollectArtifact, SelectArtifact, Selected, Go, Project
  <2>2. build[b].result = "none"
    BY <1>0, <2>1 DEF InOrder
  <2>3. CASE \E result : result # "completed" /\ End(b, result)
    BY <1>e, <2>1, <2>3
  <2>4. ASSUME NEW q, Update(b, q),
               \/ q = [build[b] EXCEPT !.at = "cleaning"]
               \/ q = [build[b] EXCEPT !.at = "cleaning", !.result = "thrown"]
               \/ \E j, id : q = [build[b] EXCEPT !.jar = j, !.id = id, !.at = "persisting"]
        PROVE  ReadInOrder'
    <3>1. /\ q.snap = build[b].snap /\ q.compiled = build[b].compiled /\ q.approved = build[b].approved
          /\ q.at \in {"cleaning", "persisting"} /\ q.result \in {"none", "thrown"}
          /\ q.backend = build[b].backend
      BY <1>0, <2>2, <2>4
    <3> QED
      BY <1>a, <2>1, <2>4, <3>1
  <2> QED
    BY <2>1, <2>3, <2>4
<1>q. ASSUME NEW b \in Builds, PersistArtifact(b) PROVE ReadInOrder'
  <2>1. PICK jar : jar = (IF Local(b) THEN libs ELSE out[b])[build[b].jar]
    OBVIOUS
  <2>2. PICK q : q = Ended([build[b] EXCEPT !.sha = jar], "completed")
    OBVIOUS
  <2>3. /\ build[b].at = "persisting" /\ file' = file /\ restored' = restored
        /\ \/ Local(b) /\ Update(b, q)
           \/ \E p : /\ Update(b, p) /\ ~ Local(b)
                     /\ \/ p = [build[b] EXCEPT !.sha = jar, !.at = "cleaning"]
                        \/ p = [build[b] EXCEPT !.at = "cleaning", !.result = "ARTIFACT_PERSIST_FAILED"]
           \/ End(b, "ARTIFACT_PERSIST_FAILED")
    BY <1>q, <2>1, <2>2 DEF PersistArtifact, Project
  <2>4. build[b].result = "none" /\ build[b].exit = 0 /\ build[b].process = "exited"
    BY <1>0, <2>3 DEF InOrder, Unstarted, Checked
  <2>5. CASE Local(b) /\ Update(b, q)
    <3>1. /\ q.snap = build[b].snap /\ q.compiled = build[b].compiled /\ q.approved = build[b].approved
          /\ q.at = "answered" /\ q.result = "completed"
      BY <1>0, <2>2 DEF Ended
    <3>2. \A f \in Files : build[b].compiled[f] # 0
      BY <1>0, <2>4 DEF InOrder
    <3>4. \A f \in Files : Settled(b, build[b], f, restored) => Settled(b, q, f, restored)
      BY <3>1 DEF Settled, Faithful
    <3>3. ReadAlike(b, q, file, restored)
      BY <1>0, <2>3, <2>5, <3>1, <3>2, <3>4 DEF ReadAlike
    <3> QED
      BY <1>0, <2>3, <2>5, <3>3, ReadFrame
  <2>6. ASSUME NEW p, Update(b, p), ~ Local(b),
               \/ p = [build[b] EXCEPT !.sha = jar, !.at = "cleaning"]
               \/ p = [build[b] EXCEPT !.at = "cleaning", !.result = "ARTIFACT_PERSIST_FAILED"]
        PROVE  ReadInOrder'
    <3>1. /\ p.snap = build[b].snap /\ p.compiled = build[b].compiled /\ p.approved = build[b].approved
          /\ p.at = "cleaning" /\ p.result \in {"none", "ARTIFACT_PERSIST_FAILED"}
      BY <1>0, <2>4, <2>6
    <3> QED
      BY <1>a, <2>3, <2>6, <3>1
  <2>7. CASE End(b, "ARTIFACT_PERSIST_FAILED")
    BY <1>e, <2>3, <2>7
  <2> QED
    BY <2>3, <2>5, <2>6, <2>7
<1>r. ASSUME NEW b \in Builds, CleanUp(b) PROVE ReadInOrder'
  <2>1. PICK q : q = [build[b] EXCEPT !.at = "rechecking"]
    OBVIOUS
  <2>2. build[b].at = "cleaning" /\ file' = file /\ restored' = restored
    BY <1>r DEF CleanUp, Project
  <2>3. build[b].result # "completed"
    BY <1>0, <2>2 DEF InOrder
  <2>4. Update(b, q) \/ \E result : result # "completed" /\ End(b, result)
    BY <1>r, <2>1, <2>3 DEF CleanUp, Go
  <2>5. /\ q.snap = build[b].snap /\ q.compiled = build[b].compiled /\ q.approved = build[b].approved
        /\ q.at = "rechecking" /\ q.result = build[b].result
    BY <1>0, <2>1
  <2>6. CASE Update(b, q)
    BY <1>a, <2>2, <2>3, <2>5, <2>6
  <2>7. CASE \E result : result # "completed" /\ End(b, result)
    BY <1>e, <2>2, <2>7
  <2> QED
    BY <2>4, <2>6, <2>7
<1>s. ASSUME NEW b \in Builds, AssertUnchanged(b) PROVE ReadInOrder'
  <2>1. build[b].at \in Checked /\ build[b].at # "selecting" /\ file' = file /\ restored' = restored
    BY <1>s DEF AssertUnchanged, Project, Checked
  <2>2. /\ build[b].result = "none" /\ build[b].exit = 0 /\ build[b].process = "exited"
    BY <1>0, <2>1 DEF InOrder, Unstarted, Checked
  <2>3. \A f \in Files : build[b].compiled[f] # 0
    BY <1>0, <2>2 DEF InOrder
  \* Read, compiled and there again: it is the version of the snapshot.
  <2>4. ASSUME NEW f \in Files, AsInSnapshot(b, f, file[f]) PROVE Settled(b, build[b], f, restored)
    BY <1>0, <1>1, <2>1, <2>4 DEF ReadAlike, AsInSnapshot, Checked
  <2>5. PICK q, p : /\ q = [build[b] EXCEPT !.at = "rechecking_on"]
                    /\ p = [build[b] EXCEPT !.at = "selecting"]
    OBVIOUS
  <2>6. \/ End(b, "SOURCE_CHANGED_DURING_BUILD")
        \/ Update(b, q) /\ AsInSnapshot(b, "wrapper", file["wrapper"])
        \/ /\ build[b].at = "rechecking_on" /\ AsInSnapshot(b, "source", file["source"])
           /\ Update(b, p) \/ End(b, "completed")
    BY <1>s, <2>5 DEF AssertUnchanged, Go, Walk
  <2>7. CASE End(b, "SOURCE_CHANGED_DURING_BUILD")
    BY <1>e, <2>1, <2>7
  <2>8. CASE Update(b, q) /\ AsInSnapshot(b, "wrapper", file["wrapper"])
    <3>1. /\ q.snap = build[b].snap /\ q.compiled = build[b].compiled /\ q.approved = build[b].approved
          /\ q.at = "rechecking_on" /\ q.result = "none"
      BY <1>0, <2>2, <2>5
    <3>4. Settled(b, build[b], "wrapper", restored)
      BY <2>4, <2>8, TheFiles
    <3>2. \A f \in Files : Settled(b, build[b], f, restored) => Settled(b, q, f, restored)
      BY <3>1 DEF Settled, Faithful
    <3>3. ReadAlike(b, q, file, restored)
      BY <1>0, <2>1, <3>1, <3>2, <3>4, TheFiles DEF ReadAlike, Checked
    <3> QED
      BY <1>0, <2>1, <2>8, <3>3, ReadFrame
  <2>9. CASE /\ build[b].at = "rechecking_on" /\ AsInSnapshot(b, "source", file["source"])
             /\ Update(b, p) \/ End(b, "completed")
    <3>2. \A f \in Files : Settled(b, build[b], f, restored)
      BY <1>0, <2>4, <2>9, TheFiles DEF ReadAlike
    <3>3. PICK e : e = Ended(build[b], "completed")
      OBVIOUS
    <3>4. /\ p.snap = build[b].snap /\ p.compiled = build[b].compiled /\ p.approved = build[b].approved
          /\ p.at = "selecting" /\ p.result = "none"
      BY <1>0, <2>2, <2>5
    <3>5. /\ e.snap = build[b].snap /\ e.compiled = build[b].compiled /\ e.approved = build[b].approved
          /\ e.at = "answered" /\ e.result = "completed"
      BY <1>0, <3>3 DEF Ended
    <3>8. \A f \in Files : Settled(b, p, f, restored) /\ Settled(b, e, f, restored)
      BY <3>2, <3>4, <3>5 DEF Settled, Faithful
    <3>6. ReadAlike(b, p, file, restored)
      BY <1>0, <2>9, <3>8, <3>4 DEF ReadAlike
    <3>7. ReadAlike(b, e, file, restored)
      BY <1>0, <2>3, <2>9, <3>8, <3>5 DEF ReadAlike
    <3> QED
      BY <1>0, <2>1, <2>9, <3>3, <3>6, <3>7, ReadFrame DEF End
  <2> QED
    BY <2>6, <2>7, <2>8, <2>9
<1>x. CASE UNCHANGED vars
  BY <1>0, <1>x DEF vars, ReadInOrder
<1> QED
  BY <1>c, <1>d, <1>f, <1>h, <1>i, <1>k, <1>l, <1>n, <1>o, <1>p, <1>q, <1>r, <1>s, <1>x
  DEF Next, Step, Done

-----------------------------------------------------------------------------
(* What each step makes of its build's record.                             *)
Failed(q) == q.at = "answered" /\ q.result = "failed" /\ q.process = "none"
Like(q, r) == /\ q.backend = r.backend /\ q.mode = r.mode /\ q.compiled = r.compiled
              /\ q.process = r.process /\ q.exit = r.exit
Ready == TypeOK /\ CallsInOrder

(* What the invariant says of one build.                                   *)
LEMMA ReadyBuild ==
  ASSUME Ready, NEW b \in Builds
  PROVE  build[b] \in Calls /\ InOrder(build[b], b \in work)
BY DEF Ready, TypeOK, CallsInOrder

(* A build that is ended has failed, or goes on to its last check.         *)
LEMMA EndedRecord ==
  ASSUME NEW r \in Calls, NEW result
  PROVE  /\ result # "completed" /\ r.process # "running" => Failed(Ended(r, result))
         /\ result = "completed" =>
              \E q : /\ q = Ended(r, result)
                     /\ q.at = "answered" /\ q.result = "completed" /\ q.process = "none"
                     /\ q.sha = r.sha /\ q.id = r.id /\ q.compiled = r.compiled
                     /\ q.mode = r.mode /\ q.backend = r.backend
<1>1. ASSUME result # "completed", r.process # "running" PROVE Failed(Ended(r, result))
  BY <1>1 DEF Ended, Fresh, Calls, Failed
<1>2. PICK q : q = [r EXCEPT !.at = "answered", !.result = "completed", !.process = "none"]
  OBVIOUS
<1>3. /\ q.at = "answered" /\ q.result = "completed" /\ q.process = "none"
      /\ q.sha = r.sha /\ q.id = r.id /\ q.compiled = r.compiled
      /\ q.mode = r.mode /\ q.backend = r.backend
  BY <1>2 DEF Calls
<1>4. result = "completed" => q = Ended(r, result)
  BY <1>2 DEF Ended
<1> QED
  BY <1>1, <1>3, <1>4

(* With any result but `completed' it has failed.                          *)
LEMMA EndFails ==
  ASSUME Ready, NEW b \in Builds, NEW result, result # "completed", End(b, result), build[b].process # "running"
  PROVE  \E q : Update(b, q) /\ Failed(q)
BY EndedRecord, ReadyBuild DEF End

(* What the steps before the start make of a build.                        *)
LEMMA EarlySteps ==
  ASSUME Ready, NEW b \in Builds, Request(b) \/ CollectEntry(b) \/ Validate(b)
  PROVE  /\ UNCHANGED <<libs, out, store, shared>>
         /\ \E q : /\ Update(b, q)
                   /\ \/ Failed(q)
                      \/ q.at \in {"snapshot", "validating", "starting"} /\ q.result = "none" /\ q.process = "none"
<1>1. /\ build[b].at \in {"idle", "snapshot", "validating"} /\ UNCHANGED <<libs, out, store, shared>>
  BY DEF Request, CollectEntry, Validate, At
<1>2. build[b].result = "none" /\ build[b].process = "none"
  BY <1>1, ReadyBuild DEF InOrder, Unstarted
<1>3. CASE Request(b)
  <2>1. CASE End(b, "BACKEND_UNAVAILABLE")
    BY <1>1, <1>2, <2>1, EndFails
  <2>2. CASE \E backend, mode, network :
               Update(b, [build[b] EXCEPT !.backend = backend, !.mode = mode, !.network = network, !.at = "snapshot"])
    <3>1. PICK backend, mode, network, q :
               /\ Update(b, q)
               /\ q = [build[b] EXCEPT !.backend = backend, !.mode = mode, !.network = network, !.at = "snapshot"]
      BY <2>2
    <3>2. q.at = "snapshot" /\ q.result = "none" /\ q.process = "none"
      BY <1>2, <3>1, ReadyBuild DEF Calls
    <3> QED
      BY <1>1, <3>1, <3>2
  <2> QED
    BY <1>3, <2>1, <2>2 DEF Request
<1>4. CASE CollectEntry(b)
  <2>1. CASE End(b, "thrown")
    BY <1>1, <1>2, <2>1, EndFails
  <2>2. CASE \E snap, at : /\ at = "snapshot" \/ at = "validating"
                           /\ Update(b, [build[b] EXCEPT !.snap = snap, !.at = at])
    <3>1. PICK snap, at, q : /\ at = "snapshot" \/ at = "validating"
                             /\ Update(b, q) /\ q = [build[b] EXCEPT !.snap = snap, !.at = at]
      BY <2>2
    <3>2. q.at = at /\ q.result = "none" /\ q.process = "none"
      BY <1>2, <3>1, ReadyBuild DEF Calls
    <3> QED
      BY <1>1, <3>1, <3>2
  <2> QED
    BY <1>4, <2>1, <2>2 DEF CollectEntry, At
<1>5. CASE Validate(b)
  <2>1. CASE End(b, "validation")
    BY <1>1, <1>2, <2>1, EndFails
  <2>2. CASE \E q : Update(b, q) /\ q = [build[b] EXCEPT !.at = "starting", !.approved = file["wrapper"]]
    <3>1. PICK q : Update(b, q) /\ q = [build[b] EXCEPT !.at = "starting", !.approved = file["wrapper"]]
      BY <2>2
    <3>2. q.at = "starting" /\ q.result = "none" /\ q.process = "none"
      BY <1>2, <3>1, ReadyBuild DEF Calls
    <3> QED
      BY <1>1, <3>1, <3>2
  <2> QED
    BY <1>5, <2>1, <2>2 DEF Validate
<1> QED
  BY <1>3, <1>4, <1>5

(* What the start of its process makes of it.                              *)
LEMMA StartSteps ==
  ASSUME Ready, NEW b \in Builds, RunLocal(b) \/ RunContainer(b)
  PROVE  /\ UNCHANGED <<libs, store>> /\ build[b].at = "starting"
         /\ \E q : /\ Update(b, q)
                   /\ \/ /\ q.at = "cleaning" /\ q.result = "thrown" /\ q.process = "none"
                         /\ UNCHANGED <<out, shared>>
                      \/ /\ q.at = "running" /\ q.result = "none" /\ q.process = "running"
                         /\ q.compiled = Nothing /\ q.backend = build[b].backend
                         /\ IF Local(b)
                            THEN /\ shared' = shared \cup {c \in Builds \ {b} : Waiting(c)}
                                                     \cup {c \in {b} : \E d \in Builds \ {b} : InProject(d)}
                                 /\ out' = out
                            ELSE shared' = shared /\ \A c \in Builds \ {b} : out'[c] = out[c]
<1>1. UNCHANGED <<libs, store>> /\ build[b].at = "starting"
  BY DEF RunLocal, RunContainer, At
<1>2. build[b].result = "none" /\ build[b].process = "none" /\ build[b].compiled = Nothing
  BY <1>1, ReadyBuild DEF InOrder, Unstarted
<1>3. PICK q, p : /\ q = [build[b] EXCEPT !.at = "cleaning", !.result = "thrown"]
                  /\ p = [build[b] EXCEPT !.at = "running", !.process = "running"]
  OBVIOUS
<1>4. /\ q.at = "cleaning" /\ q.result = "thrown" /\ q.process = "none"
      /\ p.at = "running" /\ p.result = "none" /\ p.process = "running"
      /\ p.compiled = Nothing /\ p.backend = build[b].backend
  BY <1>2, <1>3, ReadyBuild DEF Calls
<1>5. CASE RunLocal(b)
  <2>1. CASE Update(b, q) /\ shared' = shared
    BY <1>1, <1>4, <1>5, <2>1 DEF RunLocal
  <2>2. CASE /\ Update(b, p)
             /\ shared' = shared \cup {c \in Builds \ {b} : Waiting(c)}
                                 \cup {c \in {b} : \E d \in Builds \ {b} : InProject(d)}
    BY <1>1, <1>4, <1>5, <2>2 DEF RunLocal
  <2> QED
    BY <1>3, <1>5, <2>1, <2>2 DEF RunLocal
<1>6. CASE RunContainer(b)
  BY <1>1, <1>3, <1>4, <1>6 DEF RunContainer, Ready, TypeOK
<1> QED
  BY <1>5, <1>6

(* What its process, or the time-out, makes of it.                         *)
LEMMA RunningSteps ==
  ASSUME Ready, NEW b \in Builds,
         Compile(b) \/ Succeed(b) \/ Fail(b) \/ TimedOut(b) \/ ExitLocal(b) \/ ExitContainer(b)
  PROVE  /\ UNCHANGED <<store, shared>> /\ build[b].at = "running" /\ build[b].result = "none"
         /\ \A c \in Builds \ {b} : out'[c] = out[c]
         /\ ~ InProject(b) => libs' = libs
         /\ \E q : /\ Update(b, q) /\ q.result = "none"
                   /\ q.backend = build[b].backend /\ q.mode = build[b].mode
                   /\ \/ q.at = "running"
                      \/ q.at = "cleaning" /\ Local(b)
                      \/ q.at = "collecting" /\ ~ Local(b)
                   /\ q.process = "running" => build[b].process = "running"
                   /\ \/ Compile(b) /\ q.process = "running"
                      \/ Succeed(b) /\ q.process = "exited" /\ q.compiled = build[b].compiled
                      \/ /\ UNCHANGED <<libs, out>>
                         /\ \/ /\ q.exit = 1
                               /\ q.process = "running" => q.compiled = build[b].compiled
                            \/ /\ q.compiled = build[b].compiled /\ q.process = build[b].process
                               /\ q.exit = build[b].exit
<1>1. UNCHANGED <<store, shared>>
  BY DEF Compile, Succeed, Fail, TimedOut, ExitLocal, ExitContainer
<1>2. build[b].at = "running" \/ build[b].process = "running"
  BY DEF Compile, Succeed, Fail, TimedOut, ExitLocal, ExitContainer, At
<1>3. build[b].at = "running" /\ build[b].result = "none"
  BY <1>2, ReadyBuild DEF InOrder, Unstarted
<1>4. build[b] \in Calls /\ out \in [Builds -> Jars]
  BY ReadyBuild DEF Ready, TypeOK
<1>5. CASE Compile(b)
  <2>1. PICK compiled, q : Update(b, q) /\ q = [build[b] EXCEPT !.compiled = compiled]
    BY <1>5 DEF Compile
  <2>2. /\ q.result = "none" /\ q.backend = build[b].backend /\ q.mode = build[b].mode
        /\ q.at = "running" /\ q.process = build[b].process
    BY <1>3, <1>4, <2>1 DEF Calls
  <2> QED
    BY <1>1, <1>3, <1>4, <1>5, <2>1, <2>2 DEF Compile, InProject
<1>6. CASE Succeed(b)
  <2>1. PICK q : Update(b, q) /\ q = [build[b] EXCEPT !.process = "exited"]
    BY <1>6 DEF Succeed
  <2>2. /\ q.result = "none" /\ q.backend = build[b].backend /\ q.mode = build[b].mode
        /\ q.at = "running" /\ q.process = "exited" /\ q.compiled = build[b].compiled /\ q.exit = build[b].exit
    BY <1>3, <1>4, <2>1 DEF Calls
  <2> QED
    BY <1>1, <1>3, <1>4, <1>6, <2>1, <2>2 DEF Succeed, InProject
<1>7. CASE Fail(b)
  <2>1. PICK q : Update(b, q) /\ q = [build[b] EXCEPT !.process = "exited", !.exit = 1, !.compiled = Nothing]
    BY <1>7 DEF Fail
  <2>2. /\ q.result = "none" /\ q.backend = build[b].backend /\ q.mode = build[b].mode
        /\ q.at = "running" /\ q.process = "exited" /\ q.exit = 1
    BY <1>3, <1>4, <2>1 DEF Calls
  <2> QED
    BY <1>1, <1>3, <1>7, <2>1, <2>2 DEF Fail
<1>8. CASE TimedOut(b)
  <2>1. PICK killed \in BOOLEAN : killed = (build[b].process = "running")
    OBVIOUS
  <2>2. Update(b, [build[b] EXCEPT !.timedOut = TRUE,
                     !.exit = IF killed THEN 1 ELSE build[b].exit,
                     !.compiled = IF killed /\ Local(b) THEN Nothing ELSE build[b].compiled,
                     !.process = IF killed /\ Local(b) THEN "exited" ELSE build[b].process])
    BY <1>8, <2>1 DEF TimedOut
  <2>3. CASE killed /\ Local(b)
    <3>1. PICK q : /\ Update(b, q)
                   /\ q = [build[b] EXCEPT !.timedOut = TRUE, !.exit = 1, !.compiled = Nothing, !.process = "exited"]
      BY <2>2, <2>3
    <3>2. /\ q.result = "none" /\ q.backend = build[b].backend /\ q.mode = build[b].mode
          /\ q.at = "running" /\ q.process = "exited" /\ q.exit = 1
      BY <1>3, <1>4, <3>1 DEF Calls
    <3> QED
      BY <1>1, <1>3, <1>8, <3>1, <3>2 DEF TimedOut
  <2>4. CASE ~ (killed /\ Local(b))
    <3>1. PICK exit, q :
            /\ Update(b, q) /\ exit \in {1, build[b].exit}
            /\ q = [build[b] EXCEPT !.timedOut = TRUE, !.exit = exit,
                                    !.compiled = build[b].compiled, !.process = build[b].process]
      BY <2>2, <2>4
    <3>2. /\ q.result = "none" /\ q.backend = build[b].backend /\ q.mode = build[b].mode
          /\ q.at = "running" /\ q.process = build[b].process /\ q.exit = exit
          /\ q.compiled = build[b].compiled
      BY <1>3, <1>4, <3>1 DEF Calls
    <3> QED
      BY <1>1, <1>3, <1>8, <3>1, <3>2 DEF TimedOut
  <2> QED
    BY <2>3, <2>4
<1>9. CASE ExitLocal(b)
  <2>1. PICK q : Update(b, q) /\ q = [build[b] EXCEPT !.at = "cleaning"]
    BY <1>9 DEF ExitLocal, Go
  <2>2. /\ q.result = "none" /\ q.backend = build[b].backend /\ q.mode = build[b].mode /\ q.at = "cleaning"
        /\ q.compiled = build[b].compiled /\ q.process = build[b].process /\ q.exit = build[b].exit
    BY <1>3, <1>4, <2>1 DEF Calls
  <2> QED
    BY <1>1, <1>3, <1>9, <2>1, <2>2 DEF ExitLocal
<1>10. CASE ExitContainer(b)
  <2>1. PICK end, q :
          /\ Update(b, q) /\ q = [build[b] EXCEPT !.at = "collecting", !.process = end]
          /\ \/ end = build[b].process /\ end # "running"
             \/ build[b].timedOut /\ build[b].process = "running" /\ end # "running"
    BY <1>10 DEF ExitContainer, Removed
  <2>2. /\ q.result = "none" /\ q.backend = build[b].backend /\ q.mode = build[b].mode /\ q.at = "collecting"
        /\ q.compiled = build[b].compiled /\ q.process = end /\ q.exit = build[b].exit
    BY <1>3, <1>4, <2>1 DEF Calls
  <2>3. build[b].timedOut /\ build[b].process = "running" => build[b].exit = 1
    BY ReadyBuild DEF InOrder
  <2> QED
    BY <1>1, <1>3, <1>10, <2>1, <2>2, <2>3 DEF ExitContainer
<1> QED
  BY <1>5, <1>6, <1>7, <1>8, <1>9, <1>10

(* What the search for its artifact makes of it.                           *)
LEMMA TakingSteps ==
  ASSUME Ready, NEW b \in Builds, CollectArtifact(b) \/ SelectArtifact(b)
  PROVE  /\ UNCHANGED <<libs, out, store, shared>> /\ build[b].result = "none"
         /\ build[b].at = IF Local(b) THEN "selecting" ELSE "collecting"
         /\ \E q : /\ Update(b, q)
                   /\ \/ Failed(q)
                      \/ /\ q.at = "cleaning" /\ q.backend = build[b].backend /\ ~ Local(b)
                         /\ q.process # "running"
                         /\ q.result = "thrown" \/ (q.result = "none" /\ q.exit # 0)
                      \/ /\ q.at = "persisting" /\ q.result = "none" /\ Like(q, build[b])
                         /\ build[b].process = "exited" /\ build[b].exit = 0 /\ q.jar \in JarNames
                         /\ q.id = Output(b)[q.jar] /\ Candidates(Output(b)) = {q.jar}
<1>1. UNCHANGED <<libs, out, store, shared>> /\ build[b].at \in {"selecting", "collecting"}
  BY DEF CollectArtifact, SelectArtifact, At
<1>2. /\ build[b].at = IF Local(b) THEN "selecting" ELSE "collecting"
      /\ build[b].result = "none" /\ build[b].process # "running"
  BY <1>1, ReadyBuild DEF InOrder, Local, Unstarted
<1>3. build[b] \in Calls
  BY ReadyBuild
<1>4. ASSUME Selected(b, Output(b)), build[b].exit = 0
      PROVE  \E q : /\ Update(b, q) /\ q.at = "persisting" /\ q.result = "none" /\ Like(q, build[b])
                    /\ build[b].process = "exited" /\ build[b].exit = 0 /\ q.jar \in JarNames
                    /\ q.id = Output(b)[q.jar] /\ Candidates(Output(b)) = {q.jar}
  <2>1. PICK j, q : /\ Candidates(Output(b)) = {j}
                    /\ Update(b, q) /\ q = [build[b] EXCEPT !.jar = j, !.id = Output(b)[j], !.at = "persisting"]
    BY <1>4 DEF Selected
  <2>2. j \in JarNames
    BY <2>1 DEF Candidates
  <2>3. q.at = "persisting" /\ q.result = "none" /\ Like(q, build[b]) /\ q.jar = j /\ q.id = Output(b)[j]
    BY <1>2, <1>3, <2>1 DEF Calls, Like
  <2>4. build[b].process = "exited"
    BY <1>2, <1>4, ReadyBuild DEF InOrder, Unstarted
  <2> QED
    BY <1>4, <2>1, <2>2, <2>3, <2>4
<1>5. CASE CollectArtifact(b)
  <2>1. build[b].at = "collecting" /\ ~ Local(b) /\ Output(b) = out[b]
    BY <1>2, <1>5 DEF CollectArtifact, At, Output
  <2>2. PICK q, p : /\ q = [build[b] EXCEPT !.at = "cleaning"]
                    /\ p = [build[b] EXCEPT !.at = "cleaning", !.result = "thrown"]
    OBVIOUS
  <2>3. /\ q.at = "cleaning" /\ q.backend = build[b].backend /\ q.process # "running" /\ q.result = "none"
        /\ q.exit = build[b].exit
        /\ p.at = "cleaning" /\ p.backend = build[b].backend /\ p.process # "running" /\ p.result = "thrown"
    BY <1>2, <1>3, <2>2 DEF Calls
  <2>4. CASE build[b].exit # 0 /\ Update(b, q)
    BY <1>1, <1>2, <2>1, <2>3, <2>4
  <2>5. CASE Update(b, p)
    BY <1>1, <1>2, <2>1, <2>3, <2>5
  <2>6. CASE build[b].exit = 0 /\ Selected(b, out[b])
    BY <1>1, <1>2, <1>4, <2>1, <2>6
  <2> QED
    BY <1>5, <2>2, <2>4, <2>5, <2>6 DEF CollectArtifact, Go
<1>6. CASE SelectArtifact(b)
  <2>1. build[b].at = "selecting" /\ Local(b) /\ Output(b) = libs /\ build[b].exit = 0
    BY <1>2, <1>6, ReadyBuild DEF SelectArtifact, At, Output, InOrder, Checked
  <2>2. CASE Selected(b, libs)
    BY <1>1, <1>2, <1>4, <2>1, <2>2
  <2>3. CASE \E result : result # "completed" /\ End(b, result)
    BY <1>1, <1>2, <2>3, EndFails
  <2> QED
    BY <1>6, <2>2, <2>3 DEF SelectArtifact
<1> QED
  BY <1>5, <1>6

(* What the copy into the store makes of it and of the store.              *)
LEMMA PersistSteps ==
  ASSUME Ready, NEW b \in Builds, PersistArtifact(b)
  PROVE  /\ UNCHANGED <<libs, out, shared>> /\ build[b].at = "persisting" /\ build[b].result = "none"
         /\ \E q : /\ Update(b, q)
                   /\ \/ Failed(q) /\ store' = store
                      \/ /\ q.at = "cleaning" /\ q.result = "ARTIFACT_PERSIST_FAILED" /\ ~ Local(b)
                         /\ q.backend = build[b].backend /\ q.process # "running" /\ store' = store
                      \/ /\ IF Local(b) THEN q.at = "answered" /\ q.result = "completed"
                                             /\ q.process = "none"
                                        ELSE q.at = "cleaning" /\ q.result = "none" /\ q.process = "exited"
                         /\ q.backend = build[b].backend
                         /\ q.mode = build[b].mode /\ q.compiled = build[b].compiled
                         /\ q.id = build[b].id /\ q.sha = Output(b)[build[b].jar] /\ q.sha # Nothing
                         /\ store' = [store EXCEPT ![b] = q.sha]
<1>1. UNCHANGED <<libs, out, shared>> /\ build[b].at = "persisting"
  BY DEF PersistArtifact, At
<1>2. build[b].result = "none" /\ build[b].exit = 0 /\ build[b].process = "exited"
  BY <1>1, ReadyBuild DEF InOrder, Unstarted, Checked
<1>3. build[b] \in Calls /\ Output(b) \in Jars
  BY ReadyBuild DEF Ready, TypeOK, Output
<1>4. PICK jar : jar = Output(b)[build[b].jar]
  OBVIOUS
<1>5. jar \in Contents
  BY <1>3, <1>4 DEF Jars, Calls
<1>6. PICK k, p, q : /\ k = [build[b] EXCEPT !.sha = jar]
                     /\ p = [build[b] EXCEPT !.sha = jar, !.at = "cleaning"]
                     /\ q = [build[b] EXCEPT !.at = "cleaning", !.result = "ARTIFACT_PERSIST_FAILED"]
  OBVIOUS
<1>7. /\ k \in Calls /\ k.sha = jar /\ k.id = build[b].id /\ k.backend = build[b].backend
      /\ k.mode = build[b].mode /\ k.compiled = build[b].compiled
  BY <1>3, <1>5, <1>6 DEF Calls
<1>8. /\ p.at = "cleaning" /\ p.result = "none" /\ p.process = "exited" /\ p.backend = build[b].backend
      /\ p.mode = build[b].mode /\ p.compiled = build[b].compiled /\ p.id = build[b].id /\ p.sha = jar
  BY <1>2, <1>3, <1>6 DEF Calls
<1>9. /\ q.at = "cleaning" /\ q.result = "ARTIFACT_PERSIST_FAILED" /\ q.backend = build[b].backend
      /\ q.process # "running"
  BY <1>2, <1>3, <1>6 DEF Calls
<1>10. \/ End(b, "ARTIFACT_PERSIST_FAILED") /\ store' = store
       \/ ~ Local(b) /\ Update(b, q) /\ store' = store
       \/ ~ Local(b) /\ Update(b, p) /\ store' = [store EXCEPT ![b] = jar] /\ jar # Nothing
       \/ Local(b) /\ Update(b, Ended(k, "completed")) /\ store' = [store EXCEPT ![b] = jar] /\ jar # Nothing
  BY <1>4, <1>6 DEF PersistArtifact, Output
<1>11. CASE End(b, "ARTIFACT_PERSIST_FAILED") /\ store' = store
  BY <1>1, <1>2, <1>11, EndFails
<1>12. CASE ~ Local(b) /\ Update(b, q) /\ store' = store
  BY <1>1, <1>2, <1>9, <1>12
<1>13. CASE ~ Local(b) /\ Update(b, p) /\ store' = [store EXCEPT ![b] = jar] /\ jar # Nothing
  BY <1>1, <1>2, <1>4, <1>8, <1>13
<1>14. CASE Local(b) /\ Update(b, Ended(k, "completed")) /\ store' = [store EXCEPT ![b] = jar] /\ jar # Nothing
  <2>1. PICK e : /\ e = Ended(k, "completed")
                 /\ e.at = "answered" /\ e.result = "completed" /\ e.process = "none"
                 /\ e.sha = k.sha /\ e.id = k.id /\ e.compiled = k.compiled
                 /\ e.mode = k.mode /\ e.backend = k.backend
    BY <1>7, EndedRecord
  <2> QED
    BY <1>1, <1>2, <1>4, <1>7, <1>14, <2>1
<1> QED
  BY <1>10, <1>11, <1>12, <1>13, <1>14

(* What the cleaning up and the last check make of it.                     *)
LEMMA ClosingSteps ==
  ASSUME Ready, NEW b \in Builds, CleanUp(b) \/ AssertUnchanged(b)
  PROVE  /\ UNCHANGED <<libs, store, shared>>
         /\ \A c \in Builds \ {b} : out'[c] = out[c]
         /\ build[b].at \in {"cleaning", "rechecking", "rechecking_on"}
         /\ \E q : /\ Update(b, q)
                   /\ \/ Failed(q)
                      \/ /\ q.backend = build[b].backend /\ q.sha = build[b].sha /\ q.id = build[b].id
                         /\ q.compiled = build[b].compiled /\ q.mode = build[b].mode
                         /\ build[b].result = "none" /\ build[b].exit = 0
                         /\ \/ /\ q.result = "none" /\ Like(q, build[b])
                               /\ \/ q.at \in {"rechecking", "rechecking_on"}
                                  \/ q.at = "selecting" /\ Local(b)
                            \/ q.at = "answered" /\ q.result = "completed" /\ q.process = "none" /\ ~ Local(b)
<1>1. /\ UNCHANGED <<libs, store, shared>> /\ build[b].at \in {"cleaning", "rechecking", "rechecking_on"}
      /\ \A c \in Builds \ {b} : out'[c] = out[c]
  BY DEF CleanUp, AssertUnchanged, At, Ready, TypeOK
<1>2. build[b] \in Calls /\ build[b].process # "running" /\ build[b].result # "completed"
  BY <1>1, ReadyBuild DEF InOrder, Unstarted
<1>3. build[b].at # "cleaning" => build[b].result = "none" /\ build[b].exit = 0
  BY <1>1, ReadyBuild DEF InOrder, Checked
<1>4. ASSUME NEW q, NEW place, q = [build[b] EXCEPT !.at = place]
      PROVE  /\ q.at = place /\ q.result = build[b].result /\ Like(q, build[b])
             /\ q.backend = build[b].backend /\ q.sha = build[b].sha /\ q.id = build[b].id
             /\ q.compiled = build[b].compiled /\ q.mode = build[b].mode
  BY <1>2, <1>4 DEF Calls, Like
<1>5. \/ \E result : result # "completed" /\ End(b, result)
      \/ \E place : /\ Update(b, [build[b] EXCEPT !.at = place])
                    /\ build[b].result = "none" /\ build[b].exit = 0
                    /\ \/ place \in {"rechecking", "rechecking_on"}
                       \/ place = "selecting" /\ Local(b)
      \/ /\ End(b, "completed") /\ ~ Local(b)
         /\ build[b].result = "none" /\ build[b].exit = 0
  <2>1. CASE CleanUp(b)
    BY <1>2, <2>1 DEF CleanUp, Go
  <2>2. CASE AssertUnchanged(b)
    BY <1>3, <2>2 DEF AssertUnchanged, Go, At
  <2> QED
    BY <2>1, <2>2
<1>6. CASE \E result : result # "completed" /\ End(b, result)
  BY <1>1, <1>2, <1>6, EndFails
<1>7. CASE \E place : /\ Update(b, [build[b] EXCEPT !.at = place])
                      /\ build[b].result = "none" /\ build[b].exit = 0
                      /\ \/ place \in {"rechecking", "rechecking_on"}
                         \/ place = "selecting" /\ Local(b)
  <2>1. PICK place, q : /\ Update(b, q) /\ q = [build[b] EXCEPT !.at = place]
                        /\ build[b].result = "none" /\ build[b].exit = 0
                        /\ \/ place \in {"rechecking", "rechecking_on"}
                           \/ place = "selecting" /\ Local(b)
    BY <1>7
  <2>2. /\ q.at = place /\ q.result = "none" /\ Like(q, build[b])
        /\ q.backend = build[b].backend /\ q.sha = build[b].sha /\ q.id = build[b].id
        /\ q.compiled = build[b].compiled /\ q.mode = build[b].mode
    BY <1>4, <2>1
  <2> QED
    BY <1>1, <2>1, <2>2
<1>8. CASE /\ End(b, "completed") /\ ~ Local(b)
           /\ build[b].result = "none" /\ build[b].exit = 0
  <2>1. PICK e : /\ e = Ended(build[b], "completed")
                 /\ e.at = "answered" /\ e.result = "completed" /\ e.process = "none"
                 /\ e.sha = build[b].sha /\ e.id = build[b].id /\ e.compiled = build[b].compiled
                 /\ e.mode = build[b].mode /\ e.backend = build[b].backend
    BY <1>2, EndedRecord
  <2> QED
    BY <1>1, <1>8, <2>1 DEF End
<1> QED
  BY <1>5, <1>6, <1>7, <1>8

-----------------------------------------------------------------------------
(* A copy that the build counts on is the one in the store.                *)
LEMMA StoreStep == Ready /\ StoreMatches /\ [Next]_vars => StoreMatches'
<1> SUFFICES ASSUME Ready, StoreMatches, [Next]_vars PROVE StoreMatches'
  OBVIOUS
<1>0. TypeOK
  BY DEF Ready
\* One build moves, the store is as it was: its copy is no more counted on than before.
<1>a. ASSUME NEW b \in Builds, NEW q, Update(b, q), store' = store, Kept(b)' => Kept(b) /\ q.sha = build[b].sha
      PROVE  StoreMatches'
  <2>1. ASSUME NEW c \in Builds \ {b} PROVE Kept(c)' => store'[c] = build'[c].sha /\ store'[c] # Nothing
    BY <1>0, <1>a, OthersStay DEF StoreMatches, Kept, At, Local
  <2>2. Kept(b)' => store'[b] = build'[b].sha /\ store'[b] # Nothing
    BY <1>0, <1>a, OthersStay DEF StoreMatches
  <2> QED
    BY <2>1, <2>2 DEF StoreMatches
<1>b. ASSUME NEW b \in Builds, NEW q, Update(b, q), store' = store, q.result # "completed",
             \/ q.at \notin {"cleaning", "rechecking", "rechecking_on"}
             \/ q.at = "cleaning" /\ (q.result # "none" \/ q.exit # 0 \/ q.backend = "trusted-local")
      PROVE  StoreMatches'
  <2>1. ~ Kept(b)'
    BY <1>0, <1>b, OthersStay DEF Kept, At, Local
  <2> QED
    BY <1>a, <1>b, <2>1
<1>c. ASSUME NEW f \in Files, Edit(f) PROVE StoreMatches'
  BY <1>0, <1>c DEF Edit, StoreMatches, Kept, At, Local
<1>d. ASSUME NEW b \in Builds, Request(b) \/ CollectEntry(b) \/ Validate(b) PROVE StoreMatches'
  BY <1>b, <1>d, EarlySteps DEF Failed
<1>e. ASSUME NEW b \in Builds, RunLocal(b) \/ RunContainer(b) PROVE StoreMatches'
  BY <1>b, <1>e, StartSteps
<1>f. ASSUME NEW b \in Builds,
             Compile(b) \/ Succeed(b) \/ Fail(b) \/ TimedOut(b) \/ ExitLocal(b) \/ ExitContainer(b)
      PROVE  StoreMatches'
  BY <1>b, <1>f, RunningSteps DEF Local
<1>g. ASSUME NEW b \in Builds, CollectArtifact(b) \/ SelectArtifact(b) PROVE StoreMatches'
  BY <1>b, <1>g, TakingSteps DEF Failed
<1>h. ASSUME NEW b \in Builds, PersistArtifact(b) PROVE StoreMatches'
  <2>1. PICK q : /\ Update(b, q)
                 /\ \/ store' = store /\ q.at = "answered" /\ q.result = "failed"
                    \/ store' = store /\ q.at = "cleaning" /\ q.result = "ARTIFACT_PERSIST_FAILED"
                    \/ store' = [store EXCEPT ![b] = q.sha] /\ q.sha # Nothing
    BY <1>h, PersistSteps DEF Failed
  <2>2. CASE store' = [store EXCEPT ![b] = q.sha] /\ q.sha # Nothing
    <3>1. store'[b] = build'[b].sha /\ store'[b] # Nothing
      BY <1>0, <2>1, <2>2, OthersStay DEF TypeOK
    <3>2. ASSUME NEW c \in Builds \ {b}, Kept(c)' PROVE store'[c] = build'[c].sha /\ store'[c] # Nothing
      BY <1>0, <2>1, <2>2, <3>2, OthersStay DEF TypeOK, StoreMatches, Kept, At, Local
    <3> QED
      BY <3>1, <3>2 DEF StoreMatches
  <2> QED
    BY <1>b, <2>1, <2>2
<1>i. ASSUME NEW b \in Builds, CleanUp(b) \/ AssertUnchanged(b) PROVE StoreMatches'
  <2>1. PICK q : /\ Update(b, q) /\ store' = store
                 /\ build[b].at \in {"cleaning", "rechecking", "rechecking_on"}
                 /\ \/ q.at = "answered" /\ q.result = "failed"
                    \/ q.at = "selecting" /\ q.result = "none"
                    \/ /\ q.sha = build[b].sha /\ q.backend = build[b].backend
                       /\ build[b].result = "none" /\ build[b].exit = 0
                       /\ \/ q.at \in {"rechecking", "rechecking_on"} /\ q.result = "none"
                          \/ q.result = "completed" /\ ~ Local(b)
    BY <1>i, ClosingSteps DEF Failed
  <2>2. CASE /\ q.sha = build[b].sha /\ q.backend = build[b].backend
             /\ build[b].result = "none" /\ build[b].exit = 0
             /\ \/ q.at \in {"rechecking", "rechecking_on"} /\ q.result = "none"
                \/ q.result = "completed" /\ ~ Local(b)
    <3>1. Kept(b)' => Kept(b)
      BY <1>0, <2>1, <2>2, OthersStay DEF Kept, At, Local
    <3> QED
      BY <1>a, <2>1, <2>2, <3>1
  <2> QED
    BY <1>b, <2>1, <2>2
<1>x. CASE UNCHANGED vars
  BY <1>0, <1>x DEF vars, StoreMatches, Kept, At, Local
<1> QED
  BY <1>c, <1>d, <1>e, <1>f, <1>g, <1>h, <1>i, <1>x DEF Next, Step, Done

-----------------------------------------------------------------------------
(* Nobody else writes in the project of a build that is not shared.        *)
LEMMA AloneStep == Ready /\ Alone /\ [Next]_vars => Alone'
<1> SUFFICES ASSUME Ready, Alone, [Next]_vars PROVE Alone'
  OBVIOUS
<1>0. TypeOK
  BY DEF Ready
\* A step that brings nobody into the project and leaves nobody waiting who was not.
<1>a. ASSUME NEW b \in Builds, NEW q, Update(b, q), shared' = shared,
             InProject(b)' => InProject(b),
             Waiting(b)' /\ q.result = "none" => Waiting(b) /\ build[b].result = "none"
      PROVE  Alone'
  <2>1. \A c \in Builds \ {b} : build'[c] = build[c]
    BY <1>0, <1>a, OthersStay
  <2>2. build'[b] = q
    BY <1>0, <1>a, OthersStay
  <2>3. \A c \in Builds : InProject(c)' => InProject(c)
    BY <1>a, <2>1 DEF InProject, Local
  <2>4. \A c \in Builds : Waiting(c)' /\ build'[c].result = "none" => Waiting(c) /\ build[c].result = "none"
    BY <1>a, <2>1, <2>2 DEF Waiting, Local
  <2> QED
    BY <1>a, <2>3, <2>4 DEF Alone
<1>b. ASSUME NEW b \in Builds, NEW q, Update(b, q), shared' = shared, q.process # "running",
             \/ q.result # "none"
             \/ q.at \notin {"running", "cleaning", "rechecking", "rechecking_on", "selecting", "persisting"}
             \/ q.backend = build[b].backend /\ (Local(b) => Waiting(b)) /\ build[b].result = "none"
      PROVE  Alone'
  <2>1. ~ InProject(b)'
    BY <1>0, <1>b, OthersStay DEF InProject
  <2>2. Waiting(b)' /\ q.result = "none" => Waiting(b) /\ build[b].result = "none"
    BY <1>0, <1>b, OthersStay DEF Waiting, Local
  <2> QED
    BY <1>a, <1>b, <2>1, <2>2
<1>c. ASSUME NEW f \in Files, Edit(f) PROVE Alone'
  BY <1>0, <1>c DEF Edit, Alone, Waiting, InProject, Local
<1>d. ASSUME NEW b \in Builds, Request(b) \/ CollectEntry(b) \/ Validate(b) PROVE Alone'
  BY <1>b, <1>d, EarlySteps DEF Failed
<1>e. ASSUME NEW b \in Builds, RunLocal(b) \/ RunContainer(b) PROVE Alone'
  <2>1. PICK q : /\ Update(b, q)
                 /\ \/ q.at = "cleaning" /\ q.result = "thrown" /\ q.process = "none" /\ shared' = shared
                    \/ /\ q.at = "running" /\ q.result = "none" /\ q.process = "running"
                       /\ q.backend = build[b].backend
                       /\ IF Local(b)
                          THEN shared' = shared \cup {c \in Builds \ {b} : Waiting(c)}
                                                \cup {c \in {b} : \E d \in Builds \ {b} : InProject(d)}
                          ELSE shared' = shared
    BY <1>e, StartSteps
  <2>2. CASE q.at = "cleaning" /\ q.result = "thrown" /\ q.process = "none" /\ shared' = shared
    BY <1>b, <2>1, <2>2
  <2>3. CASE q.backend = build[b].backend /\ ~ Local(b) /\ shared' = shared
    <3>1. ~ InProject(b)' /\ ~ Waiting(b)'
      BY <1>0, <2>1, <2>3, OthersStay DEF InProject, Waiting, Local
    <3> QED
      BY <1>a, <2>1, <2>3, <3>1
  <2>4. CASE /\ Local(b)
             /\ shared' = shared \cup {c \in Builds \ {b} : Waiting(c)}
                                 \cup {c \in {b} : \E d \in Builds \ {b} : InProject(d)}
    <3>1. \A c \in Builds \ {b} : build'[c] = build[c]
      BY <1>0, <2>1, OthersStay
    <3>2. \A c \in Builds \ {b} : (InProject(c)' <=> InProject(c)) /\ (Waiting(c)' <=> Waiting(c))
      BY <3>1 DEF InProject, Waiting, Local
    <3> SUFFICES ASSUME NEW c \in Builds \ shared', Waiting(c)', build'[c].result = "none",
                        NEW d \in Builds \ {c}, InProject(d)'
                 PROVE  FALSE
      BY DEF Alone
    <3>3. c = b
      BY <2>4, <3>2
    <3>4. InProject(d)
      BY <3>2, <3>3
    <3> QED
      BY <2>4, <3>3, <3>4
  <2> QED
    BY <2>1, <2>2, <2>3, <2>4
<1>f. ASSUME NEW b \in Builds,
             Compile(b) \/ Succeed(b) \/ Fail(b) \/ TimedOut(b) \/ ExitLocal(b) \/ ExitContainer(b)
      PROVE  Alone'
  <2>1. PICK q : /\ Update(b, q) /\ shared' = shared /\ q.backend = build[b].backend
                 /\ build[b].at = "running" /\ build[b].result = "none"
                 /\ q.process = "running" => build[b].process = "running"
    BY <1>f, RunningSteps
  <2>2. build'[b] = q
    BY <1>0, <2>1, OthersStay
  <2>3. (InProject(b)' => InProject(b)) /\ (Waiting(b)' => Waiting(b))
    BY <2>1, <2>2 DEF InProject, Waiting, Local
  <2> QED
    BY <1>a, <2>1, <2>3
<1>g. ASSUME NEW b \in Builds, CollectArtifact(b) \/ SelectArtifact(b) PROVE Alone'
  BY <1>b, <1>g, TakingSteps, ReadyBuild DEF Failed, Like, Waiting
<1>h. ASSUME NEW b \in Builds, PersistArtifact(b) PROVE Alone'
  BY <1>b, <1>h, PersistSteps DEF Failed, Waiting
<1>i. ASSUME NEW b \in Builds, CleanUp(b) \/ AssertUnchanged(b) PROVE Alone'
  <2>1. build[b].process # "running"
    BY <1>i, ReadyBuild DEF CleanUp, AssertUnchanged, At, InOrder, Unstarted
  <2> QED
    BY <1>b, <1>i, <2>1, ClosingSteps DEF Failed, Like, Waiting
<1>x. CASE UNCHANGED vars
  BY <1>0, <1>x DEF vars, Alone, Waiting, InProject, Local
<1> QED
  BY <1>c, <1>d, <1>e, <1>f, <1>g, <1>h, <1>i, <1>x DEF Next, Step, Done

-----------------------------------------------------------------------------
(* The JAR that is taken is the one this run has written.                  *)
LEMMA JarsStep == Ready /\ Alone /\ JarsMatch /\ [Next]_vars => JarsMatch'
<1> SUFFICES ASSUME Ready, Alone, JarsMatch, [Next]_vars PROVE JarsMatch'
  OBVIOUS
<1>0. TypeOK /\ \A b \in Builds \ shared : JarsOf(b)
  BY DEF Ready, JarsMatch
\* The others' outputs are as they were: a step in the project's own directory is
\* one that nobody who is not shared waits for.
<1>a. ASSUME NEW b \in Builds, NEW q, Update(b, q), shared \subseteq shared',
             ~ InProject(b) => libs' = libs, \A c \in Builds \ {b} : out'[c] = out[c],
             b \notin shared' => JarsOf(b)'
      PROVE  JarsMatch'
  <2> SUFFICES ASSUME NEW c \in Builds \ shared', c # b PROVE JarsOf(c)'
    BY <1>a DEF JarsMatch
  <2>1. build'[c] = build[c] /\ c \notin shared /\ JarsOf(c)
    BY <1>0, <1>a, OthersStay
  <2>2. InOrder(build[c], c \in work)
    BY ReadyBuild
  <2>3. CASE ~ Local(c)
    BY <1>a, <2>1, <2>3 DEF JarsOf, Output, Local, Intact, Waiting, At, Kept, WroteIts
  <2>4. CASE Local(c) /\ libs' = libs
    BY <1>a, <2>1, <2>4 DEF JarsOf, Output, Local, Intact, Waiting, At, Kept, WroteIts
  <2>5. CASE Local(c) /\ InProject(b)
    <3>1. ~ (Waiting(c) /\ build[c].result = "none")
      BY <2>1, <2>5 DEF Alone
    <3>2. ~ Intact(c) /\ ~ At(c, "persisting")
      BY <2>2, <2>5, <3>1 DEF Intact, Waiting, At, InOrder
    <3> QED
      BY <2>1, <2>5, <3>2 DEF JarsOf, Local, Intact, Waiting, At, Kept, WroteIts
  <2> QED
    BY <1>a, <2>3, <2>4, <2>5
<1>b. ASSUME NEW b \in Builds, NEW q, Update(b, q), shared \subseteq shared', libs' = libs,
             \A c \in Builds \ {b} : out'[c] = out[c],
             \/ q.at \in {"snapshot", "validating", "starting", "answered"}
             \/ q.at = "cleaning" /\ q.result # "none"
             \/ q.at = "cleaning" /\ q.exit # 0 /\ q.process # "running",
             q.result # "completed"
      PROVE  JarsMatch'
  <2>1. ~ Kept(b)' /\ ~ At(b, "persisting")' /\ ~ (Intact(b)' /\ (q.process = "running" \/ q.exit = 0))
    BY <1>0, <1>b, OthersStay DEF Kept, At, Intact, Waiting, Local
  <2>2. JarsOf(b)'
    BY <1>0, <1>b, <2>1, OthersStay DEF JarsOf
  <2> QED
    BY <1>a, <1>b, <2>2
<1>c. ASSUME NEW f \in Files, Edit(f) PROVE JarsMatch'
  BY <1>0, <1>c DEF Edit, JarsMatch, JarsOf, Output, Local, Intact, Waiting, At, Kept, WroteIts
<1>d. ASSUME NEW b \in Builds, Request(b) \/ CollectEntry(b) \/ Validate(b) PROVE JarsMatch'
  BY <1>b, <1>d, EarlySteps DEF Failed
<1>e. ASSUME NEW b \in Builds, RunLocal(b) \/ RunContainer(b) PROVE JarsMatch'
  <2>1. PICK q : /\ Update(b, q) /\ libs' = libs /\ shared \subseteq shared'
                 /\ \A c \in Builds \ {b} : out'[c] = out[c]
                 /\ \/ q.at = "cleaning" /\ q.result = "thrown" /\ q.process = "none"
                    \/ q.at = "running" /\ q.result = "none" /\ q.process = "running" /\ q.compiled = Nothing
    BY <1>e, StartSteps
  <2>2. CASE q.at = "running" /\ q.result = "none" /\ q.process = "running" /\ q.compiled = Nothing
    <3>1. ReadSoFar(Nothing) = {}
      BY DEF ReadSoFar, Nothing
    <3>2. build'[b] = q
      BY <1>0, <2>1, OthersStay
    <3>3. JarsOf(b)'
      BY <2>2, <3>1, <3>2 DEF JarsOf, At, Kept
    <3> QED
      BY <1>a, <2>1, <3>3
  <2> QED
    BY <1>b, <2>1, <2>2
<1>f. ASSUME NEW b \in Builds,
             Compile(b) \/ Succeed(b) \/ Fail(b) \/ TimedOut(b) \/ ExitLocal(b) \/ ExitContainer(b)
      PROVE  JarsMatch'
  <2>1. PICK q : /\ Update(b, q) /\ shared' = shared
                 /\ build[b].at = "running" /\ build[b].result = "none"
                 /\ \A c \in Builds \ {b} : out'[c] = out[c]
                 /\ ~ InProject(b) => libs' = libs
                 /\ q.result = "none" /\ q.backend = build[b].backend /\ q.mode = build[b].mode
                 /\ \/ q.at = "running"
                    \/ q.at = "cleaning" /\ Local(b)
                    \/ q.at = "collecting" /\ ~ Local(b)
                 /\ q.process = "running" => build[b].process = "running"
                 /\ \/ Compile(b) /\ q.process = "running"
                    \/ Succeed(b) /\ q.process = "exited" /\ q.compiled = build[b].compiled
                    \/ /\ UNCHANGED <<libs, out>>
                       /\ \/ /\ q.exit = 1
                             /\ q.process = "running" => q.compiled = build[b].compiled
                          \/ /\ q.compiled = build[b].compiled /\ q.process = build[b].process
                             /\ q.exit = build[b].exit
    BY <1>f, RunningSteps
  <2> SUFFICES ASSUME b \notin shared PROVE JarsOf(b)'
    BY <1>a, <2>1
  <2>2. JarsOf(b) /\ build'[b] = q /\ Intact(b)
    BY <1>0, <2>1, OthersStay DEF Intact, Waiting, Local
  <2>3. ~ At(b, "persisting")' /\ ~ Kept(b)'
    BY <2>1, <2>2 DEF At, Kept, Local
  <2>4. Local(b)' <=> Local(b)
    BY <2>1, <2>2 DEF Local
  <2>5. CASE Compile(b) /\ q.process = "running"
    <3>1. Cleans(q.mode) => Output(b)' = NoJars
      BY <1>0, <2>1, <2>4, <2>5 DEF Compile, Cleaned, Output, TypeOK
    <3> QED
      BY <2>2, <2>3, <2>5, <3>1 DEF JarsOf
  <2>6. CASE Succeed(b) /\ q.process = "exited" /\ q.compiled = build[b].compiled
    <3>1. build[b].process = "running" /\ ReadSoFar(build[b].compiled) # {}
      BY <2>6, TheFiles DEF Succeed
    <3>2. Output(b)' = Written(b, Output(b))
      BY <1>0, <2>4, <2>6 DEF Succeed, Output, TypeOK
    <3>3. Cleans(q.mode) => Output(b) = NoJars
      BY <2>1, <2>2, <3>1 DEF JarsOf
    <3>4. \A j \in JarNames : NoJars[j] = Nothing
      BY DEF NoJars
    <3>5. Cleans(q.mode) => \A j \in JarNames : Output(b)'[j] \in {q.compiled, Nothing}
      BY <2>6, <3>2, <3>3, <3>4 DEF Written
    <3>6. Source[build[b].compiled["source"]].jars \subseteq JarNames
      <4>1. build[b].compiled["source"] \in Versions
        BY <1>0, <2>6, TheFiles, BuildAssumption DEF Succeed, ReadSoFar, TypeOK, Calls, Contents, Versions
      <4> QED
        BY <4>1, BuildAssumption DEF Sources
    <3>7. Assembles(q.mode) => \A j \in Source[q.compiled["source"]].jars : Output(b)'[j] = q.compiled
      BY <2>1, <2>6, <3>2, <3>6 DEF Written
    <3> QED
      BY <2>2, <2>3, <2>6, <3>5, <3>7 DEF JarsOf
  <2>7. CASE /\ UNCHANGED <<libs, out>>
             /\ \/ /\ q.exit = 1
                   /\ q.process = "running" => q.compiled = build[b].compiled
                \/ /\ q.compiled = build[b].compiled /\ q.process = build[b].process
                   /\ q.exit = build[b].exit
    <3>1. Output(b)' = Output(b)
      BY <2>4, <2>7 DEF Output
    <3> QED
      BY <2>1, <2>2, <2>3, <2>7, <3>1 DEF JarsOf
  <2> QED
    BY <2>1, <2>5, <2>6, <2>7
<1>g. ASSUME NEW b \in Builds, CollectArtifact(b) \/ SelectArtifact(b) PROVE JarsMatch'
  <2>1. PICK q : /\ Update(b, q) /\ UNCHANGED <<libs, out, store, shared>> /\ build[b].result = "none"
                 /\ build[b].at = IF Local(b) THEN "selecting" ELSE "collecting"
                 /\ \/ Failed(q)
                    \/ /\ q.at = "cleaning" /\ q.process # "running"
                       /\ q.result = "thrown" \/ (q.result = "none" /\ q.exit # 0)
                    \/ /\ q.at = "persisting" /\ q.result = "none" /\ Like(q, build[b])
                       /\ build[b].process = "exited" /\ build[b].exit = 0 /\ q.jar \in JarNames
                       /\ q.id = Output(b)[q.jar] /\ Candidates(Output(b)) = {q.jar}
    BY <1>g, TakingSteps
  <2>2. CASE /\ q.at = "persisting" /\ q.result = "none" /\ Like(q, build[b])
             /\ build[b].process = "exited" /\ build[b].exit = 0 /\ q.jar \in JarNames
             /\ q.id = Output(b)[q.jar] /\ Candidates(Output(b)) = {q.jar}
    <3> SUFFICES ASSUME b \notin shared PROVE JarsOf(b)'
      BY <1>a, <2>1
    <3>1. JarsOf(b) /\ build'[b] = q /\ InOrder(build[b], b \in work)
      BY <1>0, <2>1, OthersStay, ReadyBuild
    <3>2. /\ (Local(b)' <=> Local(b)) /\ Output(b)' = Output(b)
      BY <2>1, <2>2, <3>1 DEF Local, Output, Like
    <3>3. Intact(b)
      BY <2>1 DEF Intact, Waiting
    <3>4. ASSUME Cleans(q.mode) PROVE q.id = q.compiled
      <4>1. Output(b)[q.jar] \in {build[b].compiled, Nothing} /\ Output(b)[q.jar] # Nothing
        BY <2>2, <3>1, <3>3, <3>4 DEF JarsOf, Like, Candidates
      <4> QED
        BY <2>2, <4>1 DEF Like
    \* A JAR of this run's sources is a candidate: the only one.
    <3>5. ASSUME Assembles(q.mode), NEW j \in Source[q.compiled["source"]].jars PROVE q.id = q.compiled
      <4>1. \A f \in Files : build[b].compiled[f] # 0
        BY <2>2, <3>1 DEF InOrder
      <4>2. build[b].compiled["source"] \in Versions
        <5>1. build[b] \in Calls
          BY <1>0 DEF TypeOK
        <5>2. build[b].compiled \in [Files -> 0..MaxVersion] /\ "source" \in Files
          BY <5>1, TheFiles DEF Calls, Contents
        <5> QED
          BY <5>2, <4>1, BuildAssumption DEF Versions
      <4>3. j \in JarNames
        BY <2>2, <3>5, <4>2, BuildAssumption DEF Sources, Like
      <4>4. Output(b)[j] = build[b].compiled
        BY <2>2, <3>1, <3>3, <3>5 DEF JarsOf, Like
      <4>5. build[b].compiled # Nothing
        BY <4>1, TheFiles DEF Nothing
      <4> QED
        BY <2>2, <4>3, <4>4, <4>5 DEF Candidates, Like
    <3>6. WroteIts(b)' => q.id = q.compiled
      BY <3>1, <3>4, <3>5 DEF WroteIts
    <3>7. ~ Kept(b)' /\ q.exit = 0 /\ q.process = "exited" /\ q.compiled = build[b].compiled /\ q.mode = build[b].mode
      BY <2>2, <3>1 DEF Kept, At, Like
    <3> QED
      BY <2>2, <3>1, <3>2, <3>3, <3>6, <3>7 DEF JarsOf, At
  <2> QED
    BY <1>b, <2>1, <2>2 DEF Failed
<1>h. ASSUME NEW b \in Builds, PersistArtifact(b) PROVE JarsMatch'
  <2>1. PICK q : /\ Update(b, q) /\ UNCHANGED <<libs, out, shared>>
                 /\ build[b].at = "persisting" /\ build[b].result = "none"
                 /\ \/ Failed(q)
                    \/ q.at = "cleaning" /\ q.result = "ARTIFACT_PERSIST_FAILED"
                    \/ /\ IF Local(b) THEN q.at = "answered" /\ q.result = "completed" /\ q.process = "none"
                                      ELSE q.at = "cleaning" /\ q.result = "none" /\ q.process = "exited"
                       /\ q.backend = build[b].backend
                       /\ q.mode = build[b].mode /\ q.compiled = build[b].compiled
                       /\ q.id = build[b].id /\ q.sha = Output(b)[build[b].jar] /\ q.sha # Nothing
    BY <1>h, PersistSteps
  <2>2. CASE /\ IF Local(b) THEN q.at = "answered" /\ q.result = "completed" /\ q.process = "none"
                            ELSE q.at = "cleaning" /\ q.result = "none" /\ q.process = "exited"
             /\ q.backend = build[b].backend
             /\ q.mode = build[b].mode /\ q.compiled = build[b].compiled
             /\ q.id = build[b].id /\ q.sha = Output(b)[build[b].jar] /\ q.sha # Nothing
    <3> SUFFICES ASSUME b \notin shared PROVE JarsOf(b)'
      BY <1>a, <2>1
    <3>1. JarsOf(b) /\ build'[b] = q
      BY <1>0, <2>1, OthersStay
    <3>2. ~ Intact(b)' /\ ~ At(b, "persisting")'
      BY <2>1, <2>2, <3>1 DEF Intact, Waiting, At, Local
    <3>3. q.sha = q.id /\ (WroteIts(b)' => q.id = q.compiled)
      BY <2>1, <2>2, <3>1 DEF JarsOf, WroteIts, At
    <3> QED
      BY <3>1, <3>2, <3>3 DEF JarsOf
  <2> QED
    BY <1>b, <2>1, <2>2 DEF Failed
<1>i. ASSUME NEW b \in Builds, CleanUp(b) \/ AssertUnchanged(b) PROVE JarsMatch'
  <2>1. PICK q : /\ Update(b, q) /\ UNCHANGED <<libs, shared>>
                 /\ \A c \in Builds \ {b} : out'[c] = out[c]
                 /\ build[b].at \in {"cleaning", "rechecking", "rechecking_on"}
                 /\ \/ Failed(q)
                    \/ /\ q.backend = build[b].backend /\ q.sha = build[b].sha /\ q.id = build[b].id
                       /\ q.compiled = build[b].compiled /\ q.mode = build[b].mode
                       /\ build[b].result = "none" /\ build[b].exit = 0
                       /\ \/ /\ q.result = "none" /\ Like(q, build[b])
                             /\ \/ q.at \in {"rechecking", "rechecking_on"}
                                \/ q.at = "selecting" /\ Local(b)
                          \/ q.at = "answered" /\ q.result = "completed" /\ q.process = "none" /\ ~ Local(b)
    BY <1>i, ClosingSteps
  <2>2. ASSUME /\ q.backend = build[b].backend /\ q.sha = build[b].sha /\ q.id = build[b].id
               /\ q.compiled = build[b].compiled /\ q.mode = build[b].mode
               /\ build[b].result = "none" /\ build[b].exit = 0,
               \/ /\ q.result = "none" /\ Like(q, build[b])
                  /\ \/ q.at \in {"rechecking", "rechecking_on"}
                     \/ q.at = "selecting" /\ Local(b)
               \/ q.at = "answered" /\ q.result = "completed" /\ q.process = "none" /\ ~ Local(b)
        PROVE  JarsMatch'
    <3> SUFFICES ASSUME b \notin shared PROVE JarsOf(b)'
      BY <1>a, <2>1
    <3>1. JarsOf(b) /\ build'[b] = q
      BY <1>0, <2>1, OthersStay
    <3>2. (Local(b)' <=> Local(b)) /\ ~ At(b, "persisting")'
      BY <2>2, <3>1 DEF At, Local
    <3>3. Kept(b)' => Kept(b)
      BY <2>1, <2>2, <3>1 DEF Kept, At, Local
    <3>4. Intact(b)' => /\ Intact(b) /\ Output(b)' = Output(b)
                        /\ q.process = build[b].process /\ q.exit = build[b].exit
      BY <2>1, <2>2, <3>1, <3>2 DEF Intact, Waiting, Output, Local, Like
    <3>5. WroteIts(b)' <=> WroteIts(b)
      BY <2>2, <3>1 DEF WroteIts
    <3> QED
      BY <2>2, <3>1, <3>2, <3>3, <3>4, <3>5 DEF JarsOf
  <2> QED
    BY <1>b, <2>1, <2>2 DEF Failed
<1>x. CASE UNCHANGED vars
  BY <1>0, <1>x DEF vars, JarsMatch, JarsOf, Output, Local, Intact, Waiting, At, Kept, WroteIts
<1> QED
  BY <1>c, <1>d, <1>e, <1>f, <1>g, <1>h, <1>i, <1>x DEF Next, Step, Done

-----------------------------------------------------------------------------
(* What the checks find nothing wrong with is as the rules want it.        *)
LEMMA NothingFound == \A condition, code : When(condition, code) = {} <=> ~ condition
BY DEF When

(* What a distribution URL without findings fulfils.                       *)
LEMMA DistributionSound ==
  ASSUME NEW p \in Projects, DistributionFindings(p, Pin) = {}
  PROVE  /\ p.host = "allowed" /\ p.https /\ p.sum # "none" /\ p.version # "other"
         /\ p.version = "expected" /\ Pin = "pinned" => p.sum = "expected"
<1>1. /\ When(p.host # "allowed" \/ ~ p.https, "DISTRIBUTION_URL_UNAPPROVED") = {}
      /\ When(p.sum = "none", "DISTRIBUTION_CHECKSUM_MISSING") = {}
      /\ When(p.sum = "other" /\ Pin = "pinned" /\ p.host # "none" /\ p.version = "expected",
              "DISTRIBUTION_CHECKSUM_INVALID") = {}
      /\ When(p.version = "other" /\ p.host # "none", "VERSION_INCOMPATIBLE") = {}
  BY DEF DistributionFindings
<1>2. /\ ~ (p.host # "allowed" \/ ~ p.https) /\ ~ (p.sum = "none")
      /\ ~ (p.sum = "other" /\ Pin = "pinned" /\ p.host # "none" /\ p.version = "expected")
      /\ ~ (p.version = "other" /\ p.host # "none")
  BY <1>1, NothingFound
<1> QED
  BY <1>2 DEF Projects

(* What a Gradle project without findings fulfils.                         *)
LEMMA GradleSound ==
  ASSUME NEW p \in Projects, GradleFindings(p, Pin) = {}
  PROVE  Sound(p)
<1>1. /\ GradleFiles \subseteq p.present
      /\ When(p.jar # "known", "WRAPPER_JAR_UNVERIFIED") = {} /\ DistributionFindings(p, Pin) = {}
      /\ DependencyFindings(p) = {} /\ ScriptFindings(p) = {}
  BY DEF GradleFindings
<1>2. p.jar = "known"
  BY <1>1, NothingFound
<1>3. p.locked /\ "present" \in p.verification /\ p.verification \cap {"off", "weak"} = {}
  <2>1. /\ When(~ p.locked, "DEPENDENCY_LOCK_MISSING") = {}
        /\ When("present" \notin p.verification \/ p.verification \cap {"off", "weak"} # {},
                "DEPENDENCY_VERIFICATION_MISSING") = {}
    BY <1>1 DEF DependencyFindings
  <2> QED
    BY <2>1, NothingFound
<1>4. "dynamic" \notin p.declared /\ p.declared \cap {"snapshot", "changing"} = {}
  <2>1. /\ When("dynamic" \in p.declared, "DYNAMIC_DEPENDENCY_FORBIDDEN") = {}
        /\ When(p.declared \cap {"snapshot", "changing"} # {}, "CHANGING_MODULE_FORBIDDEN") = {}
    BY <1>1 DEF ScriptFindings
  <2> QED
    BY <2>1, NothingFound
<1>5. p.verification = {"present"}
  BY <1>3 DEF Projects
<1>6. p.declared \cap {"dynamic", "snapshot"} = {} /\ "changing" \notin p.declared
  BY <1>4
<1> QED
  BY <1>1, <1>2, <1>3, <1>5, <1>6, DistributionSound DEF Sound

(* What a Maven project without findings fulfils.                          *)
LEMMA MavenSound ==
  ASSUME NEW p \in Projects, MavenFindings(p, Pin) = {}, DetectBuildSystem(p) = "maven"
  PROVE  Sound(p)
<1> DEFINE q == [p EXCEPT !.declared = p.declared \ {"changing"}]
<1>1. /\ MavenFiles \subseteq p.present
      /\ When("maven-wrapper.jar" \in p.present /\ p.jar # "known", "WRAPPER_JAR_UNVERIFIED") = {}
      /\ DistributionFindings(p, Pin) = {} /\ ScriptFindings(q) = {}
  BY DEF MavenFindings
<1>2. "maven-wrapper.jar" \in p.present => p.jar = "known"
  BY <1>1, NothingFound
<1>3. p.present \cap {"gradlew", "gradlew.bat"} = {}
  BY DEF DetectBuildSystem
<1>4. p.declared \cap {"dynamic", "snapshot"} = {}
  <2>1. q.declared = p.declared \ {"changing"}
    BY DEF Projects
  <2>2. /\ When("dynamic" \in q.declared, "DYNAMIC_DEPENDENCY_FORBIDDEN") = {}
        /\ When(q.declared \cap {"snapshot", "changing"} # {}, "CHANGING_MODULE_FORBIDDEN") = {}
    BY <1>1 DEF ScriptFindings
  <2>3. "dynamic" \notin q.declared /\ q.declared \cap {"snapshot", "changing"} = {}
    BY <2>2, NothingFound
  <2> QED
    BY <2>1, <2>3
<1> QED
  BY <1>1, <1>2, <1>3, <1>4, DistributionSound DEF Sound

(* What any project without findings fulfils.                              *)
LEMMA ValidSound ==
  ASSUME NEW p \in Projects, ValidationFindings(p, Pin) = {}
  PROVE  Sound(p)
<1>1. CASE DetectBuildSystem(p) = "gradle"
  BY <1>1, GradleSound DEF ValidationFindings
<1>2. CASE DetectBuildSystem(p) = "maven"
  BY <1>2, MavenSound DEF ValidationFindings
<1> QED
  BY <1>1, <1>2 DEF ValidationFindings

-----------------------------------------------------------------------------
(* The invariant, and what it says.                                        *)
LEMMA InitIInv == Init => IInv
<1> SUFFICES ASSUME Init PROVE IInv
  OBVIOUS
<1>0. \A b \in Builds : build[b] = Fresh /\ b \notin work
  BY DEF Init
<1>1. TypeOK
  BY Basics DEF Init, TypeOK
<1>2. CallsInOrder
  <2>1. InOrder(Fresh, FALSE)
    BY DEF InOrder, Fresh, Unstarted, Checked
  <2>2. ASSUME NEW b \in Builds PROVE InOrder(build[b], b \in work)
    <3>1. (b \in work) = FALSE
      BY <1>0
    <3> QED
      BY <1>0, <2>1, <3>1
  <2> QED
    BY <2>2 DEF CallsInOrder
<1>3. ReadInOrder
  <2>1. \A f \in Files : file[f] \in Nat
    BY <1>1, BuildAssumption DEF TypeOK, Versions
  <2>2. \A b \in Builds : ReadAlike(b, Fresh, file, restored)
    BY <2>1, FreshReadsAlike DEF Fresh
  <2> QED
    BY <1>0, <2>2 DEF ReadInOrder
<1>4. StoreMatches
  BY <1>0 DEF StoreMatches, Kept, At, Fresh
<1>5. Alone
  BY <1>0 DEF Alone, InProject, Fresh
<1>6. JarsMatch
  BY <1>0 DEF JarsMatch, JarsOf, Kept, At, Fresh
<1> QED
  BY <1>1, <1>2, <1>3, <1>4, <1>5, <1>6 DEF IInv

(* Every step keeps the invariant.                                         *)
LEMMA StepIInv == IInv /\ [Next]_vars => IInv'
BY TypeStep, OrderStep, ReadStep, StoreStep, AloneStep, JarsStep DEF IInv, Ready

\* Every call of build.run keeps to its order, whatever the others, the user and
\* Gradle do meanwhile (BuildRun's IInv).
THEOREM BuildsInductive == Spec => []IInv
BY InitIInv, StepIInv, PTL DEF Spec

\* What a build that has been answered leaves behind: service.ts's finally, and the
\* removal of a container whose docker command was killed.
THEOREM NothingIsLeftRunning == Spec => []LeavesNothingRunning
<1>1. IInv => LeavesNothingRunning
  BY DEF IInv, CallsInOrder, InOrder, LeavesNothingRunning, At
<1> QED
  BY <1>1, BuildsInductive, PTL

\* A completed build's copy in the artifact store is the one that it was answered with.
THEOREM ArtifactsAreKept == Spec => []KeptAsAnswered
<1>1. IInv => KeptAsAnswered
  BY DEF IInv, StoreMatches, Kept, KeptAsAnswered, Resolvable
<1> QED
  BY <1>1, BuildsInductive, PTL

\* What ran and was compiled is the snapshot as far as the walks see it and no edit was
\* undone, and the supply-chain rules hold of what was checked, although all of it was
\* read at three times with the user at work.
THEOREM ApprovedIsWhatRan == Spec => []WhatRanWasApproved
<1>1. ASSUME IInv PROVE WhatRanWasApproved
  <2>1. \A v \in Versions : Wrapper[v] \in Projects
    BY BuildAssumption
  <2>2. TypeOK /\ ReadInOrder
    BY <1>1 DEF IInv
  <2>3. ProjectValidate => Sound(Wrapper[file["wrapper"]])
    <3>1. file["wrapper"] \in Versions
      BY <2>2, TheFiles DEF TypeOK
    <3> QED
      BY <2>1, <3>1, ValidSound DEF ProjectValidate
  <2>4. ASSUME NEW b \in Builds, build[b].result = "completed"
        PROVE  /\ OfSnapshot(b, build[b].compiled)
               /\ build[b].compiled["wrapper"] = build[b].approved \/ <<b, "wrapper">> \in restored
               /\ Sound(Wrapper[build[b].approved])
    <3>1. build[b] \in Calls /\ ReadAlike(b, build[b], file, restored)
      BY <2>2 DEF TypeOK, ReadInOrder
    <3>2. /\ build[b].approved # 0 /\ GradleFindings(Wrapper[build[b].approved], Pin) = {}
          /\ \A f \in Files : build[b].compiled[f] # 0 /\ Settled(b, build[b], f, restored)
      BY <2>4, <3>1 DEF ReadAlike
    <3>3. OfSnapshot(b, build[b].compiled)
      BY <3>2 DEF OfSnapshot, AsInSnapshot, Settled, Faithful
    <3>4. build[b].compiled["wrapper"] = build[b].approved \/ <<b, "wrapper">> \in restored
      BY <3>2, TheFiles DEF Settled, Faithful, Walked
    <3>5. build[b].approved \in Versions
      BY <3>1, <3>2, BuildAssumption DEF Calls, Versions
    <3> QED
      BY <2>1, <3>2, <3>3, <3>4, <3>5, GradleSound
  <2> QED
    BY <2>3, <2>4 DEF WhatRanWasApproved
<1> QED
  BY <1>1, BuildsInductive, PTL

\* SN-07 for builds that write their JAR and are not crossed in the project's own
\* directory: id and digest agree, and the artifact is compiled from the snapshot as far
\* as the walks see it and no edit was undone.
THEOREM ArtifactsAreOfTheirSnapshots == Spec => []ArtifactIsOfItsSnapshot
<1>1. ASSUME IInv, NEW b \in Builds \ shared, build[b].result = "completed", WritesItsJar(b)
      PROVE  build[b].id = build[b].sha /\ OfSnapshot(b, build[b].sha)
  <2>1. JarsOf(b) /\ Kept(b)
    BY <1>1 DEF IInv, JarsMatch, Kept
  <2>2. \A f \in Files : build[b].compiled[f] # 0 /\ Settled(b, build[b], f, restored)
    BY <1>1 DEF IInv, ReadInOrder, ReadAlike
  <2>3. WroteIts(b)
    BY <1>1 DEF WroteIts, WritesItsJar
  <2>4. build[b].id = build[b].sha /\ build[b].sha = build[b].compiled
    BY <2>1, <2>3 DEF JarsOf
  <2> QED
    BY <2>2, <2>4 DEF OfSnapshot, AsInSnapshot, Settled, Faithful
<1>2. IInv => ArtifactIsOfItsSnapshot
  BY <1>1 DEF ArtifactIsOfItsSnapshot
<1> QED
  BY <1>2, BuildsInductive, PTL
=============================================================================
