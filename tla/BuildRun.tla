------------------------------ MODULE BuildRun ------------------------------
(***************************************************************************)
(* build.run (service.ts, build-executor.ts): a build takes a snapshot of  *)
(* its project's files one by one, validates the project, runs Gradle in   *)
(* the project itself or on a copy in a container, compares the files with *)
(* the snapshot again, selects the JAR it finds in the output directory    *)
(* and keeps a copy of it under its own id.  Meanwhile the user edits, and *)
(* other builds of the project run.                                        *)
(*                                                                         *)
(* A file's content is its version: an edit gives a file another one, be   *)
(* it one that it had before.  A walk over the sources passes by whatever  *)
(* is called build, .gradle, node_modules and so on, at any depth, also    *)
(* when Gradle compiles it (a Java package may be called build): of the    *)
(* sources it sees no more than Walked says.  A JAR is the versions of the *)
(* files that it was compiled from.  Gradle itself is external: it reads   *)
(* the files one by one and then writes the project's JARs, or fails, or   *)
(* hangs.                                                                  *)
(***************************************************************************)
EXTENDS Naturals, Sequences, SupplyChain

CONSTANTS
  Builds,       \* the calls of build.run, numbered in the order in which they come
  MaxVersion,   \* bound: versions of a file
  MaxEdits,     \* bound: edits of the user
  Edited,       \* bound: Edited[f]: the versions that an edit may give f
  Wrapper,      \* Wrapper[v]: what the checks see in version v of the build's files
  Source,       \* Source[v]: the sources: the JARs they give, whether they compile,
                \* whether there is a link among those a walk sees
  Seen,         \* Seen[v]: the version that a walk cannot tell from v, of the sources
  Requested,    \* the modes that are asked for
  Pin           \* whether the profile pins the distribution

Versions == 1..MaxVersion
Walk == <<"wrapper", "source">>   \* the order in which files are read
Files == {Walk[i] : i \in DOMAIN Walk}
JarNames == {"plugin.jar", "other.jar"}
Sources == [jars : SUBSET JarNames, compiles : BOOLEAN, link : BOOLEAN]
Backends == {"trusted-local", "container"}

ASSUME BuildAssumption ==
  /\ Builds \subseteq Nat
  /\ MaxVersion \in Nat \ {0}
  /\ MaxEdits \in Nat
  /\ Edited \in [Files -> SUBSET Versions]
  /\ Seen \in [Versions -> Versions]
  /\ Wrapper \in [Versions -> Projects]
  /\ Source \in [Versions -> Sources]
  /\ Requested \subseteq Modes
  /\ Pin \in Pins

VARIABLES
  file,      \* the project's files: their versions now
  edits,     \* how often the user has edited
  allowed,   \* the backends the project's record allows; none for one not trusted
  libs,      \* build/libs in the project
  out,       \* the container's copy of it, in the build's work directory
  build,     \* the calls
  work,      \* the builds whose work directory exists
  store,     \* the artifact store: a JAR per build
  shared,    \* the builds whose project was being built by someone else as well
  restored   \* <<b, f>>: f was put back, during b, to what b's snapshot has of it

vars == <<file, edits, allowed, libs, out, build, work, store, shared, restored>>

Contents == [Files -> 0..MaxVersion]
Nothing == [f \in Files |-> 0]
NoJars == [j \in JarNames |-> Nothing]

Fresh ==
  [at |-> "idle", backend |-> "trusted-local", mode |-> "build", network |-> "offline",
   snap |-> Nothing, approved |-> 0, process |-> "none", compiled |-> Nothing,
   timedOut |-> FALSE, exit |-> 0, jar |-> "plugin.jar", id |-> Nothing, sha |-> Nothing,
   result |-> "none"]

Places == {"idle", "snapshot", "validating", "starting", "running", "collecting", "cleaning",
           "rechecking", "rechecking_on", "selecting", "persisting", "answered"}
Results == {"none", "completed", "failed", "thrown", "ARTIFACT_PERSIST_FAILED"}
Calls ==
  [at : Places, backend : Backends, mode : Modes, network : Networks,
   snap : Contents, approved : 0..MaxVersion,
   process : {"none", "running", "exited", "unremoved"}, compiled : Contents,
   timedOut : BOOLEAN, exit : {0, 1}, jar : JarNames, id : Contents, sha : Contents,
   result : Results]
Jars == [JarNames -> Contents]

\* Every variable has its type.
TypeOK ==
  /\ file \in [Files -> Versions]
  /\ edits \in 0..MaxEdits
  /\ allowed \subseteq Backends
  /\ libs \in Jars
  /\ out \in [Builds -> Jars]
  /\ build \in [Builds -> Calls]
  /\ work \subseteq Builds
  /\ store \in [Builds -> Contents]
  /\ shared \subseteq Builds
  /\ restored \subseteq Builds \X Files

Init ==
  /\ file \in [Files -> Versions]
  /\ edits \in 0..MaxEdits
  /\ allowed \in SUBSET Backends
  /\ libs = NoJars
  /\ out = [b \in Builds |-> NoJars]
  /\ build = [b \in Builds |-> Fresh]
  /\ work = {}
  /\ store = [b \in Builds |-> Nothing]
  /\ shared = {}
  /\ restored = {}

-----------------------------------------------------------------------------
At(b, place) == build[b].at = place
Local(b) == build[b].backend = "trusted-local"
ReadSoFar(content) == {f \in Files : content[f] # 0}
\* The next file of the walk, of those not read yet.
NextFile(content) == CHOOSE f \in Files \ ReadSoFar(content) :
  \A i, j \in DOMAIN Walk : Walk[i] = f /\ j < i => Walk[j] \in ReadSoFar(content)

Update(b, call) == build' = [build EXCEPT ![b] = call]
Go(b, place) == Update(b, [build[b] EXCEPT !.at = place])
\* The call ends: with a record, or with an error and none ("thrown").  Of one
\* that failed only the result and its process are of interest afterwards.
Ended(call, result) ==
  IF result = "completed"
  THEN [call EXCEPT !.at = "answered", !.result = result, !.process = "none"]
  ELSE [Fresh EXCEPT !.at = "answered", !.result = "failed",
                     !.process = IF call.process = "running" THEN "running" ELSE "none"]
End(b, result) == Update(b, Ended(build[b], result))
Project == <<file, edits, allowed, restored>>

(***************************************************************************)
(* The user, and project.validate.                                         *)
(***************************************************************************)
\* What a walk finds of a file.
Walked(f, version) == IF f = "source" THEN Seen[version] ELSE version
AsInSnapshot(b, f, version) == Walked(f, version) = build[b].snap[f]

Edit(f) ==
  /\ edits < MaxEdits
  /\ edits' = edits + 1
  /\ \E version \in Edited[f] \ {file[f]} :
       /\ file' = [file EXCEPT ![f] = version]
       /\ restored' = restored \cup {<<b, f>> : b \in {c \in Builds :
            ~ At(c, "answered") /\ ~ AsInSnapshot(c, f, file[f]) /\ AsInSnapshot(c, f, version)}}
  /\ UNCHANGED <<allowed, libs, out, build, work, store, shared>>

\* A pure reading: whether project.validate would find no error now.
ProjectValidate == ValidationFindings(Wrapper[file["wrapper"]], Pin) = {}

(***************************************************************************)
(* From the request to the running process.                                *)
(***************************************************************************)
\* assertBuildAllowed, then docker is looked for, then assertBackendAllowed; the
\* registry does not change meanwhile.
Request(b) ==
  /\ At(b, "idle")
  /\ \A c \in Builds : c < b => ~ At(c, "idle")
  /\ \E backend \in Backends, mode \in Requested, network \in Networks, available \in BOOLEAN :
       IF backend \in allowed /\ (backend = "container" => available)
       THEN Update(b, [build[b] EXCEPT !.backend = backend, !.mode = mode,
                                       !.network = network, !.at = "snapshot"])
       ELSE End(b, "BACKEND_UNAVAILABLE")
  /\ UNCHANGED <<Project, libs, out, work, store, shared>>

\* createSourceSnapshot: a link in the tree is an error.
CollectEntry(b) ==
  /\ At(b, "snapshot")
  /\ LET f == NextFile(build[b].snap)
     IN IF f = "source" /\ Source[file[f]].link
        THEN End(b, "thrown")
        ELSE Update(b, [build[b] EXCEPT !.snap = [@ EXCEPT ![f] = Walked(f, file[f])],
               !.at = IF ReadSoFar(build[b].snap) \cup {f} = Files THEN "validating" ELSE @])
  /\ UNCHANGED <<Project, libs, out, work, store, shared>>

\* validateGradleProject: always Gradle's rules.  The plan follows at once, then
\* the work directory.
Validate(b) ==
  /\ At(b, "validating")
  /\ IF GradleFindings(Wrapper[file["wrapper"]], Pin) = {} /\ ~ PlanRefused(build[b].network)
     THEN /\ Update(b, [build[b] EXCEPT !.at = "starting", !.approved = file["wrapper"]])
          /\ work' = work \cup {b}
     ELSE End(b, "validation") /\ UNCHANGED work
  /\ UNCHANGED <<Project, libs, out, store, shared>>

\* Builds that run Gradle in the project's own directory, and those that have yet
\* to take their JAR from it.
InProject(b) == Local(b) /\ build[b].process = "running"
Waiting(b) == Local(b) /\ build[b].at \in {"running", "cleaning", "rechecking", "rechecking_on", "selecting", "persisting"}

\* runBuild: no Java, no build.
RunLocal(b) ==
  /\ At(b, "starting")
  /\ Local(b)
  /\ \/ /\ Update(b, [build[b] EXCEPT !.at = "cleaning", !.result = "thrown"])
        /\ UNCHANGED shared
     \/ /\ Update(b, [build[b] EXCEPT !.at = "running", !.process = "running"])
        /\ shared' = shared \cup {c \in Builds \ {b} : Waiting(c)}
                            \cup {c \in {b} : \E d \in Builds \ {b} : InProject(d)}
  /\ UNCHANGED <<Project, libs, out, work, store>>

\* The project is mounted read-only and copied, its build directory with it.
RunContainer(b) ==
  /\ At(b, "starting")
  /\ ~ Local(b)
  /\ Update(b, [build[b] EXCEPT !.at = "running", !.process = "running"])
  /\ out' = [out EXCEPT ![b] = libs]
  /\ UNCHANGED <<Project, libs, work, store, shared>>

(***************************************************************************)
(* Gradle.  A container whose docker command was killed goes on.           *)
(***************************************************************************)
Cleaned(b, jars) == IF Cleans(build[b].mode) THEN NoJars ELSE jars

\* `clean' runs before anything is compiled.
Compile(b) ==
  /\ build[b].process = "running"
  /\ ReadSoFar(build[b].compiled) # Files
  /\ LET f == NextFile(build[b].compiled)
     IN Update(b, [build[b] EXCEPT !.compiled = [@ EXCEPT ![f] = file[f]]])
  /\ libs' = IF Local(b) THEN Cleaned(b, libs) ELSE libs
  /\ out' = IF Local(b) THEN out ELSE [out EXCEPT ![b] = Cleaned(b, @)]
  /\ UNCHANGED <<Project, work, store, shared>>

Written(b, jars) ==
  [j \in JarNames |->
     IF Assembles(build[b].mode) /\ j \in Source[build[b].compiled["source"]].jars
     THEN build[b].compiled ELSE jars[j]]

Succeed(b) ==
  /\ build[b].process = "running"
  /\ ReadSoFar(build[b].compiled) = Files
  /\ Source[build[b].compiled["source"]].compiles
  /\ Update(b, [build[b] EXCEPT !.process = "exited"])
  /\ libs' = IF Local(b) THEN Written(b, libs) ELSE libs
  /\ out' = IF Local(b) THEN out ELSE [out EXCEPT ![b] = Written(b, @)]
  /\ UNCHANGED <<Project, work, store, shared>>

\* Whatever else makes Gradle fail, a process that cannot be started included.
Fail(b) ==
  /\ build[b].process = "running"
  /\ Update(b, [build[b] EXCEPT !.process = "exited", !.exit = 1, !.compiled = Nothing])
  /\ UNCHANGED <<Project, libs, out, work, store, shared>>

\* Mutant: a container is given no time-out.
TimedOutLocal(b) ==
  /\ At(b, "running")
  /\ Local(b)
  /\ ~ build[b].timedOut
  /\ LET killed == build[b].process = "running"
     IN Update(b, [build[b] EXCEPT !.timedOut = TRUE, !.exit = IF killed THEN 1 ELSE @,
                                   !.process = "exited"])
  /\ UNCHANGED <<Project, libs, out, work, store, shared>>

\* The timer may fire while the process's end is on its way to be handled.  The
\* local process dies with its group; of a container only the docker command.
TimedOut(b) ==
  /\ At(b, "running")
  /\ ~ build[b].timedOut
  /\ LET killed == build[b].process = "running"
     IN Update(b, [build[b] EXCEPT !.timedOut = TRUE,
                                   !.exit = IF killed THEN 1 ELSE @,
                                   !.compiled = IF killed /\ Local(b) THEN Nothing ELSE @,
                                   !.process = IF killed /\ Local(b) THEN "exited" ELSE @])
  /\ UNCHANGED <<Project, libs, out, work, store, shared>>

ExitLocal(b) ==
  /\ At(b, "running")
  /\ Local(b)
  /\ build[b].process = "exited"
  /\ Go(b, "cleaning")
  /\ UNCHANGED <<Project, libs, out, work, store, shared>>

\* Mutant: the docker command's end is taken for the container's.
RemovedWithItsCommand(process) == {process}

\* docker rm -f; that it failed is not reported.
Removed(process) == IF process = "running" THEN {"exited", "unremoved"} ELSE {process}

\* The docker command has closed: a container that is still there is removed.
ExitContainer(b) ==
  /\ At(b, "running")
  /\ ~ Local(b)
  /\ build[b].process = "exited" \/ build[b].timedOut
  /\ \E end \in IF build[b].timedOut THEN Removed(build[b].process) ELSE {build[b].process} :
       Update(b, [build[b] EXCEPT !.at = "collecting", !.process = end])
  /\ UNCHANGED <<Project, libs, out, work, store, shared>>

(***************************************************************************)
(* From the process's end to the answer.                                   *)
(***************************************************************************)
Candidates(jars) == {j \in JarNames : jars[j] # Nothing}

\* selectArtifact, without an expected name: the only candidate there is.
Selected(b, jars) ==
  \E j \in Candidates(jars) :
    /\ Candidates(jars) = {j}
    /\ Update(b, [build[b] EXCEPT !.jar = j, !.id = jars[j], !.at = "persisting"])

NotSelected(jars) == ~ \E j \in JarNames : Candidates(jars) = {j}

\* A container's JAR is taken at once; that there is none, or more than one,
\* is thrown past the record.
CollectArtifact(b) ==
  /\ At(b, "collecting")
  /\ \/ build[b].exit # 0 /\ Go(b, "cleaning")
     \/ build[b].exit = 0 /\ Selected(b, out[b])
     \/ /\ build[b].exit = 0
        /\ NotSelected(out[b])
        /\ Update(b, [build[b] EXCEPT !.at = "cleaning", !.result = "thrown"])
  /\ UNCHANGED <<Project, libs, out, work, store, shared>>

SelectArtifact(b) ==
  /\ At(b, "selecting")
  /\ \/ Selected(b, libs)
     \/ NotSelected(libs) /\ End(b, IF Candidates(libs) = {} THEN "ARTIFACT_NOT_FOUND" ELSE "ARTIFACT_AMBIGUOUS")
  /\ UNCHANGED <<Project, libs, out, work, store, shared>>

\* The copy's digest is the one that counts; the id keeps the one at selection.
\* A local build is complete with it, but for its evidence, which may fail.
PersistArtifact(b) ==
  /\ At(b, "persisting")
  /\ LET jar == (IF Local(b) THEN libs ELSE out[b])[build[b].jar]
     IN \/ /\ jar # Nothing
           /\ store' = [store EXCEPT ![b] = jar]
           /\ Update(b, IF Local(b) THEN Ended([build[b] EXCEPT !.sha = jar], "completed")
                        ELSE [build[b] EXCEPT !.sha = jar, !.at = "cleaning"])
        \/ /\ IF Local(b) THEN End(b, "ARTIFACT_PERSIST_FAILED")
              ELSE Update(b, [build[b] EXCEPT !.at = "cleaning", !.result = "ARTIFACT_PERSIST_FAILED"])
           /\ UNCHANGED store
  /\ UNCHANGED <<Project, libs, out, work, shared>>

\* Mutant: the artifact's copy is kept in the work directory and goes with it.
KeptInWork(b) ==
  /\ At(b, "cleaning")
  /\ work' = work \ {b}
  /\ out' = [out EXCEPT ![b] = NoJars]
  /\ store' = [store EXCEPT ![b] = Nothing]
  /\ CASE build[b].result # "none" -> End(b, build[b].result)
       [] OTHER ->
            CASE build[b].timedOut -> End(b, "BUILD_TIMEOUT")
              [] ~ build[b].timedOut /\ build[b].exit # 0 -> End(b, "BUILD_FAILED")
              [] OTHER -> Go(b, "rechecking")
  /\ UNCHANGED <<Project, libs, shared>>

\* The work directory goes, whatever came before; then the verdict on the process.
CleanUp(b) ==
  /\ At(b, "cleaning")
  /\ work' = work \ {b}
  /\ out' = [out EXCEPT ![b] = NoJars]
  /\ CASE build[b].result # "none" -> End(b, build[b].result)
       [] OTHER ->
            CASE build[b].timedOut -> End(b, "BUILD_TIMEOUT")
              [] ~ build[b].timedOut /\ build[b].exit # 0 -> End(b, "BUILD_FAILED")
              [] OTHER -> Go(b, "rechecking")
  /\ UNCHANGED <<Project, libs, store, shared>>

\* Mutant: the second walk ends with its first file.
AssertFirst(b) ==
  /\ At(b, "rechecking")
  /\ IF ~ AsInSnapshot(b, Walk[1], file[Walk[1]]) THEN End(b, "SOURCE_CHANGED_DURING_BUILD")
     ELSE IF Local(b) THEN Go(b, "selecting") ELSE End(b, "completed")
  /\ UNCHANGED <<Project, libs, out, work, store, shared>>

\* assertSnapshotUnchanged: a second walk, which compares what it finds with what
\* the first one found; that a file was something else between them leaves no trace.
AssertUnchanged(b) ==
  /\ build[b].at \in {"rechecking", "rechecking_on"}
  /\ LET f == IF At(b, "rechecking") THEN Walk[1] ELSE Walk[2]
     IN \/ ~ AsInSnapshot(b, f, file[f]) /\ End(b, "SOURCE_CHANGED_DURING_BUILD")
        \/ AsInSnapshot(b, f, file[f]) /\ f = Walk[1] /\ Go(b, "rechecking_on")
        \/ /\ AsInSnapshot(b, f, file[f]) /\ f = Walk[2]
           /\ IF Local(b) THEN Go(b, "selecting") ELSE End(b, "completed")
  /\ UNCHANGED <<Project, libs, out, work, store, shared>>

\* resolveArtifact: the gates before a runtime is made with a build's plugin.
Resolvable(b) ==
  /\ build[b].result = "completed"
  /\ store[b] # Nothing
  /\ store[b] = build[b].sha

Step(b) ==
  \/ Request(b) \/ CollectEntry(b) \/ Validate(b) \/ RunLocal(b) \/ RunContainer(b)
  \/ TimedOut(b) \/ ExitLocal(b) \/ ExitContainer(b)
  \/ CollectArtifact(b) \/ SelectArtifact(b) \/ PersistArtifact(b) \/ CleanUp(b)
  \/ AssertUnchanged(b)

\* Every call has been answered and nobody edits any more.
Done ==
  /\ \A b \in Builds : At(b, "answered")
  /\ UNCHANGED vars

Next ==
  \/ Done
  \/ \E f \in Files : Edit(f)
  \/ \E b \in Builds : Step(b) \/ Compile(b) \/ Succeed(b) \/ Fail(b)

\* The Supervisor's own steps and its timers happen; Gradle's need not.
Fairness == \A b \in Builds : WF_vars(Step(b) /\ ~ At(b, "idle"))
Spec == Init /\ [][Next]_vars /\ Fairness

-----------------------------------------------------------------------------
(***************************************************************************)
(* Properties.                                                             *)
(***************************************************************************)
\* A JAR is made by this very run: the mode writes JARs, and what else lay in
\* the output directory is either cleaned away or would make the choice ambiguous.
WritesItsJar(b) ==
  Cleans(build[b].mode)
    \/ (Assembles(build[b].mode) /\ Source[build[b].compiled["source"]].jars # {})

\* The content is that of the snapshot, as far as a walk sees it, in every file but
\* those that were edited during the build and put back before it was over.
OfSnapshot(b, content) ==
  \A f \in Files : AsInSnapshot(b, f, content[f]) \/ <<b, f>> \in restored

\* SN-07, as far as it goes: the artifact that a completed build answers with was
\* compiled from its snapshot (but for what the walks pass by, and for an edit that
\* is undone before the second walk), and its id and its digest are of one content.
\* It holds for a build that writes its JAR and that no other build of the project
\* in the project's own directory crossed; a container's build may be crossed by any.
ArtifactIsOfItsSnapshot ==
  \A b \in Builds \ shared :
    build[b].result = "completed" /\ WritesItsJar(b) =>
      /\ build[b].id = build[b].sha
      /\ OfSnapshot(b, build[b].sha)

\* What docs/security/supply-chain.md asks of a project that may be built.  A URL
\* that names no version has neither version nor digest compared.
Sound(p) ==
  /\ p.host = "allowed" /\ p.https /\ p.sum # "none"
  /\ p.version # "other"
  /\ p.version = "expected" /\ Pin = "pinned" => p.sum = "expected"
  /\ p.declared \cap {"dynamic", "snapshot"} = {}
  /\ \/ /\ MavenFiles \subseteq p.present /\ {"gradlew", "gradlew.bat"} \cap p.present = {}
        /\ "maven-wrapper.jar" \in p.present => p.jar = "known"
     \/ /\ GradleFiles \subseteq p.present /\ p.jar = "known"
        /\ p.locked /\ p.verification = {"present"} /\ "changing" \notin p.declared

\* What a completed build ran and compiled was read at other times than what its
\* snapshot has and what was checked, with the user at work.  No edit that is still
\* there at the second walk, and that a walk sees, comes between them: the files
\* compiled are those of the snapshot, the build's own files those that were checked,
\* and these are as the supply-chain rules want them; and so are the files that
\* project.validate finds no error in.
WhatRanWasApproved ==
  /\ ProjectValidate => Sound(Wrapper[file["wrapper"]])
  /\ \A b \in Builds : build[b].result = "completed" =>
       /\ OfSnapshot(b, build[b].compiled)
       /\ build[b].compiled["wrapper"] = build[b].approved \/ <<b, "wrapper">> \in restored
       /\ Sound(Wrapper[build[b].approved])

\* A build's artifact stays the one it was answered with, for plugin_launch to
\* find, whatever is built afterwards.
KeptAsAnswered ==
  \A b \in Builds : build[b].result = "completed" => Resolvable(b)

\* When a build has been answered, its work directory is gone and nothing of it
\* runs any more, time-outs included, unless docker refused to remove a container.
LeavesNothingRunning ==
  \A b \in Builds : At(b, "answered") => b \notin work /\ build[b].process # "running"

\* Every build is answered, be Gradle hanging or the container unwilling to go.
EveryBuildIsAnswered ==
  \A b \in Builds : ~ At(b, "idle") ~> At(b, "answered")

\* SN-02 and SN-07 as documented: whatever the mode, a completed build that no other
\* one crossed has an artifact that was compiled from what its snapshot read of the
\* project; a workspace that changed is an error.
ProvenanceHolds ==
  \A b \in Builds \ shared :
    build[b].result = "completed" =>
      \A f \in Files : AsInSnapshot(b, f, build[b].sha[f])

-----------------------------------------------------------------------------
(***************************************************************************)
(* What makes them inductive.                                              *)
(***************************************************************************)
Unstarted == {"idle", "snapshot", "validating", "starting"}
Checked == {"rechecking", "rechecking_on", "selecting"}   \* and persisting, of a local build

\* How far a build is, and what has become of its process and its directory.
InOrder(r, working) ==
  LET local == r.backend = "trusted-local" IN
  /\ r.at \in Unstarted => r.process = "none" /\ ~ r.timedOut /\ r.compiled = Nothing
  /\ r.at = "running" => r.process \in {"running", "exited"}
  /\ r.timedOut /\ r.process = "running" => r.exit = 1
  /\ r.at \notin Unstarted \cup {"running", "answered"} =>
       \/ r.process = "exited"
       \/ r.process = "unremoved" /\ r.timedOut /\ r.exit = 1
       \/ r.process = "none" /\ r.at = "cleaning" /\ r.result = "thrown"
  /\ r.at = "answered" => r.process # "running"
  /\ r.at = "collecting" => ~ local
  /\ r.at = "selecting" => local
  /\ r.result # "none" => r.at \in {"cleaning", "answered"}
  /\ r.result = "completed" => r.at = "answered"
  /\ r.at \in Checked \/ (r.at = "persisting" /\ local) => ~ r.timedOut
  /\ r.at \in Checked \cup {"persisting"} => r.exit = 0
  /\ working => \/ r.at \in {"starting", "running", "collecting", "cleaning"}
                \/ r.at = "persisting" /\ ~ local
  /\ r.process = "exited" /\ r.exit = 0 => \A f \in Files : r.compiled[f] # 0
CallsInOrder == \A b \in Builds : InOrder(build[b], b \in work)

\* What a build r has read of a file after its snapshot agrees with it.
Faithful(r, f) ==
  /\ r.compiled[f] # 0 => Walked(f, r.compiled[f]) = r.snap[f]
  /\ f = "wrapper" /\ r.approved # 0 => r.approved = r.snap[f]
Settled(b, r, f, back) == <<b, f>> \in back \/ Faithful(r, f)

\* A file that is now what the snapshot has of it was so all the time, or was put
\* back; what the second walk has passed stays settled.
ReadAlike(b, r, now, back) ==
  /\ \A f \in Files :
       /\ r.compiled[f] # 0 => r.snap[f] # 0
       /\ r.at # "answered" /\ r.snap[f] # 0 /\ Walked(f, now[f]) = r.snap[f] =>
            Settled(b, r, f, back)
       /\ r.at \notin {"idle", "snapshot", "answered"} => r.snap[f] # 0
  /\ r.at \notin {"idle", "snapshot", "validating", "answered"} => r.approved # 0
  /\ r.at \in {"idle", "snapshot", "validating"} => r.approved = 0
  /\ r.approved # 0 => r.snap["wrapper"] # 0 /\ GradleFindings(Wrapper[r.approved], Pin) = {}
  /\ r.at = "rechecking_on" => Settled(b, r, "wrapper", back)
  /\ (\/ r.at = "selecting" \/ r.result = "completed"
      \/ r.at = "persisting" /\ r.backend = "trusted-local") =>
       \A f \in Files : Settled(b, r, f, back)
  /\ r.result = "completed" => r.approved # 0 /\ \A f \in Files : r.compiled[f] # 0
ReadInOrder == \A b \in Builds : ReadAlike(b, build[b], file, restored)

\* A container's build that has its copy: all that is left is the verdict.
Kept(b) ==
  \/ build[b].result = "completed"
  \/ /\ ~ Local(b)
     /\ \/ At(b, "cleaning") /\ build[b].result = "none" /\ build[b].exit = 0
        \/ At(b, "rechecking") \/ At(b, "rechecking_on")
StoreMatches == \A b \in Builds : Kept(b) => store[b] = build[b].sha /\ store[b] # Nothing

\* Nobody else writes to the project's output directory while a build that is not
\* shared has still to take its JAR from it.
Alone ==
  \A b \in Builds \ shared : Waiting(b) /\ build[b].result = "none" =>
    \A d \in Builds \ {b} : ~ InProject(d)

Output(b) == IF Local(b) THEN libs ELSE out[b]
Intact(b) ==
  /\ build[b].result = "none"
  /\ Waiting(b) \/ (~ Local(b) /\ build[b].at \in {"running", "collecting", "persisting"})
WroteIts(b) ==
  Cleans(build[b].mode)
    \/ (Assembles(build[b].mode) /\ Source[build[b].compiled["source"]].jars # {})
JarsOf(b) ==
  LET r == build[b] IN
  /\ Intact(b) /\ r.process = "running" /\ Cleans(r.mode) /\ ReadSoFar(r.compiled) # {} =>
       Output(b) = NoJars
  /\ Intact(b) /\ r.process = "exited" /\ r.exit = 0 =>
       /\ Cleans(r.mode) => \A j \in JarNames : Output(b)[j] \in {r.compiled, Nothing}
       /\ Assembles(r.mode) =>
            \A j \in Source[r.compiled["source"]].jars : Output(b)[j] = r.compiled
  /\ At(b, "persisting") => r.id = Output(b)[r.jar]
  /\ At(b, "persisting") \/ Kept(b) => (WroteIts(b) => r.id = r.compiled)
  /\ Kept(b) => r.sha = r.id
JarsMatch == \A b \in Builds \ shared : JarsOf(b)

IInv ==
  /\ TypeOK /\ CallsInOrder /\ ReadInOrder /\ StoreMatches /\ Alone /\ JarsMatch
=============================================================================
