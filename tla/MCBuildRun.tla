------------------------------ MODULE MCBuildRun ------------------------------
EXTENDS BuildRun, FiniteSets, TLC

\* A project with nothing wrong, and one with each thing wrong in turn.
Right ==
  [present |-> GradleFiles, jar |-> "known", host |-> "allowed", https |-> TRUE,
   version |-> "expected", sum |-> "expected", locked |-> TRUE,
   verification |-> {"present"}, declared |-> {}]
RightMaven == [Right EXCEPT !.present = MavenFiles]

MCWrapper ==
  <<Right, [Right EXCEPT !.sum = "other"], [Right EXCEPT !.version = "unnamed", !.sum = "other"],
    RightMaven, [Right EXCEPT !.jar = "unknown"], [Right EXCEPT !.present = @ \cup MavenFiles],
    [Right EXCEPT !.present = @ \ {"gradlew.bat"}], [Right EXCEPT !.host = "other"],
    [Right EXCEPT !.https = FALSE], [Right EXCEPT !.sum = "none"], [Right EXCEPT !.version = "other"],
    [Right EXCEPT !.locked = FALSE], [Right EXCEPT !.verification = {"present", "weak"}],
    [Right EXCEPT !.verification = {}], [Right EXCEPT !.declared = {"dynamic"}],
    [Right EXCEPT !.declared = {"changing"}],
    [RightMaven EXCEPT !.present = @ \cup {"maven-wrapper.jar"}, !.jar = "unknown"],
    [RightMaven EXCEPT !.declared = {"snapshot"}],
    [RightMaven EXCEPT !.present = @ \cup {"gradle-wrapper.jar"}, !.jar = "unknown"]>>

One == [jars |-> {"plugin.jar"}, compiles |-> TRUE, link |-> FALSE]
MCSource ==
  [v \in 1..Len(MCWrapper) |->
     CASE v = 2 -> [One EXCEPT !.jars = {"other.jar"}]
       [] v = 5 -> [One EXCEPT !.jars = JarNames]
       [] v = 6 -> [One EXCEPT !.link = TRUE]
       [] v = 7 -> [One EXCEPT !.jars = {}]
       [] OTHER -> One]
\* Version 3 of the sources differs from the first one in a package called build.
MCSeen == [v \in 1..Len(MCWrapper) |-> IF v = 3 THEN 1 ELSE v]
MCEdited == [f \in Files |-> IF f = "source" THEN {1, 2, 3} ELSE {1, 2}]
\* The user edits a project with nothing wrong; with one thing wrong, whichever
\* it is, nobody edits.
MCInit ==
  /\ Init
  /\ file["source"] \in {1, 5, 6, 7}
  /\ \/ file = [f \in Files |-> 1] /\ allowed = Backends /\ edits = 0
     \/ /\ edits = MaxEdits
        /\ Cardinality({f \in Files : file[f] # 1} \cup (Backends \ allowed)) = 1
\* A second edit undoes the first one, while the first build alone is at work.
Undone == file' = [f \in Files |-> 1] /\ build[2].at = "idle"
MCNext == Next /\ (edits # edits' /\ edits' = MaxEdits => Undone)
MCSpec == MCInit /\ [][MCNext]_vars /\ Fairness
=============================================================================
