---------------------------- MODULE SupplyChain ----------------------------
(***************************************************************************)
(* What is looked at in a project before it may be built: which build      *)
(* system it uses, what project.validate and the build find wrong with it, *)
(* and which build plan a request gives.                                   *)
(*                                                                         *)
(* A project is a record of what the checks tell apart: the wrapper files  *)
(* that are there, whether the JAR of its build system's wrapper is known, *)
(* what the wrapper's properties say of the distribution, and what is      *)
(* wrong with the dependencies.  Texts, digests and patterns are that one  *)
(* word.                                                                   *)
(***************************************************************************)
GradleFiles == {"gradlew", "gradlew.bat", "gradle-wrapper.jar", "gradle-wrapper.properties"}
MavenFiles == {"mvnw", "mvnw.cmd", "maven-wrapper.properties"}

Projects ==
  [present : SUBSET (GradleFiles \cup MavenFiles \cup {"maven-wrapper.jar"}),
   jar : {"known", "unknown"},
   host : {"none", "allowed", "other"},          \* "none": no distributionUrl at all
   https : BOOLEAN,
   version : {"unnamed", "expected", "other"},   \* what the URL's last part says
   sum : {"none", "expected", "other"},
   locked : BOOLEAN,
   verification : SUBSET {"present", "off", "weak"},
   declared : SUBSET {"dynamic", "snapshot", "changing"}]

\* Profiles pin the distribution's digest, or do not.
Pins == {"pinned", "unpinned"}

When(condition, code) == IF condition THEN {code} ELSE {}

-----------------------------------------------------------------------------
DetectBuildSystem(p) ==
  LET gradle == p.present \cap {"gradlew", "gradlew.bat"} # {}
      maven == p.present \cap {"mvnw", "mvnw.cmd"} # {}
  IN CASE gradle /\ maven -> "ambiguous"
       [] gradle /\ ~ maven -> "gradle"
       [] maven /\ ~ gradle -> "maven"
       [] OTHER -> "not-found"

\* Mutant: a wrong digest is no finding.
DistributionUncompared(p, pin) ==
  When(p.host # "allowed" \/ ~ p.https, "DISTRIBUTION_URL_UNAPPROVED")
    \cup When(p.sum = "none", "DISTRIBUTION_CHECKSUM_MISSING")
    \cup When(p.version = "other" /\ p.host # "none", "VERSION_INCOMPATIBLE")

\* The wrapper's distribution: the same questions for both build systems.  The
\* digest is compared only where the version is the profile's, and a URL that
\* names no version has no version to be wrong.
DistributionFindings(p, pin) ==
  When(p.host # "allowed" \/ ~ p.https, "DISTRIBUTION_URL_UNAPPROVED")
    \cup When(p.sum = "none", "DISTRIBUTION_CHECKSUM_MISSING")
    \cup When(p.sum = "other" /\ pin = "pinned" /\ p.host # "none" /\ p.version = "expected",
              "DISTRIBUTION_CHECKSUM_INVALID")
    \cup When(p.version = "other" /\ p.host # "none", "VERSION_INCOMPATIBLE")

\* requireLockAndVerification is always set.
DependencyFindings(p) ==
  When(~ p.locked, "DEPENDENCY_LOCK_MISSING")
    \cup When("present" \notin p.verification \/ p.verification \cap {"off", "weak"} # {},
              "DEPENDENCY_VERIFICATION_MISSING")

ScriptFindings(p) ==
  When("dynamic" \in p.declared, "DYNAMIC_DEPENDENCY_FORBIDDEN")
    \cup When(p.declared \cap {"snapshot", "changing"} # {}, "CHANGING_MODULE_FORBIDDEN")

GradleFindings(p, pin) ==
  IF ~ (GradleFiles \subseteq p.present)
  THEN {"WRAPPER_NOT_FOUND"}
  ELSE When(p.jar # "known", "WRAPPER_JAR_UNVERIFIED")
         \cup DistributionFindings(p, pin)
         \cup DependencyFindings(p)
         \cup ScriptFindings(p)

\* A Maven wrapper may do without its JAR; pom.xml knows no changing modules.
MavenFindings(p, pin) ==
  IF ~ (MavenFiles \subseteq p.present)
  THEN {"WRAPPER_NOT_FOUND"}
  ELSE When("maven-wrapper.jar" \in p.present /\ p.jar # "known", "WRAPPER_JAR_UNVERIFIED")
         \cup DistributionFindings(p, pin)
         \cup ScriptFindings([p EXCEPT !.declared = @ \ {"changing"}])

\* project_validate: the findings of the build system it detects.
ValidationFindings(p, pin) ==
  CASE DetectBuildSystem(p) = "gradle" -> GradleFindings(p, pin)
    [] DetectBuildSystem(p) = "maven" -> MavenFindings(p, pin)
    [] OTHER -> {"BUILD_SYSTEM_UNKNOWN"}

-----------------------------------------------------------------------------
Modes == {"build", "clean_build", "unit_test"}   \* integration_test is as unit_test
Networks == {"offline", "repository-allowlist"}

\* The tasks of a mode.
Cleans(mode) == mode = "clean_build"
Assembles(mode) == mode \in {"build", "clean_build"}

\* build.run never carries the approval that provisioning asks for.
PlanRefused(network) == network = "repository-allowlist"

=============================================================================
