--------------------------- MODULE ProjectRegistry ---------------------------
(***************************************************************************)
(* The projects a Supervisor knows when it is started with --registry-file *)
(* (persistent-project-registry.ts and the part of main.ts that drives     *)
(* it).  A project is registered by the launcher's command line only; the  *)
(* records are kept in a JSON file for later starts.                       *)
(*                                                                         *)
(* A start is a sequence of awaits: register the project of the command    *)
(* line, read the file, restore its records one after the other, save if   *)
(* there is something to save, serve.  The process may end anywhere.  A    *)
(* definition is its root: the rest is the same for every launch.  Roots   *)
(* come and go; the file may have been prepared by the operator, and may   *)
(* become unreadable (broken, or another version's).                       *)
(***************************************************************************)
CONSTANTS
  Projects,    \* project ids
  Roots,       \* directories
  NoRoot,      \* neither
  Absent,      \* there is no registry file
  Unreadable   \* its content is not the records of this version

VARIABLES
  stage,    \* how far the start has come; "down" without a process
  launch,   \* the project and root of the command line, both NoRoot without
  memory,   \* #projects
  dirty,    \* #dirty
  data,     \* the records that the start has read
  todo,     \* the projects of `data' still to restore
  temp,     \* the temporary file that waits for its rename
  file,     \* the registry file
  usable,   \* the roots that exist and are plain directories
  steady    \* the roots that have been usable since the start began

store == <<temp, file>>
roots == <<usable, steady>>
vars == <<stage, launch, memory, dirty, data, todo, temp, file, usable, steady>>

Records == [Projects -> Roots \cup {NoRoot}]
NoRecords == [p \in Projects |-> NoRoot]
NoLaunch == [id |-> NoRoot, root |-> NoRoot]
Launches == {NoLaunch} \cup [id : Projects, root : Roots]
Stages == {"down", "registering", "loading", "restoring", "flushing", "renaming", "serving"}
Recorded(R) == {p \in Projects : R[p] # NoRoot}
Readable == file \in Records

ASSUME RegistryAssumption ==
  /\ NoRoot \notin Projects \cup Roots
  /\ Absent \notin Records /\ Unreadable \notin Records

TypeOK ==
  /\ stage \in Stages
  /\ launch \in Launches
  /\ memory \in Records /\ data \in Records /\ temp \in Records
  /\ dirty \in BOOLEAN
  /\ todo \subseteq Projects
  /\ file \in Records \cup {Absent, Unreadable}
  /\ usable \subseteq Roots
  /\ steady \subseteq usable

Init ==
  /\ stage = "down"
  /\ launch = NoLaunch
  /\ memory = NoRecords /\ data = NoRecords /\ temp = NoRecords
  /\ dirty = FALSE
  /\ todo = {}
  /\ file \in Records \cup {Absent, Unreadable}
  /\ usable \in SUBSET Roots
  /\ steady = usable

-----------------------------------------------------------------------------
(* What is left of a process that ended: the files.                        *)
Down ==
  /\ stage' = "down"
  /\ launch' = NoLaunch
  /\ memory' = NoRecords /\ data' = NoRecords /\ temp' = NoRecords
  /\ dirty' = FALSE
  /\ todo' = {}

Start(l) ==
  /\ stage = "down"
  /\ launch' = l
  /\ stage' = IF l = NoLaunch THEN "loading" ELSE "registering"
  /\ steady' = usable
  /\ UNCHANGED <<memory, dirty, data, todo, store, usable>>

(* register() of the command line's project, whose root is canonicalised.  *)
Register ==
  /\ stage = "registering"
  /\ launch.root \in usable
  /\ memory' = [memory EXCEPT ![launch.id] = launch.root]
  /\ dirty' = TRUE
  /\ stage' = "loading"
  /\ UNCHANGED <<launch, data, todo, store, roots>>

(* The root cannot be used: the start fails.                               *)
RegisterFail ==
  /\ stage = "registering"
  /\ launch.root \notin usable
  /\ Down
  /\ UNCHANGED <<file, roots>>

(* load(): no file, another version or broken JSON end it at once, with    *)
(* `dirty' as it was.                                                      *)
LoadNothing ==
  /\ stage = "loading"
  /\ ~ Readable
  /\ stage' = "flushing"
  /\ UNCHANGED <<launch, memory, dirty, data, todo, store, roots>>

LoadRead ==
  /\ stage = "loading"
  /\ Readable
  /\ data' = file
  /\ todo' = Recorded(file)
  /\ stage' = "restoring"
  /\ UNCHANGED <<launch, memory, dirty, store, roots>>

\* Mutant: a bad record stops the loop.
RestoreAborting(p) ==
  /\ stage = "restoring"
  /\ p \in todo
  /\ todo' = IF data[p] \in usable THEN todo \ {p} ELSE {}
  /\ memory' = IF data[p] \in usable THEN [memory EXCEPT ![p] = data[p]] ELSE memory
  /\ UNCHANGED <<stage, launch, dirty, data, store, roots>>

(* One record through super.register(), over the command line's if need    *)
(* be; or skipped, its root being unusable.                                *)
Restore(p) ==
  /\ stage = "restoring"
  /\ p \in todo
  /\ todo' = todo \ {p}
  /\ memory' = IF data[p] \in usable THEN [memory EXCEPT ![p] = data[p]] ELSE memory
  /\ UNCHANGED <<stage, launch, dirty, data, store, roots>>

\* Mutant: what the command line registered stays to be saved.
LoadEndDirty ==
  /\ stage = "restoring"
  /\ todo = {}
  /\ stage' = "flushing"
  /\ UNCHANGED <<launch, memory, dirty, data, todo, store, roots>>

LoadEnd ==
  /\ stage = "restoring"
  /\ todo = {}
  /\ dirty' = FALSE
  /\ stage' = "flushing"
  /\ UNCHANGED <<launch, memory, data, todo, store, roots>>

(* flush(): save() writes a temporary file, then renames it.               *)
FlushNothing ==
  /\ stage = "flushing"
  /\ ~ dirty
  /\ stage' = "serving"
  /\ UNCHANGED <<launch, memory, dirty, data, todo, store, roots>>

SaveWrite ==
  /\ stage = "flushing"
  /\ dirty
  /\ temp' = memory
  /\ stage' = "renaming"
  /\ UNCHANGED <<launch, memory, dirty, data, todo, file, roots>>

SaveRename ==
  /\ stage = "renaming"
  /\ file' = temp
  /\ dirty' = FALSE
  /\ stage' = "serving"
  /\ UNCHANGED <<launch, memory, data, todo, temp, roots>>

(* The process ends: a signal, a crash, or a save that fails the start.    *)
End ==
  /\ stage # "down"
  /\ Down
  /\ UNCHANGED <<file, roots>>

-----------------------------------------------------------------------------
RootGoes(r) ==
  /\ r \in usable
  /\ usable' = usable \ {r}
  /\ steady' = steady \ {r}
  /\ UNCHANGED <<stage, launch, memory, dirty, data, todo, store>>

RootComes(r) ==
  /\ r \in Roots \ usable
  /\ usable' = usable \cup {r}
  /\ UNCHANGED <<stage, launch, memory, dirty, data, todo, store, steady>>

(* Something else than the Supervisor spoils the file.                     *)
Spoil ==
  /\ file # Unreadable
  /\ file' = Unreadable
  /\ UNCHANGED <<stage, launch, memory, dirty, data, todo, temp, roots>>

Progress ==
  \/ Register \/ RegisterFail
  \/ LoadNothing \/ LoadRead \/ LoadEnd
  \/ \E p \in Projects : Restore(p)
  \/ FlushNothing \/ SaveWrite \/ SaveRename

Next ==
  \/ \E l \in Launches : Start(l)
  \/ Progress
  \/ End
  \/ \E r \in Roots : RootGoes(r) \/ RootComes(r)
  \/ Spoil

(* File operations settle.                                                 *)
Spec == Init /\ [][Next]_vars /\ WF_vars(Progress)

-----------------------------------------------------------------------------
(* One bad record does not hide another: whatever the file held when it    *)
(* was read is served, except where the root was gone at some time during  *)
(* the start.  (The file's definition wins over the command line's.)       *)
RecordsAreServed ==
  stage \in {"flushing", "renaming", "serving"} =>
    \A p \in Recorded(data) : data[p] \in steady => memory[p] = data[p]

(* A record that is skipped because its root is gone, a network drive say, *)
(* is not lost: what a later start reads is never less than what an        *)
(* earlier one has read, wherever the process ends.                        *)
RecordsAreKept ==
  [][Readable /\ file' \in Records => Recorded(file) \subseteq Recorded(file')]_vars

(* main.ts: the command line's record must be written to the file too,     *)
(* lest it be lost at the next start.                                      *)
LauncherIsRecorded ==
  [][stage # "serving" /\ stage' = "serving" /\ launch # NoLaunch =>
       file' \in Records /\ launch.id \in Recorded(file')]_vars

-----------------------------------------------------------------------------
(* What makes them inductive.                                              *)

(* Nothing is left to be saved once a file has been read, so that a        *)
(* readable file is never written again.                                   *)
ReadIsClean ==
  /\ stage \in {"flushing", "renaming"} /\ dirty => ~ Readable
  /\ stage = "renaming" => dirty

(* The records that are not to be restored any more have been.             *)
RestoredSoFar ==
  /\ stage \in {"down", "registering", "loading"} => data = NoRecords
  /\ stage # "restoring" => todo = {}
  /\ \A p \in Recorded(data) \ todo : data[p] \in steady => memory[p] = data[p]

IInv == TypeOK /\ ReadIsClean /\ RestoredSoFar
=============================================================================
