------------------------ MODULE ProjectRegistryProofs ------------------------
(* Theorems about ProjectRegistry, for any projects and roots.             *)
EXTENDS ProjectRegistry, TLAPS

LEMMA NoRecordsIsEmpty == NoRecords \in Records /\ Recorded(NoRecords) = {}
  BY DEF NoRecords, Records, Recorded

LEMMA NoLaunchIsLaunch == NoLaunch \in Launches
  BY DEF Launches

(* A project of the command line is a project, and so is its root a root.  *)
LEMMA LaunchTypes ==
  ASSUME NEW l \in Launches, l.root \in Roots PROVE l \in [id : Projects, root : Roots]
  BY RegistryAssumption DEF Launches, NoLaunch

LEMMA InitIInv == Init => IInv
<1> SUFFICES ASSUME Init PROVE IInv
  OBVIOUS
<1> USE DEF Init
<1>1. TypeOK
  BY NoRecordsIsEmpty, NoLaunchIsLaunch DEF TypeOK, Stages
<1>2. ReadIsClean
  BY DEF ReadIsClean
<1>3. RestoredSoFar
  BY NoRecordsIsEmpty DEF RestoredSoFar
<1> QED
  BY <1>1, <1>2, <1>3 DEF IInv

LEMMA DownIInv ==
  ASSUME TypeOK, Down, UNCHANGED roots,
         file' \in Records \cup {Absent, Unreadable}
  PROVE  IInv'
<1> USE DEF Down, roots
<1>1. TypeOK'
  BY NoRecordsIsEmpty, NoLaunchIsLaunch DEF TypeOK, Stages
<1>2. ReadIsClean'
  BY DEF ReadIsClean
<1>3. RestoredSoFar'
  BY NoRecordsIsEmpty DEF RestoredSoFar, Recorded
<1> QED
  BY <1>1, <1>2, <1>3 DEF IInv

(* The three parts of the invariant, step by step.                         *)
LEMMA TypeStep == TypeOK /\ [Next]_vars => TypeOK'
<1> SUFFICES ASSUME TypeOK, [Next]_vars PROVE TypeOK'
  OBVIOUS
<1> USE DEF TypeOK, store, roots, Stages
<1>1. ASSUME NEW l \in Launches, Start(l) PROVE TypeOK'
  BY <1>1 DEF Start
<1>2. CASE Register
  <2>1. launch.id \in Projects /\ launch.root \in Roots
    BY <1>2, LaunchTypes DEF Register
  <2> QED
    BY <1>2, <2>1 DEF Register, Records
<1>3. CASE RegisterFail
  BY <1>3, DownIInv DEF RegisterFail, IInv
<1>4. CASE LoadNothing
  BY <1>4 DEF LoadNothing
<1>5. CASE LoadRead
  BY <1>5 DEF LoadRead, Readable, Recorded
<1>6. ASSUME NEW p \in Projects, Restore(p) PROVE TypeOK'
  BY <1>6 DEF Restore, Records
<1>7. CASE LoadEnd
  BY <1>7 DEF LoadEnd
<1>8. CASE FlushNothing
  BY <1>8 DEF FlushNothing
<1>9. CASE SaveWrite
  BY <1>9 DEF SaveWrite
<1>10. CASE SaveRename
  BY <1>10 DEF SaveRename
<1>11. CASE End
  BY <1>11, DownIInv DEF End, IInv
<1>12. ASSUME NEW r \in Roots, RootGoes(r) \/ RootComes(r) PROVE TypeOK'
  BY <1>12 DEF RootGoes, RootComes
<1>13. CASE Spoil
  BY <1>13 DEF Spoil
<1>14. CASE UNCHANGED vars
  BY <1>14 DEF vars
<1> QED
  BY <1>1, <1>2, <1>3, <1>4, <1>5, <1>6, <1>7, <1>8, <1>9, <1>10, <1>11, <1>12, <1>13, <1>14
  DEF Next, Progress

LEMMA CleanStep == IInv /\ [Next]_vars => ReadIsClean'
<1> SUFFICES ASSUME IInv, [Next]_vars PROVE ReadIsClean'
  OBVIOUS
<1> USE DEF IInv, ReadIsClean, Readable, store, roots
<1>1. ASSUME NEW l \in Launches, Start(l) PROVE ReadIsClean'
  BY <1>1 DEF Start
<1>2. CASE Register
  BY <1>2 DEF Register
<1>3. CASE RegisterFail \/ End
  BY <1>3 DEF RegisterFail, End, Down
<1>4. CASE LoadNothing
  BY <1>4 DEF LoadNothing
<1>5. CASE LoadRead
  BY <1>5 DEF LoadRead
<1>6. ASSUME NEW p \in Projects, Restore(p) PROVE ReadIsClean'
  BY <1>6 DEF Restore
<1>7. CASE LoadEnd
  BY <1>7 DEF LoadEnd
<1>8. CASE FlushNothing \/ SaveWrite \/ SaveRename
  BY <1>8 DEF FlushNothing, SaveWrite, SaveRename
<1>9. ASSUME NEW r \in Roots, RootGoes(r) \/ RootComes(r) PROVE ReadIsClean'
  BY <1>9 DEF RootGoes, RootComes
<1>10. CASE Spoil
  BY <1>10, RegistryAssumption DEF Spoil
<1>11. CASE UNCHANGED vars
  BY <1>11 DEF vars
<1> QED
  BY <1>1, <1>2, <1>3, <1>4, <1>5, <1>6, <1>7, <1>8, <1>9, <1>10, <1>11
  DEF Next, Progress

LEMMA RestoredStep == IInv /\ [Next]_vars => RestoredSoFar'
<1> SUFFICES ASSUME IInv, [Next]_vars PROVE RestoredSoFar'
  OBVIOUS
<1> USE DEF IInv, RestoredSoFar, store, roots
<1>1. ASSUME NEW l \in Launches, Start(l) PROVE RestoredSoFar'
  BY <1>1, NoRecordsIsEmpty DEF Start, Recorded
<1>2. CASE Register
  BY <1>2, NoRecordsIsEmpty DEF Register, Recorded
<1>3. CASE RegisterFail \/ End
  BY <1>3, NoRecordsIsEmpty DEF RegisterFail, End, Down, Recorded
<1>4. CASE LoadNothing
  BY <1>4, NoRecordsIsEmpty DEF LoadNothing, Recorded
<1>5. CASE LoadRead
  BY <1>5 DEF LoadRead, Recorded
<1>6. ASSUME NEW p \in Projects, Restore(p) PROVE RestoredSoFar'
  BY <1>6 DEF Restore, Recorded, TypeOK, Records
<1>7. CASE LoadEnd
  BY <1>7 DEF LoadEnd, Recorded
<1>8. CASE FlushNothing \/ SaveWrite \/ SaveRename
  BY <1>8 DEF FlushNothing, SaveWrite, SaveRename, Recorded
<1>9. ASSUME NEW r \in Roots, RootGoes(r) \/ RootComes(r) PROVE RestoredSoFar'
  BY <1>9 DEF RootGoes, RootComes, Recorded
<1>10. CASE Spoil
  BY <1>10 DEF Spoil, Recorded
<1>11. CASE UNCHANGED vars
  BY <1>11 DEF vars, Recorded
<1> QED
  BY <1>1, <1>2, <1>3, <1>4, <1>5, <1>6, <1>7, <1>8, <1>9, <1>10, <1>11
  DEF Next, Progress

LEMMA RegistryInductive == Spec => []IInv
<1>1. IInv /\ [Next]_vars => IInv'
  BY TypeStep, CleanStep, RestoredStep DEF IInv
<1> QED
  BY <1>1, InitIInv, PTL DEF Spec

(* The registry, its file and the start in progress always hold records.   *)
THEOREM RegistryTypes == Spec => []TypeOK
  BY RegistryInductive, PTL DEF IInv

(* Whatever roots come and go: a record read from the file is served       *)
(* unless its own root was gone at some time during the start.             *)
THEOREM RecordsServed == Spec => []RecordsAreServed
<1>1. IInv => RecordsAreServed
  BY DEF IInv, RestoredSoFar, RecordsAreServed
<1> QED
  BY <1>1, RegistryInductive, PTL

(* However often the Supervisor is started, and wherever it ends, it does  *)
(* not take a record out of a file that it could read.                     *)
THEOREM RecordsKept == Spec => RecordsAreKept
<1> DEFINE Kept == Readable /\ file' \in Records => Recorded(file) \subseteq Recorded(file')
<1>1. IInv /\ [Next]_vars => Kept
  <2> SUFFICES ASSUME IInv, [Next]_vars, Readable, file' \in Records, file' # file PROVE FALSE
    OBVIOUS
  <2>1. ~ SaveRename
    BY DEF SaveRename, IInv, ReadIsClean
  <2>2. ~ Spoil
    BY RegistryAssumption DEF Spoil
  <2> QED
    BY <2>1, <2>2
    DEF Next, Progress, Start, Register, RegisterFail, LoadNothing, LoadRead, LoadEnd, Restore,
        FlushNothing, SaveWrite, End, RootGoes, RootComes, vars, store
<1>2. IInv /\ [Next]_vars => [Kept]_vars
  BY <1>1
<1> QED
  BY <1>2, RegistryInductive, PTL DEF Spec, RecordsAreKept
=============================================================================
