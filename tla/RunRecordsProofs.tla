--------------------------- MODULE RunRecordsProofs ---------------------------
(* Theorems about RunRecords, for any runs with any number of assertions.  *)
EXTENDS RunRecords, TLAPS

(* An object is of a run, and named after it.                              *)
LEMMA IdFacts ==
  ASSUME NEW id \in Ids
  PROVE  /\ id[1] \in Runs /\ id[2] \in 0..MaxAssertions /\ id = <<id[1], id[2]>>
         /\ <<id[1], 0>> \in Ids
         /\ ContentOf(id) \in Contents
         /\ id[2] = 0 => ContentOf(id) = id[1]
         /\ id[2] # 0 => ContentOf(id) = Shared
  BY StoreAssumption DEF Ids, ContentOf, Contents

(* A run's own record is not what runs share.                              *)
LEMMA RecordFacts ==
  ASSUME NEW r \in Runs
  PROVE  <<r, 0>> \in Ids /\ ContentOf(<<r, 0>>) = r /\ r \in Contents /\ r # Shared
  BY StoreAssumption DEF Ids, ContentOf, Contents

(* The invariant at the start.                                             *)
LEMMA InitIInv == Init => IInv
<1> SUFFICES ASSUME Init PROVE IInv
  OBVIOUS
<1> USE DEF Init, StoreInit, NoRequest
<1>1. TypeOK
  BY DEF TypeOK, StoreTypeOK
<1>2. ObjectsStay /\ NamesAreStored /\ RecordIsFirst
  BY DEF ObjectsStay, NamesAreStored, RecordIsFirst
<1>3. RequestIsRight /\ RunsAreToldTruly /\ EvidenceIsThere
  BY DEF RequestIsRight, RunsAreToldTruly, EvidenceIsThere, ManifestsHaveObjects
<1> QED
  BY <1>1, <1>2, <1>3 DEF IInv

(* A write of the flush is one call of put, one step further.              *)
LEMMA FlushWritesPut ==
  ASSUME NEW r \in Runs, FlushNext(r) \/ FlushWrites(r)
  PROVE  \E id \in Ids : /\ Put(id) \/ PutObject(id) \/ PutManifest(id) \/ PutFail(id)
                         /\ Put(id) => \A other \in Ids :
                              other[1] = id[1] /\ other[2] < id[2] => Over(other)
  BY DEF FlushNext, FlushWrites, EvidenceOf, Put, PutObject, PutManifest, PutFail, Underway

(* Every step keeps the types.                                             *)
LEMMA TypeStep == TypeOK /\ [Next]_vars => TypeOK'
<1> SUFFICES ASSUME TypeOK, [Next]_vars PROVE TypeOK'
  OBVIOUS
<1> USE DEF TypeOK, StoreTypeOK, runs, storeVars
<1>1. ASSUME NEW r \in Runs, FlushBegin(r) PROVE TypeOK'
  BY <1>1 DEF FlushBegin
<1>2. ASSUME NEW r \in Runs, FlushNext(r) \/ FlushWrites(r) PROVE TypeOK'
  <2>1. PICK id \in Ids : Put(id) \/ PutObject(id) \/ PutManifest(id) \/ PutFail(id)
    BY <1>2, FlushWritesPut
  <2>2. ContentOf(id) \in Contents
    BY IdFacts
  <2>3. StoreTypeOK'
    BY <2>1, <2>2 DEF Put, PutObject, PutManifest, PutFail
  <2>4. UNCHANGED <<verdict, runs, request>>
    BY <1>2 DEF FlushNext, FlushWrites
  <2> QED
    BY <2>3, <2>4
<1>3. ASSUME NEW r \in Runs, FlushEnd(r) PROVE TypeOK'
  BY <1>3 DEF FlushEnd, EvidenceOf
<1>4. ASSUME NEW r \in Runs, Read(r) PROVE TypeOK'
  BY <1>4, RecordFacts DEF Read, NoRequest, Files
<1>5. ASSUME NEW id \in Ids, Retire(id) PROVE TypeOK'
  BY <1>5 DEF Retire, Expire
<1>6. ASSUME NEW id \in Ids, Fetch(id) PROVE TypeOK'
  BY <1>6 DEF Fetch, NoRequest
<1>7. ASSUME NEW c \in Contents, Tamper(c) PROVE TypeOK'
  BY <1>7 DEF Tamper, Spoil
<1>8. CASE Crash
  BY <1>8 DEF Crash, Abandoned, NoRequest
<1>9. CASE ReadFirst
  BY <1>9 DEF ReadFirst, Files
<1>10. CASE ReadSecond
  <2>1. FoundRecord(request.id[1]) => verdict[request.id[1]] \in {"completed", "failed"}
    BY IdFacts DEF FoundRecord, Ids, Verdicts
  <2> QED
    BY <1>10, <2>1 DEF ReadSecond
<1>11. CASE ShowRun
  BY <1>11 DEF ShowRun, NoRequest
<1>12. CASE FetchEnd
  BY <1>12 DEF FetchEnd, Content
<1>13. CASE ShowEvidence
  BY <1>13 DEF ShowEvidence, NoRequest
<1>14. CASE UNCHANGED vars
  BY <1>14 DEF vars
<1> QED
  BY <1>1, <1>2, <1>3, <1>4, <1>5, <1>6, <1>7, <1>8, <1>9, <1>10, <1>11, <1>12, <1>13, <1>14
  DEF Next

(* Nothing is taken back: a piece of evidence that is stored, or tried,    *)
(* remains so, and an object that has come stays.                          *)
Onward ==
  /\ \A id \in Ids : (Stored(id) => Stored(id)') /\ (Over(id) => Over(id)')
  /\ \A c \in Contents : objects[c] # "absent" => objects'[c] # "absent"
  /\ manifests' \subseteq {id \in Ids : Stored(id)'}

(* No step takes back what is stored.                                      *)
LEMMA NothingTakenBack == IInv /\ [Next]_vars => Onward /\ ObjectsStay'
<1> SUFFICES ASSUME IInv, [Next]_vars PROVE Onward /\ ObjectsStay'
  OBVIOUS
<1> USE DEF IInv, Onward, ObjectsStay, NamesAreStored, Stored, Over, runs, storeVars
<1>0. StoreTypeOK
  BY DEF TypeOK
<1>1. CASE UNCHANGED storeVars
  BY <1>0, <1>1 DEF StoreTypeOK
<1>2. ASSUME NEW r \in Runs, FlushNext(r) \/ FlushWrites(r) PROVE Onward /\ ObjectsStay'
  <2>1. PICK id \in Ids : Put(id) \/ PutObject(id) \/ PutManifest(id) \/ PutFail(id)
    BY <1>2, FlushWritesPut
  <2>2. ContentOf(id) \in Contents
    BY IdFacts
  <2>3. CASE Put(id)
    BY <1>0, <2>2, <2>3 DEF Put, StoreTypeOK
  <2>4. CASE PutObject(id)
    BY <1>0, <2>2, <2>4 DEF PutObject, StoreTypeOK
  <2>5. CASE PutManifest(id)
    BY <1>0, <2>2, <2>5 DEF PutManifest, StoreTypeOK
  <2>6. CASE PutFail(id)
    BY <1>0, <2>2, <2>6 DEF PutFail, StoreTypeOK, Underway
  <2> QED
    BY <2>1, <2>3, <2>4, <2>5, <2>6
<1>3. ASSUME NEW id \in Ids, Retire(id) PROVE Onward /\ ObjectsStay'
  BY <1>0, <1>3 DEF Retire, Expire, StoreTypeOK
<1>4. ASSUME NEW c \in Contents, Tamper(c) PROVE Onward /\ ObjectsStay'
  BY <1>0, <1>4 DEF Tamper, Spoil, StoreTypeOK
<1>5. CASE Crash
  BY <1>0, <1>5 DEF Crash, Abandoned, Underway, StoreTypeOK
<1> QED
  BY <1>1, <1>2, <1>3, <1>4, <1>5
  DEF Next, FlushBegin, FlushEnd, Read, Fetch, ReadFirst, ReadSecond, ShowRun, FetchEnd,
      ShowEvidence, vars

(* What is named has been stored.                                          *)
LEMMA NamesStep == IInv /\ [Next]_vars => NamesAreStored'
<1> SUFFICES ASSUME IInv, [Next]_vars PROVE NamesAreStored'
  OBVIOUS
<1> USE DEF IInv, NamesAreStored, runs, storeVars
<1>0. Onward /\ TypeOK /\ StoreTypeOK
  BY NothingTakenBack DEF TypeOK
<1>1. manifests \cup listed \cup request.ids \subseteq Ids
  BY <1>0 DEF TypeOK, StoreTypeOK
<1>2. \A id \in Ids : Stored(id) => Stored(id)'
  BY <1>0 DEF Onward
<1>3. \A id \in manifests' : Stored(id)'
  BY <1>0 DEF Onward
<1>4. listed' \subseteq listed \cup request.ids
  BY DEF Next, FlushBegin, FlushNext, FlushWrites, FlushEnd, Read, Retire, Fetch, Tamper, Crash,
         ReadFirst, ReadSecond, ShowRun, FetchEnd, ShowEvidence, vars
<1>5. request'.ids \subseteq manifests \cup request.ids
  <2>1. request.ids \subseteq Ids /\ NoRequest.ids = {}
    BY <1>0 DEF TypeOK, NoRequest
  <2>2. ASSUME NEW r \in Runs, Read(r) PROVE request'.ids = {}
    BY <2>2 DEF Read, NoRequest
  <2>3. ASSUME NEW id \in Ids, Fetch(id) PROVE request'.ids = {}
    BY <2>3 DEF Fetch, NoRequest
  <2>4. CASE ReadFirst
    BY <1>0, <2>4 DEF ReadFirst, TypeOK
  <2>5. CASE ReadSecond \/ FetchEnd
    BY <1>0, <2>5 DEF ReadSecond, FetchEnd, TypeOK
  <2> QED
    BY <2>1, <2>2, <2>3, <2>4, <2>5
    DEF Next, FlushBegin, FlushNext, FlushWrites, FlushEnd, Retire, Tamper, Crash, ShowRun,
        ShowEvidence, vars
<1>6. ASSUME NEW r \in Runs, NEW id \in returned'[r] PROVE Stored(id)'
  <2>1. CASE FlushEnd(r)
    BY <1>0, <1>2, <1>6, <2>1 DEF FlushEnd, TypeOK, EvidenceOf, Stored
  <2>2. CASE returned'[r] = returned[r]
    BY <1>0, <1>2, <1>6, <2>2 DEF TypeOK
  <2> QED
    BY <1>0, <2>1, <2>2
    DEF Next, FlushBegin, FlushNext, FlushWrites, FlushEnd, Read, Retire, Fetch, Tamper, Crash,
        ReadFirst, ReadSecond, ShowRun, FetchEnd, ShowEvidence, vars, TypeOK
<1> QED
  BY <1>1, <1>2, <1>3, <1>4, <1>5, <1>6

(* A run's record is stored before what refers to it.                      *)
LEMMA RecordStep == IInv /\ [Next]_vars => RecordIsFirst'
<1> SUFFICES ASSUME IInv, [Next]_vars, NEW id \in Ids, put'[id] # "none", id[2] # 0
             PROVE  Over(<<id[1], 0>>)'
  BY DEF RecordIsFirst
<1> USE DEF IInv, runs, storeVars
<1>0. Onward /\ StoreTypeOK /\ <<id[1], 0>> \in Ids /\ id[2] \in 0..MaxAssertions
  BY NothingTakenBack, IdFacts DEF TypeOK
<1>1. CASE put[id] # "none"
  BY <1>0, <1>1 DEF RecordIsFirst, Onward
<1>2. CASE put[id] = "none"
  <2>1. ASSUME NEW r \in Runs, FlushNext(r) \/ FlushWrites(r) PROVE Over(<<id[1], 0>>)
    <3>1. PICK i \in Ids : /\ Put(i) \/ PutObject(i) \/ PutManifest(i) \/ PutFail(i)
                           /\ Put(i) => \A other \in Ids :
                                other[1] = i[1] /\ other[2] < i[2] => Over(other)
      BY <2>1, FlushWritesPut
    <3>2. i = id /\ Put(i)
      BY <1>0, <1>2, <3>1 DEF Put, PutObject, PutManifest, PutFail, Underway, StoreTypeOK
    <3>3. 0 < id[2]
      BY <1>0, StoreAssumption
    <3> QED
      BY <1>0, <3>1, <3>2, <3>3
  <2> QED
    BY <1>0, <1>2, <2>1
    DEF Next, FlushBegin, FlushEnd, Read, Retire, Expire, Fetch, Tamper, Spoil, Crash, Abandoned,
        Underway, ReadFirst, ReadSecond, ShowRun, FetchEnd, ShowEvidence, vars, Onward,
        StoreTypeOK
<1> QED
  BY <1>1, <1>2

(* What has been tried is settled: it is not written again, and a record's *)
(* object, that no assertion shares, is not replaced.                      *)
LEMMA Settled ==
  ASSUME IInv, [Next]_vars, NEW id \in Ids, Over(id)
  PROVE  /\ put'[id] = put[id]
         /\ id \in manifests' => id \in manifests
         /\ id[2] = 0 /\ objects[id[1]] = "spoilt" => objects'[id[1]] = "spoilt"
<1> USE DEF IInv, Over, runs, storeVars
<1>0. StoreTypeOK /\ id[1] \in Contents
  BY IdFacts DEF TypeOK, Contents
<1>1. ASSUME NEW r \in Runs, FlushNext(r) \/ FlushWrites(r)
      PROVE  /\ put'[id] = put[id]
             /\ id \in manifests' => id \in manifests
             /\ id[2] = 0 /\ objects[id[1]] = "spoilt" => objects'[id[1]] = "spoilt"
  <2>1. PICK i \in Ids : Put(i) \/ PutObject(i) \/ PutManifest(i) \/ PutFail(i)
    BY <1>1, FlushWritesPut
  <2>2. i # id
    BY <2>1 DEF Put, PutObject, PutManifest, PutFail, Underway
  <2>3. put'[id] = put[id] /\ (id \in manifests' => id \in manifests)
    BY <1>0, <2>1, <2>2 DEF Put, PutObject, PutManifest, PutFail, StoreTypeOK
  <2>4. id[2] = 0 => ContentOf(i) # id[1]
    BY <2>2, IdFacts, RecordFacts
  <2>5. id[2] = 0 => objects'[id[1]] = objects[id[1]]
    BY <1>0, <2>1, <2>4 DEF Put, PutObject, PutManifest, PutFail, StoreTypeOK
  <2> QED
    BY <2>3, <2>5
<1>2. ASSUME NEW c \in Contents, Tamper(c)
      PROVE  /\ UNCHANGED <<put, manifests>>
             /\ objects[id[1]] = "spoilt" => objects'[id[1]] = "spoilt"
  BY <1>0, <1>2 DEF Tamper, Spoil, StoreTypeOK
<1> QED
  BY <1>0, <1>1, <1>2
  DEF Next, FlushBegin, FlushEnd, Read, Retire, Expire, Fetch, Crash, Abandoned,
      Underway, ReadFirst, ReadSecond, ShowRun, FetchEnd, ShowEvidence, vars

(* What a request has seen still holds when others move.                   *)
LEMMA RequestWaits ==
  ASSUME IInv, [Next]_vars, UNCHANGED request
  PROVE  RequestIsRight' /\ RunsAreToldTruly'
<1> USE DEF IInv
<1>0. Onward /\ TypeOK /\ UNCHANGED verdict
  BY NothingTakenBack
  DEF Next, FlushBegin, FlushNext, FlushWrites, FlushEnd, Read, Retire, Fetch, Tamper, Crash,
      ReadFirst, ReadSecond, ShowRun, FetchEnd, ShowEvidence, vars
<1> DEFINE id == request.id
<1>1. CASE request.pc \in {"listing", "searching", "told"}
  <2>1. id \in Ids /\ id[2] = 0 /\ id[1] \in Runs
    BY <1>1, StoreAssumption DEF RequestIsRight, Ids
  <2>2. Over(id) => /\ Over(id)' /\ put'[id] = put[id]
                    /\ id \in manifests' => id \in manifests
                    /\ objects[id[1]] = "spoilt" => objects'[id[1]] = "spoilt"
    BY <2>1, Settled DEF Over
  <2>3. RequestIsRight'
    BY <1>1, <2>2 DEF RequestIsRight
  <2>4. RunsAreToldTruly'
    BY <1>0, <1>1, <2>2 DEF RequestIsRight, RunsAreToldTruly, Expired
  <2> QED
    BY <2>3, <2>4
<1>2. CASE request.pc \notin {"listing", "searching", "told"}
  BY <1>0, <1>2, IdFacts DEF RequestIsRight, RunsAreToldTruly, Onward
<1> QED
  BY <1>1, <1>2

(* A request answers with what it was asked for.                           *)
LEMMA RequestStep == IInv /\ [Next]_vars => RequestIsRight' /\ RunsAreToldTruly'
<1> SUFFICES ASSUME IInv, [Next]_vars PROVE RequestIsRight' /\ RunsAreToldTruly'
  OBVIOUS
<1> USE DEF IInv, RequestIsRight, RunsAreToldTruly, runs, storeVars
<1>1. CASE UNCHANGED request
  BY <1>1, RequestWaits
<1>2. ASSUME NEW r \in Runs, Read(r) PROVE RequestIsRight' /\ RunsAreToldTruly'
  BY <1>2 DEF Read, NoRequest, Files
<1>3. CASE ReadFirst
  <2>1. CASE request.names \cap manifests = {}
    BY <1>3, <2>1 DEF ReadFirst, TypeOK
  <2>2. CASE request.names \cap manifests # {}
    <3> DEFINE record == request.id
    <3>1. PICK id \in request.names \cap manifests : TRUE
      BY <2>2
    <3>2. id \in Ids /\ Stored(id) /\ id[1] = record[1] /\ record \in Runs \X {0}
      BY <1>3, <3>1 DEF ReadFirst, TypeOK, StoreTypeOK, NamesAreStored
    <3>3. record = <<id[1], 0>> /\ (id[2] = 0 => id = record)
      BY <3>2, IdFacts
    <3>4. Over(record)
      BY <3>2, <3>3 DEF RecordIsFirst, Stored, Over
    <3>5. record \in manifests => record \in Files(record[1])
      BY DEF Files
    <3> QED
      BY <1>3, <2>2, <3>2, <3>4, <3>5 DEF ReadFirst, TypeOK, Over
  <2> QED
    BY <2>1, <2>2
<1>4. CASE ReadSecond
  <2> DEFINE record == request.id
             r == record[1]
  <2>1. record \in Ids /\ record = <<r, 0>> /\ r \in Runs /\ ContentOf(record) = r /\ r \in Contents
    BY <1>4, RecordFacts DEF ReadSecond
  <2>2. Over(record) /\ (record \in manifests => record \in request.names)
    BY <1>4 DEF ReadSecond
  <2>3. request' = [request EXCEPT !.pc = "told", !.names = {},
                      !.answer = IF FoundRecord(r) THEN verdict[r] ELSE "failed"]
    BY <1>4 DEF ReadSecond
  <2>4. request'.pc = "told" /\ request'.id = record /\ UNCHANGED <<put, manifests, objects, verdict>>
        /\ request'.answer = IF FoundRecord(r) THEN verdict[r] ELSE "failed"
    BY <1>4, <2>3 DEF ReadSecond, TypeOK
  <2>5. ASSUME ~ FoundRecord(r), verdict[r] = "completed"
        PROVE  put[record] = "failed" \/ Expired(record) \/ objects[r] = "spoilt"
    BY <2>1, <2>2, <2>5
    DEF FoundRecord, Content, EvidenceIsThere, ManifestsHaveObjects, Over, Expired
  <2> QED
    BY <2>2, <2>1, <2>4, <2>5 DEF Over, Expired
<1>5. ASSUME NEW id \in Ids, Fetch(id) PROVE RequestIsRight' /\ RunsAreToldTruly'
  BY <1>5, IdFacts DEF Fetch, NoRequest, EvidenceIsThere, ManifestsHaveObjects
<1>6. CASE FetchEnd
  BY <1>6 DEF FetchEnd, TypeOK
<1>7. CASE Crash \/ ShowRun \/ ShowEvidence
  BY <1>7 DEF Crash, ShowRun, ShowEvidence, NoRequest
<1> QED
  BY <1>1, <1>2, <1>3, <1>4, <1>5, <1>6, <1>7
  DEF Next, FlushBegin, FlushNext, FlushWrites, FlushEnd, Retire, Tamper, vars

(* The evidence that a record names is there.                              *)
LEMMA EvidenceStep == IInv /\ [Next]_vars => EvidenceIsThere'
<1> SUFFICES ASSUME IInv, [Next]_vars PROVE EvidenceIsThere'
  OBVIOUS
<1> USE DEF IInv, runs, storeVars
<1>0. Onward /\ ObjectsStay' /\ TypeOK /\ TypeOK'
  BY NothingTakenBack, TypeStep
<1>1. ManifestsHaveObjects'
  <2>0. \A id \in Ids : objects'[ContentOf(id)] \in {"absent", "whole", "spoilt"}
    <3>1. \A c \in Contents : objects'[c] \in {"absent", "whole", "spoilt"}
      BY <1>0 DEF ObjectsStay, TypeOK, StoreTypeOK
    <3>2. \A id \in Ids : ContentOf(id) \in Contents
      BY IdFacts
    <3> QED
      BY <3>1, <3>2
  <2> SUFFICES ASSUME NEW id \in manifests' PROVE objects'[ContentOf(id)] # "absent"
    BY <1>0, <2>0 DEF ManifestsHaveObjects, TypeOK, StoreTypeOK
  <2>1. id \in Ids /\ ContentOf(id) \in Contents
    BY <1>0, IdFacts DEF TypeOK, StoreTypeOK
  <2>2. CASE id \in manifests
    BY <1>0, <2>1, <2>2 DEF EvidenceIsThere, ManifestsHaveObjects, Onward
  <2>3. CASE id \notin manifests
    <3>1. put[id] = "manifest"
      BY <2>3
      DEF Next, FlushBegin, FlushNext, FlushWrites, FlushEnd, Put, PutObject, PutManifest, PutFail,
          Read, Retire, Expire, Fetch, Tamper, Spoil, Crash, ReadFirst, ReadSecond, ShowRun,
          FetchEnd, ShowEvidence, vars
    <3> QED
      BY <1>0, <2>1, <3>1 DEF ObjectsStay, Onward
  <2> QED
    BY <2>2, <2>3
<1>2. ASSUME request'.pc = "fetched", request'.answer = "missing" PROVE Expired(request.id)'
  <2>1. CASE UNCHANGED request
    <3>1. request.id \in Ids /\ Expired(request.id)
      BY <1>2, <2>1 DEF EvidenceIsThere, RequestIsRight
    <3> QED
      BY <2>1, <3>1, Settled DEF Expired, Over
  <2>2. ASSUME NEW id \in Ids, Fetch(id) PROVE Expired(request.id)'
    <3>1. id \notin manifests /\ request'.id = id
      BY <1>2, <2>2 DEF Fetch, NoRequest
    <3>2. Stored(id)
      BY <2>2, IdFacts DEF Fetch, NamesAreStored
    <3> QED
      BY <2>2, <3>1, <3>2 DEF Fetch, Expired, Stored
  <2>3. ~ FetchEnd
    BY <1>0, <1>2 DEF FetchEnd, Content, RequestIsRight, TypeOK
  <2>4. ~ ReadFirst /\ ~ ReadSecond /\ \A r \in Runs : ~ Read(r)
    BY <1>0, <1>2 DEF ReadFirst, ReadSecond, Read, NoRequest, TypeOK
  <2>5. ~ Crash /\ ~ ShowRun /\ ~ ShowEvidence
    BY <1>2 DEF Crash, ShowRun, ShowEvidence, NoRequest
  <2> QED
    BY <2>1, <2>2, <2>3, <2>4, <2>5
    DEF Next, FlushBegin, FlushNext, FlushWrites, FlushEnd, Retire, Tamper, vars
<1> QED
  BY <1>1, <1>2 DEF EvidenceIsThere

(* All of it together is inductive.                                        *)
LEMMA RecordsInductive == Spec => []IInv
<1>1. IInv /\ [Next]_vars => IInv'
  BY TypeStep, NothingTakenBack, NamesStep, RecordStep, RequestStep, EvidenceStep DEF IInv
<1> QED
  BY <1>1, InitIInv, PTL DEF Spec

(* The store, the collectors and the request in progress are well formed.  *)
THEOREM RecordTypes == Spec => []TypeOK
  BY RecordsInductive, PTL DEF IInv

(* Whatever runs share an object, wherever the Supervisor ends: evidence   *)
(* that was named is missing only once it has expired.                     *)
THEOREM EvidenceNamedIsThere == Spec => []EvidenceIsThere
  BY RecordsInductive, PTL DEF IInv

(* A run is told as passed only if it passed, and one that passed is told  *)
(* as failed only if its record is not to be had.                          *)
THEOREM ToldTruly == Spec => []RunsAreToldTruly
  BY RecordsInductive, PTL DEF IInv
=============================================================================
