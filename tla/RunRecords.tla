------------------------------ MODULE RunRecords ------------------------------
(***************************************************************************)
(* What becomes of a scenario run: the collector writes its record and its *)
(* assertions to the evidence store (scenario-evidence.ts, flush), and the *)
(* Supervisor answers run.get, run.list and evidence.get from the store    *)
(* (service.ts), while other runs are written, evidence expires, objects   *)
(* are tampered with, and the Supervisor ends and is started again.        *)
(***************************************************************************)
EXTENDS EvidenceStore

VARIABLES
  verdict,   \* how each run has ended
  stage,     \* where the collector of each run is
  returned,  \* the evidence ids that scenario.run has answered
  listed,    \* the evidence id that an agent has from a run's resource, if any
  request    \* a run.get, run.list or evidence.get in progress

runs == <<stage, returned, listed>>
vars == <<storeVars, verdict, runs, request>>

None == "none"
NoRequest == [pc |-> "idle", id |-> <<None, 0>>, names |-> {}, ids |-> {}, answer |-> None]

\* garbled: passed, but its record is cut where it is read, or redacted so that it
\* is JSON no more.
Verdicts == {"completed", "garbled", "failed"}

TypeOK ==
  /\ StoreTypeOK
  /\ verdict \in [Runs -> Verdicts]
  /\ stage \in [Runs -> {"running", "flushing", "flushed", "dead"}]
  /\ returned \in [Runs -> SUBSET Ids]
  /\ listed \subseteq Ids
  /\ request \in [pc : {"idle", "listing", "searching", "told", "reading", "fetched"},
                  id : Ids \cup {<<None, 0>>}, names : SUBSET Ids, ids : SUBSET Ids,
                  answer : {None, "unknown", "completed", "failed",
                            "content", "missing", "mismatch"}]

Init ==
  /\ StoreInit
  /\ verdict \in [Runs -> Verdicts]
  /\ stage = [r \in Runs |-> "running"]
  /\ returned = [r \in Runs |-> {}]
  /\ listed = {}
  /\ request = NoRequest

-----------------------------------------------------------------------------
(* flush: the record, then one assertion after the other.                  *)

EvidenceOf(r) == {id \in Ids : id[1] = r}

FlushBegin(r) ==
  /\ stage[r] = "running"
  /\ stage' = [stage EXCEPT ![r] = "flushing"]
  /\ UNCHANGED <<storeVars, verdict, returned, listed, request>>

\* Mutant: the record, which counts them, is written after the assertions.
FlushRecordLast(r) ==
  /\ stage[r] = "flushing"
  /\ \E id \in EvidenceOf(r) :
       /\ id[2] # 0 \/ \A other \in EvidenceOf(r) \ {id} : Over(other)
       /\ \A other \in EvidenceOf(r) : 0 < other[2] /\ other[2] < id[2] => Over(other)
       /\ Put(id)
  /\ UNCHANGED <<verdict, runs, request>>

FlushNext(r) ==
  /\ stage[r] = "flushing"
  /\ \E id \in EvidenceOf(r) :
       /\ \A other \in EvidenceOf(r) : other[2] < id[2] => Over(other)
       /\ Put(id)
  /\ UNCHANGED <<verdict, runs, request>>

\* A write that fails is logged, and the next one is tried.
FlushWrites(r) ==
  /\ stage[r] = "flushing"
  /\ \E id \in EvidenceOf(r) : PutObject(id) \/ PutManifest(id) \/ PutFail(id)
  /\ UNCHANGED <<verdict, runs, request>>

\* Mutant: the ids are answered whether or not they were stored.
FlushEndUnchecked(r) ==
  /\ stage[r] = "flushing"
  /\ Over(<<r, 0>>)
  /\ \A id \in EvidenceOf(r) : ~Underway(id)
  /\ stage' = [stage EXCEPT ![r] = "flushed"]
  /\ returned' = [returned EXCEPT ![r] = {id \in EvidenceOf(r) : Over(id)}]
  /\ UNCHANGED <<storeVars, verdict, listed, request>>

\* Every assertion there was has been tried; scenario.run answers.
FlushEnd(r) ==
  /\ stage[r] = "flushing"
  /\ Over(<<r, 0>>)
  /\ \A id \in EvidenceOf(r) : ~Underway(id)
  /\ stage' = [stage EXCEPT ![r] = "flushed"]
  /\ returned' = [returned EXCEPT ![r] = {id \in EvidenceOf(r) : put[id] = "stored"}]
  /\ UNCHANGED <<storeVars, verdict, listed, request>>

\* 72 hours are longer than a flush.
Retire(id) ==
  /\ stage[id[1]] \in {"flushed", "dead"}
  /\ Expire(id)
  /\ UNCHANGED <<verdict, runs, request>>

Tamper(c) == Spoil(c) /\ UNCHANGED <<verdict, runs, request>>

\* The Supervisor ends: its runs and requests end with it.
Crash ==
  /\ \E r \in Runs : stage[r] = "flushing"
  /\ put' = Abandoned
  /\ stage' = [r \in Runs |-> IF stage[r] = "flushing" THEN "dead" ELSE stage[r]]
  /\ request' = NoRequest
  /\ UNCHANGED <<objects, manifests, verdict, returned, listed>>

-----------------------------------------------------------------------------
(* A resource of a run is read through run.get (run.list does it for each  *)
(* run): two listings, the second to find the record among the evidence.   *)

Read(r) ==
  /\ request.pc = "idle"
  /\ request' = [NoRequest EXCEPT !.pc = "listing", !.id = <<r, 0>>, !.names = Files(r)]
  /\ UNCHANGED <<storeVars, verdict, runs>>

\* RUN_NOT_FOUND, or on to the second listing.
ReadFirst ==
  /\ request.pc = "listing"
  /\ request' = IF request.names \cap manifests = {}
                THEN [request EXCEPT !.pc = "told", !.answer = "unknown"]
                ELSE [request EXCEPT !.pc = "searching", !.ids = request.names \cap manifests,
                                     !.names = Files(request.id[1])]
  /\ UNCHANGED <<storeVars, verdict, runs>>

\* The record is the evidence with phases; evidence that cannot be read or
\* parsed is passed over.
FoundRecord(r) ==
  /\ <<r, 0>> \in request.names \cap manifests
  /\ Content(<<r, 0>>) = "content"
  /\ verdict[r] # "garbled"

\* A run without a record is `failed'.
ReadSecond ==
  /\ request.pc = "searching"
  /\ LET r == request.id[1] IN
     request' = [request EXCEPT !.pc = "told", !.names = {},
                   !.answer = IF FoundRecord(r) THEN verdict[r] ELSE "failed"]
  /\ UNCHANGED <<storeVars, verdict, runs>>

\* The resource is shown: RESOURCE_NOT_FOUND for an unknown run, its status or
\* events for another, or the ids of its evidence.
ShowRun ==
  /\ request.pc = "told"
  /\ request' = NoRequest
  /\ listed' = listed \/ \E id \in request.ids : listed' = {id}
  /\ UNCHANGED <<storeVars, verdict, stage, returned>>

\* evidence_get of an id that scenario_run or a resource has named.
Fetch(id) ==
  /\ request.pc = "idle"
  /\ id \in returned[id[1]] \cup listed
  /\ request' = IF id \in manifests THEN [NoRequest EXCEPT !.pc = "reading", !.id = id]
                ELSE [NoRequest EXCEPT !.pc = "fetched", !.id = id, !.answer = "missing"]
  /\ UNCHANGED <<storeVars, verdict, runs>>

\* The manifest has been read: that it expires now makes no difference.
FetchEnd ==
  /\ request.pc = "reading"
  /\ request' = [request EXCEPT !.pc = "fetched", !.answer = Content(request.id)]
  /\ UNCHANGED <<storeVars, verdict, runs>>

\* evidence_get: OUTPUT_LIMIT_EXCEEDED beyond 512,000 bytes, which is left out.
ShowEvidence ==
  /\ request.pc = "fetched"
  /\ request' = NoRequest
  /\ UNCHANGED <<storeVars, verdict, runs>>

Next ==
  \/ \E r \in Runs : FlushBegin(r) \/ FlushNext(r) \/ FlushWrites(r) \/ FlushEnd(r) \/ Read(r)
  \/ \E id \in Ids : Retire(id) \/ Fetch(id)
  \/ \E c \in Contents : Tamper(c)
  \/ Crash
  \/ ReadFirst \/ ReadSecond \/ ShowRun \/ FetchEnd \/ ShowEvidence

Spec == Init /\ [][Next]_vars

-----------------------------------------------------------------------------
Expired(id) == put[id] = "stored" /\ id \notin manifests

\* run.get and run.list tell how a run has ended, also while it is written, while
\* its evidence expires between their two listings, and after a crash: a run is
\* told as passed only if it passed; one that passed, with a record that can be
\* read back, is `failed' only if the record was never written, has expired, or
\* was tampered with (runGet, runList, #findMainRunEvidence, flush).
RunsAreToldTruly ==
  LET record == request.id
      r == record[1]
  IN
  request.pc = "told" =>
    /\ request.answer = "completed" => verdict[r] = "completed"
    /\ request.answer = "failed" /\ verdict[r] = "completed" =>
         put[record] = "failed" \/ Expired(record) \/ objects[r] = "spoilt"

\* Evidence that scenario.run has answered, or a resource has named, the evidence
\* of a run that never answered included, is missing only once it has expired,
\* whoever shares its object; and a manifest has its object (put, expire, flush,
\* runGet, evidenceGet).
EvidenceIsThere ==
  /\ ManifestsHaveObjects
  /\ request.pc = "fetched" /\ request.answer = "missing" => Expired(request.id)

-----------------------------------------------------------------------------
\* What makes them inductive.
Stored(id) == put[id] = "stored"

\* An object that has come stays, and is there before anything refers to it.
ObjectsStay ==
  /\ \A c \in Contents : objects[c] # "torn"
  /\ \A id \in Ids : put[id] = "manifest" => objects[ContentOf(id)] # "absent"

\* Whoever names a piece of evidence has it from one that was stored.
NamesAreStored ==
  /\ \A id \in manifests \cup listed \cup request.ids : Stored(id)
  /\ \A r \in Runs : \A id \in returned[r] : Stored(id)

\* A run's record has been tried before any of its assertions.
RecordIsFirst == \A id \in Ids : put[id] # "none" /\ id[2] # 0 => Over(<<id[1], 0>>)

\* What a request has seen still holds after its await.
RequestIsRight ==
  LET id == request.id
      aboutARun == {"listing", "searching", "told"}
  IN
  /\ request.pc \in aboutARun => id \in Runs \X {0}
  /\ request.pc = "listing" => \A other \in request.names : other[1] = id[1]
  /\ request.pc = "searching" => Over(id) /\ (id \in manifests => id \in request.names)
  /\ request.pc = "told" /\ request.answer = "failed" => Over(id)
  /\ request.pc = "reading" => id \in Ids /\ objects[ContentOf(id)] # "absent"
  /\ request.pc = "fetched" => id \in Ids

IInv ==
  /\ TypeOK /\ ObjectsStay /\ NamesAreStored /\ RecordIsFirst /\ RequestIsRight
  /\ RunsAreToldTruly /\ EvidenceIsThere
=============================================================================
