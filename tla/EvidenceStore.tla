---------------------------- MODULE EvidenceStore ----------------------------
(***************************************************************************)
(* The content-addressed evidence store (store.ts) in a directory that     *)
(* outlives the Supervisor: an object per content, shared by all evidence  *)
(* that has it, and a manifest per piece of evidence.  Files are written   *)
(* under a temporary name of their own and renamed; the temporary files    *)
(* that a crash leaves are never looked at, and are not modelled.          *)
(*                                                                         *)
(* Evidence is numbered within its run: 0 is the run's record, the others  *)
(* are its assertions, all of the same content.                            *)
(***************************************************************************)
EXTENDS Naturals

CONSTANTS
  Runs,           \* scenario runs, of any life of the Supervisor
  MaxAssertions   \* bound: assertions of a run

Shared == "assertion"   \* what all assertions have written; no run's record is that

ASSUME StoreAssumption == MaxAssertions \in Nat /\ Shared \notin Runs

VARIABLES
  objects,    \* the content's file: absent, whole, spoilt (and torn, half written)
  manifests,  \* the evidence whose manifest is there
  put         \* the call of put() for each piece of evidence

storeVars == <<objects, manifests, put>>

Ids == Runs \X (0..MaxAssertions)
Contents == Runs \cup {Shared}
ContentOf(id) == IF id[2] = 0 THEN id[1] ELSE Shared

StoreTypeOK ==
  /\ objects \in [Contents -> {"absent", "whole", "spoilt", "torn"}]
  /\ manifests \subseteq Ids
  /\ put \in [Ids -> {"none", "object", "manifest", "stored", "failed"}]

StoreInit ==
  /\ objects = [c \in Contents |-> "absent"]
  /\ manifests = {}
  /\ put = [id \in Ids |-> "none"]

Underway(id) == put[id] \in {"object", "manifest"}
Over(id) == put[id] \in {"stored", "failed"}

-----------------------------------------------------------------------------
\* Mutant: the object is written in its place.
PutInPlace(id) ==
  /\ put[id] = "none"
  /\ IF objects[ContentOf(id)] = "absent"
     THEN /\ put' = [put EXCEPT ![id] = "object"]
          /\ objects' = [objects EXCEPT ![ContentOf(id)] = "torn"]
     ELSE /\ put' = [put EXCEPT ![id] = "manifest"]
          /\ UNCHANGED objects
  /\ UNCHANGED manifests

\* put: an object that is there is taken for the content, whatever it holds.
Put(id) ==
  /\ put[id] = "none"
  /\ put' = [put EXCEPT ![id] = IF objects[ContentOf(id)] = "absent" THEN "object" ELSE "manifest"]
  /\ UNCHANGED <<objects, manifests>>

\* The rename, over whatever has been put there in the meantime.
PutObject(id) ==
  /\ put[id] = "object"
  /\ objects' = [objects EXCEPT ![ContentOf(id)] = "whole"]
  /\ put' = [put EXCEPT ![id] = "manifest"]
  /\ UNCHANGED manifests

PutManifest(id) ==
  /\ put[id] = "manifest"
  /\ manifests' = manifests \cup {id}
  /\ put' = [put EXCEPT ![id] = "stored"]
  /\ UNCHANGED objects

\* EVIDENCE_WRITE_FAILED.
PutFail(id) ==
  /\ Underway(id)
  /\ put' = [put EXCEPT ![id] = "failed"]
  /\ UNCHANGED <<objects, manifests>>

\* Mutant: the object goes with the manifest.
ExpireWithObject(id) ==
  /\ id \in manifests
  /\ manifests' = manifests \ {id}
  /\ objects' = [objects EXCEPT ![ContentOf(id)] = "absent"]
  /\ UNCHANGED put

\* expire, retention being over: objects are shared and stay.
Expire(id) ==
  /\ id \in manifests
  /\ manifests' = manifests \ {id}
  /\ UNCHANGED <<objects, put>>

\* Someone else on the host changes an object.
Spoil(c) ==
  /\ objects[c] = "whole"
  /\ objects' = [objects EXCEPT ![c] = "spoilt"]
  /\ UNCHANGED <<manifests, put>>

\* The Supervisor's process ends, and the calls under way with it.
Abandoned == [id \in Ids |-> IF Underway(id) THEN "failed" ELSE put[id]]

-----------------------------------------------------------------------------
\* get, the manifest being read: the object's bytes have the manifest's checksum
\* and size, or not.
Content(id) ==
  CASE objects[ContentOf(id)] = "absent" -> "missing"
    [] objects[ContentOf(id)] = "whole" -> "content"
    [] OTHER -> "mismatch"

\* listManifests, getManifestsByRunId: the names of a run's manifests; what has
\* gone when it is read is passed over.
Files(r) == {id \in manifests : id[1] = r}

-----------------------------------------------------------------------------
\* A manifest's object is there and whole, unless someone else has changed it:
\* whatever crashes, fails or expires around it, and although a second piece of
\* evidence with the same content trusts the object of the first (put, expire).
ManifestsHaveObjects ==
  \A id \in manifests : objects[ContentOf(id)] \in {"whole", "spoilt"}
=============================================================================
