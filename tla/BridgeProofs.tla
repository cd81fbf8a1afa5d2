---------------------------- MODULE BridgeProofs ----------------------------
(* Theorems about the Bridge: about a request's way to the main thread, for *)
(* any requests, keys and pool, and about what the operations do there, for *)
(* any actors, cells, chunks and tickets.                                  *)
EXTENDS BridgeActions, BridgeWorld, WellFoundedInduction, FiniteSetTheorems, SequenceTheorems, TLAPS

(* What the queues' operators do to who is in them.                        *)
LEMMA AppendFacts ==
  ASSUME NEW S, NEW s \in Seq(S), NEW e \in S
  PROVE  /\ Append(s, e) \in Seq(S) /\ Len(Append(s, e)) = Len(s) + 1
         /\ \A x : Contains(Append(s, e), x) <=> Contains(s, x) \/ x = e
         /\ IsInjective(s) /\ ~ Contains(s, e) => IsInjective(Append(s, e))
  BY DEF Contains, IsInjective

(* What is left of a sequence without its head.                            *)
LEMMA TailFacts ==
  ASSUME NEW S, NEW s \in Seq(S), s # <<>>
  PROVE  /\ Head(s) \in S /\ Contains(s, Head(s))
         /\ Tail(s) \in Seq(S) /\ Len(Tail(s)) = Len(s) - 1
         /\ \A x : Contains(Tail(s), x) => Contains(s, x)
         /\ IsInjective(s) => IsInjective(Tail(s)) /\ ~ Contains(Tail(s), Head(s))
  BY DEF Contains, IsInjective

(* And without any one of its elements.                                    *)
LEMMA RemoveAtFacts ==
  ASSUME NEW S, NEW s \in Seq(S), NEW n \in 1..Len(s)
  PROVE  /\ RemoveAt(s, n) \in Seq(S)
         /\ \A x : Contains(RemoveAt(s, n), x) => Contains(s, x)
         /\ IsInjective(s) => IsInjective(RemoveAt(s, n))
<1> DEFINE before == SubSeq(s, 1, n - 1)
           after == SubSeq(s, n + 1, Len(s))
<1>1. /\ before \in Seq(S) /\ Len(before) = n - 1
      /\ \A m \in 1..(n - 1) : before[m] = s[m]
  <2>1. \A m \in 1..(n - 1) : s[m] \in S
    OBVIOUS
  <2> QED
    BY <2>1, SubSeqProperties
<1>2. /\ after \in Seq(S) /\ Len(after) = Len(s) - n
      /\ \A m \in 1..(Len(s) - n) : after[m] = s[n + m]
  <2>1. \A m \in (n + 1)..Len(s) : s[m] \in S
    OBVIOUS
  <2> QED
    BY <2>1, SubSeqProperties
<1>3. RemoveAt(s, n) = before \o after
  BY DEF RemoveAt
<1> HIDE DEF before, after
<1>4. /\ before \o after \in Seq(S)
      /\ Len(before \o after) = Len(before) + Len(after)
      /\ \A m \in 1..Len(before) + Len(after) :
           (before \o after)[m] = IF m <= Len(before) THEN before[m] ELSE after[m - Len(before)]
  BY <1>1, <1>2, ConcatProperties
<1>5. Len(before \o after) = Len(s) - 1
  BY <1>1, <1>2, <1>4
<1>6. \A m \in 1..(Len(s) - 1) : (before \o after)[m] = s[IF m < n THEN m ELSE m + 1]
  <2> SUFFICES ASSUME NEW m \in 1..(Len(s) - 1)
               PROVE  (before \o after)[m] = s[IF m < n THEN m ELSE m + 1]
    OBVIOUS
  <2>1. CASE m < n
    BY <1>1, <1>2, <1>4, <2>1
  <2>2. CASE ~ m < n
    <3>1. m - (n - 1) \in 1..(Len(s) - n) /\ ~ m <= n - 1
      BY <2>2
    <3>2. (before \o after)[m] = after[m - (n - 1)]
      BY <1>1, <1>2, <1>4, <3>1
    <3>3. after[m - (n - 1)] = s[n + (m - (n - 1))]
      BY <1>2, <3>1
    <3>4. n + (m - (n - 1)) = m + 1
      OBVIOUS
    <3> QED
      BY <2>2, <3>2, <3>3, <3>4
  <2> QED
    BY <2>1, <2>2
<1>7. ASSUME NEW x, Contains(before \o after, x) PROVE Contains(s, x)
  <2>1. PICK m \in 1..(Len(s) - 1) : (before \o after)[m] = x
    BY <1>5, <1>7 DEF Contains
  <2>2. (IF m < n THEN m ELSE m + 1) \in 1..Len(s)
    OBVIOUS
  <2> QED
    BY <1>6, <2>1, <2>2 DEF Contains
<1>8. ASSUME IsInjective(s) PROVE IsInjective(before \o after)
  <2>0. DOMAIN (before \o after) = 1..(Len(s) - 1)
    <3>1. \A t \in Seq(S) : DOMAIN t = 1..Len(t)
      OBVIOUS
    <3> QED
      BY <1>4, <1>5, <3>1
  <2> SUFFICES ASSUME NEW l \in 1..(Len(s) - 1), NEW m \in 1..(Len(s) - 1),
                      (before \o after)[l] = (before \o after)[m]
               PROVE  l = m
    BY <2>0 DEF IsInjective
  <2>1. s[IF l < n THEN l ELSE l + 1] = s[IF m < n THEN m ELSE m + 1]
    BY <1>6
  <2>2. (IF l < n THEN l ELSE l + 1) \in 1..Len(s) /\ (IF m < n THEN m ELSE m + 1) \in 1..Len(s)
    OBVIOUS
  <2>3. (IF l < n THEN l ELSE l + 1) = (IF m < n THEN m ELSE m + 1)
    BY <1>8, <2>1, <2>2 DEF IsInjective
  <2> QED
    BY <2>3
<1> QED
  BY <1>3, <1>4, <1>7, <1>8

(* What clients have been told, in the words of the properties.            *)
LEMMA TrueAnswers == TypeOK /\ ToldTruly => AnswersAreTrue
  BY DEF AnswersAreTrue, AnswersSpeakOfEffects, FailedMeansUntouched, AppliedFor, Applied, Contains,
         TypeOK, ToldTruly

(* The invariant at the start.                                             *)
LEMMA InitIInv == Init => IInv
<1> SUFFICES ASSUME Init PROVE IInv
  OBVIOUS
<1> USE DEF Init
<1>1. TypeOK
  <2>1. Busy = {}
    BY DEF Busy
  <2> QED
    BY <2>1, FS_EmptySet, BridgeAssumption DEF TypeOK, Phases, Outcomes
<1>2. OnceEach /\ WayOfRequests /\ CacheIsTrue /\ ToldTruly
  BY DEF OnceEach, IsInjective, Contains, WayOfRequests, Sent, Queued, Handed, Applied, CacheIsTrue,
         ToldTruly, Requests, None, Mutations
<1>3. SentInOrder /\ OneOfAKey
  BY DEF SentInOrder, OneOfAKey, SameKey, Sent, Mutations
<1> QED
  BY <1>1, <1>2, <1>3 DEF IInv

(* The places of the requests, action by action: types, nobody twice, and  *)
(* who may have come where.                                                *)
Typed == TypeOK /\ OnceEach

(* The requests that hold a worker are finitely many.                      *)
LEMMA BusyFacts ==
  ASSUME TypeOK
  PROVE  /\ IsFiniteSet(Busy) /\ Cardinality(Busy) \in Nat /\ Len(queue) \in Nat
         /\ \A r \in Requests : /\ IsFiniteSet(Busy \cup {r})
                               /\ Cardinality(Busy \cup {r}) <= Cardinality(Busy) + 1
         /\ \A T \in SUBSET Busy : Cardinality(T) \in Nat /\ Cardinality(T) <= Cardinality(Busy)
<1>1. IsFiniteSet(Requests) /\ Busy \subseteq Requests
  BY FS_Interval, BridgeAssumption DEF Requests, Busy
<1>2. IsFiniteSet(Busy)
  BY <1>1, FS_Subset
<1>3. Cardinality(Busy) \in Nat /\ Len(queue) \in Nat
  BY <1>2, FS_CardinalityType DEF TypeOK
<1>4. \A r \in Requests : /\ IsFiniteSet(Busy \cup {r})
                         /\ Cardinality(Busy \cup {r}) <= Cardinality(Busy) + 1
  <2> SUFFICES ASSUME NEW r \in Requests
               PROVE  /\ IsFiniteSet(Busy \cup {r})
                      /\ Cardinality(Busy \cup {r}) <= Cardinality(Busy) + 1
    OBVIOUS
  <2>1. /\ IsFiniteSet(Busy \cup {r})
        /\ Cardinality(Busy \cup {r}) = IF r \in Busy THEN Cardinality(Busy) ELSE Cardinality(Busy) + 1
    BY <1>2, FS_AddElement
  <2> QED
    BY <1>3, <2>1
<1>5. \A T \in SUBSET Busy : Cardinality(T) \in Nat /\ Cardinality(T) <= Cardinality(Busy)
  BY <1>2, FS_Subset, FS_CardinalityType
<1> QED
  BY <1>2, <1>3, <1>4, <1>5

(* A reply touches what its own client has seen, and nothing else.         *)
LEMMA ReplyFacts ==
  ASSUME TypeOK, NEW r \in Requests, NEW o \in Outcomes, NEW a \in Requests \cup {None}, Reply(r, o, a)
  PROVE  /\ UNCHANGED key
         /\ seen' \in [Requests -> Outcomes] /\ answer' \in [Requests -> Requests \cup {None}]
         /\ \A x \in Requests : x # r => seen'[x] = seen[x] /\ answer'[x] = answer[x]
         /\ seen[r] = "pending" => seen'[r] = o /\ answer'[r] = a
         /\ seen[r] # "pending" => seen'[r] = seen[r] /\ answer'[r] = answer[r]
  BY DEF Reply, TypeOK, client

(* Where each step leaves the requests: a new one is queued or turned      *)
(* away.                                                                   *)
LEMMA SendPlaces ==
  ASSUME Typed, WayOfRequests, NEW r \in Requests, NEW k \in Keys \cup {NoKey}, Send(r, k)
  PROVE  /\ Typed'
         /\ \A x : Queued(x)' => Queued(x) \/ (x = r /\ phase'[r] = "queued")
<1> USE DEF Typed, OnceEach, Queued, bridge, paper
<1>1. ~ Queued(r)
  BY DEF Send, WayOfRequests, Sent
<1>2. queue' \in Seq(Requests) /\ IsInjective(queue')
      /\ \A x : Contains(queue', x) => Contains(queue, x) \/ (x = r /\ HasRoom)
  <2>1. CASE HasRoom
    BY <1>1, <2>1, AppendFacts DEF Send, TypeOK
  <2>2. CASE ~ HasRoom
    BY <2>2 DEF Send, TypeOK, IsInjective, Contains
  <2> QED
    BY <2>1, <2>2
<1>3. Busy' \subseteq Busy
  BY DEF Send, Busy, TypeOK
<1>4. Cardinality(Busy') + Len(queue') <= Workers + QueueCapacity
  BY <1>3, BusyFacts, AppendFacts, BridgeAssumption DEF Send, TypeOK, HasRoom
<1>5. TypeOK'
  BY <1>2, <1>4 DEF Send, TypeOK, Phases, Outcomes
<1> QED
  BY <1>2, <1>5 DEF Send, TypeOK

(* A request that a worker turns away leaves the queue.                    *)
LEMMA TurnAwayPlaces ==
  ASSUME Typed, TurnAway
  PROVE  /\ Typed' /\ Head(queue) \in Requests /\ Queued(Head(queue)) /\ ~ Contains(queue', Head(queue))
         /\ \A x : Queued(x)' => Queued(x)
<1> USE DEF Typed, OnceEach, Queued, paper
<1> DEFINE r == Head(queue)
<1>1. /\ r \in Requests /\ Contains(queue, r) /\ queue' \in Seq(Requests) /\ IsInjective(queue')
      /\ Len(queue') = Len(queue) - 1 /\ ~ Contains(queue', r)
      /\ \A x : Contains(queue', x) => Contains(queue, x)
  BY TailFacts DEF TurnAway, TypeOK
<1>2. Busy' \subseteq Busy
  BY <1>1 DEF TurnAway, Busy, TypeOK
<1>3. Cardinality(Busy') + Len(queue') <= Workers + QueueCapacity
  <2>1. Cardinality(Busy') \in Nat /\ Cardinality(Busy') <= Cardinality(Busy)
    BY <1>2, BusyFacts
  <2>2. Cardinality(Busy) + Len(queue) <= Workers + QueueCapacity
    BY DEF TypeOK
  <2> QED
    BY <1>1, <2>1, <2>2, BusyFacts, BridgeAssumption
<1>4. Reply(r, "failed", None)
  BY DEF TurnAway
<1>5. TypeOK'
  BY <1>1, <1>3, <1>4, ReplyFacts DEF TurnAway, TypeOK, Phases, Outcomes
<1> QED
  <2>1. UNCHANGED <<tasks, main, applied>>
    BY DEF TurnAway
  <2> QED
    BY <1>1, <1>5, <2>1 DEF IsInjective, Contains

(* One that a worker takes leaves it as well, and may be handed to the     *)
(* server thread.                                                          *)
LEMMA TakePlaces ==
  ASSUME Typed, WayOfRequests, Take
  PROVE  /\ Typed' /\ Head(queue) \in Requests /\ Queued(Head(queue)) /\ ~ Contains(queue', Head(queue))
         /\ \A x : Queued(x)' => Queued(x)
         /\ \A x : Handed(x)' => Handed(x) \/ (x = Head(queue) /\ phase'[x] = "waiting")
<1> USE DEF Typed, OnceEach, Queued, Handed
<1> DEFINE r == Head(queue)
           hit == key[r] # NoKey /\ cache[key[r]] # None
<1>1. /\ r \in Requests /\ Contains(queue, r) /\ queue' \in Seq(Requests) /\ IsInjective(queue')
      /\ Len(queue') = Len(queue) - 1 /\ ~ Contains(queue', r)
      /\ \A x : Contains(queue', x) => Contains(queue, x)
  BY TailFacts DEF Take, TypeOK
<1>2. ~ Contains(tasks, r) /\ main # r
  BY <1>1 DEF WayOfRequests
<1>3. /\ tasks' \in Seq(Requests) /\ IsInjective(tasks')
      /\ \A x : Contains(tasks', x) => Contains(tasks, x) \/ (x = r /\ ~ hit)
  <2>1. tasks \in Seq(Requests)
    BY DEF TypeOK
  <2>2. CASE hit
    BY <2>1, <2>2 DEF Take, IsInjective, Contains
  <2>3. CASE ~ hit
    <3>1. tasks' = Append(tasks, r)
      BY <2>3 DEF Take
    <3>2. IsInjective(tasks)
      OBVIOUS
    <3>3. /\ Append(tasks, r) \in Seq(Requests) /\ IsInjective(Append(tasks, r))
          /\ \A x : Contains(Append(tasks, r), x) <=> Contains(tasks, x) \/ x = r
      BY <1>1, <1>2, <2>1, <3>2, AppendFacts
    <3> QED
      BY <2>3, <3>1, <3>3
  <2> QED
    BY <2>2, <2>3
<1>4. Busy' \subseteq Busy \cup {r} /\ (hit => Busy' \subseteq Busy)
  BY <1>1 DEF Take, Busy, TypeOK
<1>5. Cardinality(Busy') <= Cardinality(Busy) + 1 /\ Cardinality(Busy') \in Nat
  <2>1. IsFiniteSet(Busy \cup {r}) /\ Cardinality(Busy \cup {r}) <= Cardinality(Busy) + 1
    BY <1>1, BusyFacts
  <2>2. Cardinality(Busy') \in Nat /\ Cardinality(Busy') <= Cardinality(Busy \cup {r})
    BY <1>4, <2>1, FS_Subset, FS_CardinalityType
  <2> QED
    BY <2>1, <2>2, FS_CardinalityType, BusyFacts
<1>6. Cardinality(Busy') + Len(queue') <= Workers + QueueCapacity
  BY <1>1, <1>5, BusyFacts, BridgeAssumption DEF TypeOK
<1>7. key' = key /\ seen' \in [Requests -> Outcomes] /\ answer' \in [Requests -> Requests \cup {None}]
  <2>1. CASE hit
    <3>1. cache[key[r]] \in Requests \cup {None}
      BY <1>1, <2>1 DEF TypeOK
    <3> QED
      BY <1>1, <2>1, <3>1, ReplyFacts DEF Take, Outcomes
  <2>2. CASE ~ hit
    BY <2>2 DEF Take, TypeOK, client
  <2> QED
    BY <2>1, <2>2
<1>8. TypeOK'
  BY <1>1, <1>3, <1>6, <1>7 DEF Take, TypeOK, Phases
<1> QED
  <2>1. UNCHANGED <<main, applied>>
    BY DEF Take
  <2>2. ~ hit => phase'[r] = "waiting"
    BY <1>1 DEF Take, TypeOK
  <2> QED
    BY <1>1, <1>2, <1>3, <1>8, <2>1, <2>2

(* Workers that get free keep the pool within its bounds.                  *)
LEMMA FewerBusy ==
  ASSUME TypeOK, Busy' \subseteq Busy, queue' = queue
  PROVE  Cardinality(Busy') + Len(queue') <= Workers + QueueCapacity
<1>1. Cardinality(Busy') \in Nat /\ Cardinality(Busy') <= Cardinality(Busy)
  BY BusyFacts
<1>2. Cardinality(Busy) + Len(queue) <= Workers + QueueCapacity
  BY DEF TypeOK
<1> QED
  BY <1>1, <1>2, BusyFacts, BridgeAssumption

(* An answer frees a worker and moves no other request.                    *)
LEMMA FinishPlaces ==
  ASSUME Typed, NEW r \in Requests, Finish(r)
  PROVE  Typed'
<1> USE DEF Typed, OnceEach, paper
<1>1. Busy' \subseteq Busy /\ queue' = queue
  BY DEF Finish, Busy, TypeOK
<1>2. key' = key /\ seen' \in [Requests -> Outcomes] /\ answer' \in [Requests -> Requests \cup {None}]
  BY ReplyFacts DEF Finish, Outcomes
<1>3. cache' \in [Keys -> Requests \cup {None}]
  BY DEF Finish, TypeOK
<1>4. TypeOK'
  BY <1>1, <1>2, <1>3, FewerBusy DEF Finish, TypeOK, Phases
<1>5. queue' = queue /\ tasks' = tasks /\ main' = main /\ applied' = applied
  BY DEF Finish
<1> QED
  BY <1>4, <1>5

(* A client that gives up withdraws nothing that was handed over.          *)
LEMMA TimeoutPlaces ==
  ASSUME Typed, NEW r \in Requests, Timeout(r)
  PROVE  /\ Typed'
         /\ \A x \in Requests : Handed(x)' => Handed(x)
<1> USE DEF Typed, OnceEach, Handed
<1>1. Busy' \subseteq Busy /\ queue' = queue
  BY DEF Timeout, Busy, TypeOK
<1>2. key' = key /\ seen' \in [Requests -> Outcomes] /\ answer' \in [Requests -> Requests \cup {None}]
  BY ReplyFacts DEF Timeout, Outcomes
<1>3. /\ tasks' \in Seq(Requests) /\ IsInjective(tasks')
      /\ \A x : Contains(tasks', x) => Contains(tasks, x)
  <2>0. tasks \in Seq(Requests) /\ IsInjective(tasks)
    BY DEF TypeOK
  <2>1. ASSUME NEW n \in 1..Len(tasks), tasks' = RemoveAt(tasks, n)
        PROVE  /\ tasks' \in Seq(Requests) /\ IsInjective(tasks')
               /\ \A x : Contains(tasks', x) => Contains(tasks, x)
    <3>1. /\ RemoveAt(tasks, n) \in Seq(Requests) /\ IsInjective(RemoveAt(tasks, n))
          /\ \A x : Contains(RemoveAt(tasks, n), x) => Contains(tasks, x)
      BY <2>0, RemoveAtFacts
    <3> QED
      BY <2>1, <3>1
  <2>2. CASE tasks' = tasks
    BY <2>0, <2>2
  <2> QED
    BY <2>1, <2>2 DEF Timeout
<1>4. abandoned' \subseteq Requests
  BY DEF Timeout, TypeOK
<1>5. TypeOK'
  BY <1>1, <1>2, <1>3, <1>4, FewerBusy DEF Timeout, TypeOK, Phases
<1>6. main' = main /\ applied' = applied
  BY DEF Timeout
<1> QED
  BY <1>1, <1>3, <1>5, <1>6

(* The server thread takes what was handed over.                           *)
LEMMA StartPlaces ==
  ASSUME Typed, TaskStart
  PROVE  /\ Typed'
         /\ \A x \in Requests : Handed(x)' => Handed(x)
<1> USE DEF Typed, OnceEach, Handed
<1>1. /\ Head(tasks) \in Requests /\ Contains(tasks, Head(tasks))
      /\ Tail(tasks) \in Seq(Requests) /\ IsInjective(Tail(tasks))
      /\ ~ Contains(Tail(tasks), Head(tasks))
      /\ \A x : Contains(Tail(tasks), x) => Contains(tasks, x)
  BY TailFacts DEF TaskStart, TypeOK
<1>2. tasks' = Tail(tasks) /\ main' \in {None, Head(tasks)} /\ ~ Contains(tasks, None)
  BY DEF TaskStart
<1>3. queue' = queue /\ applied' = applied /\ Busy' = Busy
  BY DEF TaskStart, Busy
<1>4. TypeOK'
  BY <1>1, <1>2, <1>3 DEF TaskStart, TypeOK, client
<1> QED
  BY <1>1, <1>2, <1>3, <1>4 DEF None, Requests

(* A task that ends applies its own request only.                          *)
LEMMA EndPlaces ==
  ASSUME Typed, WayOfRequests, TaskEnd
  PROVE  /\ Typed'
         /\ \A x \in Requests : Handed(x)' => Handed(x) /\ x # main
         /\ \A x : Applied(x)' <=> Applied(x) \/ (x = main /\ main \in Mutations)
<1> USE DEF Typed, OnceEach, Handed, Applied
<1>1. main \in Requests /\ ~ Contains(applied, main) /\ ~ Contains(tasks, main)
  BY DEF TaskEnd, TypeOK, WayOfRequests
<1>2. /\ applied' \in Seq(Requests) /\ IsInjective(applied')
      /\ \A x : Contains(applied', x) <=> Contains(applied, x) \/ (x = main /\ main \in Mutations)
  <2>0. applied \in Seq(Requests) /\ IsInjective(applied)
    BY DEF TypeOK
  <2>1. CASE main \in Mutations
    <3>1. applied' = Append(applied, main)
      BY <2>1 DEF TaskEnd
    <3>2. /\ Append(applied, main) \in Seq(Requests) /\ IsInjective(Append(applied, main))
          /\ \A x : Contains(Append(applied, main), x) <=> Contains(applied, x) \/ x = main
      BY <1>1, <2>0, AppendFacts
    <3> QED
      BY <2>1, <3>1, <3>2
  <2>2. CASE main \notin Mutations
    BY <2>0, <2>2 DEF TaskEnd
  <2> QED
    BY <2>1, <2>2
<1>3. queue' = queue /\ tasks' = tasks /\ main' = None /\ Busy' = Busy
  BY DEF TaskEnd, Busy
<1>4. \A x \in Requests : ~ (None = x)
  BY DEF None, Requests
<1>5. ~ Contains(tasks, None)
  BY <1>4 DEF TypeOK, Contains
<1>6. TypeOK'
  BY <1>1, <1>2, <1>3 DEF TaskEnd, Complete, TypeOK, client
<1> QED
  BY <1>1, <1>2, <1>3, <1>4, <1>5, <1>6

(* A task that fails applies nothing.                                      *)
LEMMA FailPlaces ==
  ASSUME Typed, TaskFail
  PROVE  /\ Typed' /\ main \in Requests
         /\ \A x \in Requests : Handed(x)' => Handed(x) /\ x # main
<1> USE DEF Typed, OnceEach, Handed
<1>1. main \in Requests /\ ~ Contains(tasks, main)
  BY DEF TaskFail, TypeOK
<1>2. queue' = queue /\ tasks' = tasks /\ applied' = applied /\ main' = None /\ Busy' = Busy
  BY DEF TaskFail, Busy
<1>3. \A x \in Requests : ~ (None = x)
  BY DEF None, Requests
<1>4. ~ Contains(tasks, None)
  BY <1>3 DEF TypeOK, Contains
<1>5. TypeOK'
  BY <1>1, <1>2 DEF TaskFail, Complete, TypeOK, client
<1> QED
  BY <1>1, <1>2, <1>3, <1>4, <1>5

(* A Bridge that stops forgets its queue and hands over nothing new.       *)
LEMMA StoppedPlaces ==
  ASSUME Typed, Stopped
  PROVE  /\ Typed'
         /\ \A x : ~ Queued(x)'
         /\ \A x \in Requests : Handed(x)' => Handed(x)
<1> USE DEF Typed, OnceEach, Queued, Handed
<1>1. <<>> \in Seq(Requests) /\ Len(<<>>) = 0 /\ IsInjective(<<>>) /\ \A x : ~ Contains(<<>>, x)
  BY DEF Contains, IsInjective
<1>2. queue' = <<>> /\ tasks' = <<>> /\ main' = main /\ applied' = applied
  BY DEF Stopped
<1>3. Busy' \subseteq Busy
  BY DEF Stopped, Busy, TypeOK
<1>4. Cardinality(Busy') + Len(queue') <= Workers + QueueCapacity
  <2>1. Cardinality(Busy') \in Nat /\ Cardinality(Busy') <= Cardinality(Busy)
    BY <1>3, BusyFacts
  <2>2. Cardinality(Busy) + Len(queue) <= Workers + QueueCapacity
    BY DEF TypeOK
  <2> QED
    BY <1>1, <1>2, <2>1, <2>2, BusyFacts, BridgeAssumption
<1>5. TypeOK'
  BY <1>1, <1>2, <1>4 DEF Stopped, TypeOK, Phases, Outcomes
<1> QED
  BY <1>1, <1>2, <1>5

(* What stays where it is.                                                 *)
LEMMA QueuedStays == ASSUME queue' = queue PROVE \A x : Queued(x)' <=> Queued(x)
  BY DEF Queued

(* Frame: what is handed over depends on the tasks and the server thread.  *)
LEMMA HandedStays == ASSUME tasks' = tasks, main' = main PROVE \A x : Handed(x)' <=> Handed(x)
  BY DEF Handed

(* Frame: what is applied depends on the applied requests.                 *)
LEMMA AppliedStays == ASSUME applied' = applied PROVE \A x : Applied(x)' <=> Applied(x)
  BY DEF Applied

(* Every step keeps each request at one place of its way.                  *)
LEMMA WayStep == Typed /\ WayOfRequests /\ [Next]_vars => Typed' /\ WayOfRequests'
<1> SUFFICES ASSUME Typed, WayOfRequests, [Next]_vars PROVE Typed' /\ WayOfRequests'
  OBVIOUS
<1>0. TypeOK
  BY DEF Typed
<1>1. ASSUME NEW r \in Requests, NEW k \in Keys \cup {NoKey}, Send(r, k)
      PROVE  Typed' /\ WayOfRequests'
  <2>1. /\ Typed'
        /\ \A x : Queued(x)' => Queued(x) \/ (x = r /\ phase'[r] = "queued")
    BY <1>1, SendPlaces
  <2>2. \A x : (Handed(x)' <=> Handed(x)) /\ (Applied(x)' <=> Applied(x))
    BY <1>1, HandedStays, AppliedStays DEF Send, paper
  <2>3. Mutations' = Mutations \/ Mutations' = Mutations \cup {r} \/ Mutations' = Mutations \ {r}
    BY <1>0, <1>1 DEF Send, Mutations, TypeOK
  <2>4. ~ Applied(r) /\ ~ Handed(r) /\ future[r] = "none"
    BY <1>0, <1>1 DEF Send, WayOfRequests, Sent, TypeOK
  <2> QED
    BY <1>0, <1>1, <2>1, <2>2, <2>3, <2>4 DEF WayOfRequests, Send, Sent, TypeOK
<1>2. ASSUME NEW r \in Requests, GiveUp(r) PROVE Typed' /\ WayOfRequests'
  <2>1. \A x : (Queued(x)' <=> Queued(x)) /\ (Handed(x)' <=> Handed(x)) /\ (Applied(x)' <=> Applied(x))
    BY <1>2, QueuedStays, HandedStays, AppliedStays DEF GiveUp, bridge, paper
  <2>2. Typed'
    BY <1>0, <1>2 DEF GiveUp, bridge, paper, Typed, TypeOK, OnceEach, Busy, Outcomes
  <2> QED
    BY <1>0, <1>2, <2>1, <2>2 DEF WayOfRequests, GiveUp, bridge, Sent, Mutations, TypeOK
<1>3. CASE TurnAway
  <2>0. PICK r \in Requests : r = Head(queue)
    BY <1>3, TurnAwayPlaces
  <2>1. Typed' /\ r \in Requests /\ Queued(r) /\ ~ Contains(queue', r) /\ \A x : Queued(x)' => Queued(x)
    BY <1>3, <2>0, TurnAwayPlaces
  <2>2. \A x : (Handed(x)' <=> Handed(x)) /\ (Applied(x)' <=> Applied(x))
    BY <1>3, HandedStays, AppliedStays DEF TurnAway, paper
  <2>3. Reply(r, "failed", None)
    BY <1>3, <2>0 DEF TurnAway
  <2>4. /\ UNCHANGED key
        /\ \A x \in Requests : x # r => seen'[x] = seen[x]
        /\ seen[r] = "pending" => seen'[r] = "failed"
        /\ seen[r] # "pending" => seen'[r] = seen[r]
    BY <1>0, <2>1, <2>3, ReplyFacts DEF Outcomes
  <2>5. ~ Queued(r)'
    BY <2>1 DEF Queued
  <2>6. phase[r] = "queued" /\ phase' = [phase EXCEPT ![r] = "over"] /\ UNCHANGED future
    BY <1>3, <2>0, <2>1 DEF TurnAway, WayOfRequests
  <2> QED
    BY <1>0, <2>1, <2>2, <2>4, <2>5, <2>6 DEF WayOfRequests, Sent, Mutations, TypeOK
<1>4. CASE Take
  <2>0. PICK r \in Requests : r = Head(queue)
    BY <1>4, TakePlaces
  <2> DEFINE hit == key[r] # NoKey /\ cache[key[r]] # None
  <2>1. /\ Typed' /\ r \in Requests /\ Queued(r) /\ ~ Contains(queue', r)
        /\ \A x : Queued(x)' => Queued(x)
        /\ \A x : Handed(x)' => Handed(x) \/ (x = r /\ phase'[x] = "waiting")
    BY <1>4, <2>0, TakePlaces
  <2>2. \A x : Applied(x)' <=> Applied(x)
    BY <1>4, AppliedStays DEF Take
  <2>3. /\ UNCHANGED key
        /\ \A x \in Requests : x # r => seen'[x] = seen[x]
        /\ seen[r] = "pending" => seen'[r] \in {"pending", "ok"}
        /\ seen[r] # "pending" => seen'[r] = seen[r]
    <3>1. CASE hit
      <4>1. cache[key[r]] \in Requests \cup {None}
        BY <1>0, <2>1, <3>1 DEF TypeOK
      <4> QED
        BY <1>0, <1>4, <2>0, <2>1, <3>1, <4>1, ReplyFacts DEF Take, Outcomes
    <3>2. CASE ~ hit
      BY <1>4, <2>0, <3>2 DEF Take, client
    <3> QED
      BY <3>1, <3>2
  <2>4. ~ Queued(r)'
    BY <2>1 DEF Queued
  <2>5. /\ phase[r] = "queued" /\ UNCHANGED future
        /\ \/ phase' = [phase EXCEPT ![r] = "over"]
           \/ phase' = [phase EXCEPT ![r] = "waiting"]
    BY <1>4, <2>0, <2>1 DEF Take, WayOfRequests
  <2> QED
    BY <1>0, <2>1, <2>2, <2>3, <2>4, <2>5 DEF WayOfRequests, Sent, Mutations, TypeOK
<1>5. ASSUME NEW r \in Requests, Finish(r) PROVE Typed' /\ WayOfRequests'
  <2>1. \A x : (Queued(x)' <=> Queued(x)) /\ (Handed(x)' <=> Handed(x)) /\ (Applied(x)' <=> Applied(x))
    BY <1>5, QueuedStays, HandedStays, AppliedStays DEF Finish, paper
  <2>2. /\ UNCHANGED key
        /\ \A x \in Requests : x # r => seen'[x] = seen[x]
        /\ seen[r] = "pending" => seen'[r] = IF future[r] = "value" THEN "ok" ELSE "failed"
        /\ seen[r] # "pending" => seen'[r] = seen[r]
    BY <1>0, <1>5, ReplyFacts DEF Finish, Outcomes
  <2>3. Typed'
    BY <1>5, FinishPlaces
  <2> QED
    BY <1>0, <1>5, <2>1, <2>2, <2>3 DEF WayOfRequests, Finish, Sent, Mutations, TypeOK
<1>6. ASSUME NEW r \in Requests, Timeout(r) PROVE Typed' /\ WayOfRequests'
  <2>1. \A x : (Queued(x)' <=> Queued(x)) /\ (Applied(x)' <=> Applied(x))
    BY <1>6, QueuedStays, AppliedStays DEF Timeout
  <2>2. /\ UNCHANGED key
        /\ \A x \in Requests : x # r => seen'[x] = seen[x]
        /\ seen[r] = "pending" => seen'[r] = "unknown"
        /\ seen[r] # "pending" => seen'[r] = seen[r]
    BY <1>0, <1>6, ReplyFacts DEF Timeout, Outcomes
  <2>3. Typed' /\ \A x \in Requests : Handed(x)' => Handed(x)
    BY <1>6, TimeoutPlaces
  <2> QED
    BY <1>0, <1>6, <2>1, <2>2, <2>3 DEF WayOfRequests, Timeout, Sent, Mutations, TypeOK
<1>7. CASE TaskStart
  <2>1. \A x : (Queued(x)' <=> Queued(x)) /\ (Applied(x)' <=> Applied(x))
    BY <1>7, QueuedStays, AppliedStays DEF TaskStart
  <2>2. Typed' /\ \A x \in Requests : Handed(x)' => Handed(x)
    BY <1>7, StartPlaces
  <2> QED
    BY <1>7, <2>1, <2>2 DEF WayOfRequests, TaskStart, client, Sent, Mutations
<1>8. CASE TaskEnd
  <2>1. \A x : Queued(x)' <=> Queued(x)
    BY <1>8, QueuedStays DEF TaskEnd
  <2>2. /\ Typed'
        /\ \A x \in Requests : Handed(x)' => Handed(x) /\ x # main
        /\ \A x : Applied(x)' <=> Applied(x) \/ (x = main /\ main \in Mutations)
    BY <1>8, EndPlaces
  <2>3. main \in Requests /\ Handed(main)
    BY <1>0, <1>8 DEF TaskEnd, TypeOK, Handed
  <2>4. \A x \in Requests : x # main => future'[x] = future[x]
    BY <1>0, <1>8, <2>3 DEF TaskEnd, Complete, TypeOK
  <2>5. future'[main] = IF phase[main] = "waiting" THEN "value" ELSE "none"
    BY <1>0, <1>8, <2>3 DEF TaskEnd, Complete, TypeOK, WayOfRequests
  <2>6. UNCHANGED <<phase, seen, key>>
    BY <1>8 DEF TaskEnd, client
  <2> QED
    BY <2>1, <2>2, <2>3, <2>4, <2>5, <2>6 DEF WayOfRequests, Sent, Mutations
<1>9. CASE TaskFail
  <2>1. \A x : (Queued(x)' <=> Queued(x)) /\ (Applied(x)' <=> Applied(x))
    BY <1>9, QueuedStays, AppliedStays DEF TaskFail
  <2>2. Typed' /\ main \in Requests /\ \A x \in Requests : Handed(x)' => Handed(x) /\ x # main
    BY <1>9, FailPlaces
  <2>3. Handed(main)
    BY DEF Handed
  <2>4. \A x \in Requests : x # main => future'[x] = future[x]
    BY <1>0, <1>9, <2>2 DEF TaskFail, Complete, TypeOK
  <2>5. future'[main] = IF phase[main] = "waiting" THEN "exception" ELSE "none"
    BY <1>0, <1>9, <2>2, <2>3 DEF TaskFail, Complete, TypeOK, WayOfRequests
  <2>6. UNCHANGED <<phase, seen, key>>
    BY <1>9 DEF TaskFail, client
  <2> QED
    BY <2>1, <2>2, <2>3, <2>4, <2>5, <2>6 DEF WayOfRequests, Sent, Mutations
<1>10. CASE Disable \/ UNCHANGED vars
  <2>1. \A x : (Queued(x)' <=> Queued(x)) /\ (Handed(x)' <=> Handed(x)) /\ (Applied(x)' <=> Applied(x))
    BY <1>10, QueuedStays, HandedStays, AppliedStays DEF Disable, bridge, paper, vars
  <2>2. Typed'
    BY <1>0, <1>10 DEF Disable, bridge, paper, client, vars, Typed, TypeOK, OnceEach, Busy
  <2> QED
    BY <1>10, <2>1, <2>2 DEF WayOfRequests, Disable, bridge, paper, client, vars, Sent, Mutations
<1>11. CASE Stopped
  <2>1. /\ Typed' /\ \A x : ~ Queued(x)'
        /\ \A x \in Requests : Handed(x)' => Handed(x)
    BY <1>11, StoppedPlaces
  <2>2. \A x : Applied(x)' <=> Applied(x)
    BY <1>11, AppliedStays DEF Stopped
  <2> QED
    BY <1>0, <1>11, <2>1, <2>2 DEF WayOfRequests, Stopped, Sent, Mutations, TypeOK
<1> QED
  BY <1>1, <1>2, <1>3, <1>4, <1>5, <1>6, <1>7, <1>8, <1>9, <1>10, <1>11 DEF Next

(* Steps take nothing back: what was carried out, sent, or told.           *)
LEMMA NothingTakenBack ==
  ASSUME Typed, WayOfRequests, [Next]_vars, NEW x \in Requests
  PROVE  /\ Applied(x) => Applied(x)'
         /\ Sent(x) => Sent(x)' /\ key'[x] = key[x]
         /\ seen[x] \in {"ok", "failed"} => seen'[x] = seen[x] /\ answer'[x] = answer[x]
         /\ \A k \in Keys : cache[k] # None => cache'[k] # None
<1>0. TypeOK /\ None \notin Requests
  BY DEF Typed, None, Requests
<1>1. Applied(x) => Applied(x)'
  <2>1. CASE TaskEnd
    BY <2>1, EndPlaces
  <2>2. CASE applied' = applied
    BY <2>2, AppliedStays
  <2> QED
    BY <2>1, <2>2
    DEF Next, Send, GiveUp, Finish, Timeout, Take, TurnAway, TaskStart, TaskFail, Disable, Stopped,
        vars, bridge, paper
<1>3. ASSUME NEW r \in Requests, NEW o \in Outcomes, NEW a \in Requests \cup {None}, Reply(r, o, a)
      PROVE  /\ UNCHANGED key
             /\ seen[x] \in {"ok", "failed"} => seen'[x] = seen[x] /\ answer'[x] = answer[x]
  BY <1>0, <1>3, ReplyFacts
<1>4. /\ Sent(x) => key'[x] = key[x]
      /\ seen[x] \in {"ok", "failed"} => seen'[x] = seen[x] /\ answer'[x] = answer[x]
  <2>1. ASSUME NEW r \in Requests, NEW k \in Keys \cup {NoKey}, Send(r, k)
        PROVE  /\ Sent(x) => key'[x] = key[x]
               /\ seen[x] \in {"ok", "failed"} => seen'[x] = seen[x] /\ answer'[x] = answer[x]
    BY <1>0, <2>1 DEF Send, TypeOK, WayOfRequests
  <2>2. ASSUME NEW r \in Requests, GiveUp(r)
        PROVE  /\ UNCHANGED key
               /\ seen[x] \in {"ok", "failed"} => seen'[x] = seen[x] /\ answer'[x] = answer[x]
    BY <1>0, <2>2 DEF GiveUp, TypeOK
  <2>3. ASSUME NEW r \in Requests, Finish(r) \/ Timeout(r)
        PROVE  /\ UNCHANGED key
               /\ seen[x] \in {"ok", "failed"} => seen'[x] = seen[x] /\ answer'[x] = answer[x]
    BY <1>3, <2>3 DEF Finish, Timeout, Outcomes
  <2>4. ASSUME TurnAway
        PROVE  /\ UNCHANGED key
               /\ seen[x] \in {"ok", "failed"} => seen'[x] = seen[x] /\ answer'[x] = answer[x]
    BY <1>3, <2>4, TurnAwayPlaces DEF TurnAway, Outcomes
  <2>5. ASSUME Take
        PROVE  /\ UNCHANGED key
               /\ seen[x] \in {"ok", "failed"} => seen'[x] = seen[x] /\ answer'[x] = answer[x]
    <3>0. PICK r \in Requests : r = Head(queue)
      BY <2>5, TakePlaces
    <3>1. CASE key[r] # NoKey /\ cache[key[r]] # None
      <4>1. cache[key[r]] \in Requests \cup {None}
        BY <1>0, <3>1 DEF TypeOK
      <4> QED
        BY <1>3, <2>5, <3>0, <3>1, <4>1 DEF Take, Outcomes
    <3>2. CASE ~ (key[r] # NoKey /\ cache[key[r]] # None)
      BY <2>5, <3>0, <3>2 DEF Take, client
    <3> QED
      BY <3>1, <3>2
  <2>6. CASE TaskStart \/ TaskEnd \/ TaskFail \/ Disable \/ Stopped \/ UNCHANGED vars
    BY <1>0, <2>6 DEF TaskStart, TaskEnd, TaskFail, Disable, Stopped, vars, client, TypeOK
  <2> QED
    BY <2>1, <2>2, <2>3, <2>4, <2>5, <2>6 DEF Next
<1>5. Sent(x) => Sent(x)'
  BY <1>0
  DEF Next, Send, GiveUp, Finish, Timeout, Take, TurnAway, TaskStart, TaskEnd, TaskFail, Disable,
      Stopped, vars, bridge, paper, Sent, TypeOK
<1>6. \A k \in Keys : cache[k] # None => cache'[k] # None
  <2>1. ASSUME NEW r \in Requests, Finish(r) PROVE \A k \in Keys : cache[k] # None => cache'[k] # None
    BY <1>0, <2>1 DEF Finish, TypeOK
  <2> QED
    BY <2>1
    DEF Next, Send, GiveUp, Timeout, Take, TurnAway, TaskStart, TaskEnd, TaskFail, Disable,
        Stopped, vars, bridge, paper
<1> QED
  BY <1>1, <1>4, <1>5, <1>6

(* Every step keeps the cache true to what was applied.                    *)
LEMMA CacheStep == IInv /\ [Next]_vars => CacheIsTrue'
<1> SUFFICES ASSUME IInv, [Next]_vars, NEW k \in Keys, cache'[k] # None
             PROVE  key'[cache'[k]] = k /\ Contains(applied', cache'[k])
  BY DEF CacheIsTrue, Applied
<1>0. Typed /\ WayOfRequests /\ CacheIsTrue /\ TypeOK
  BY DEF IInv, Typed
<1>1. CASE cache'[k] = cache[k]
  <2>1. PICK r \in Requests : r = cache[k]
    BY <1>0, <1>1 DEF TypeOK
  <2>2. key[r] = k /\ Applied(r) /\ Sent(r)
    BY <1>0, <1>1, <2>1 DEF CacheIsTrue, WayOfRequests, Sent
  <2>3. key'[r] = k /\ Applied(r)'
    BY <1>0, <2>2, NothingTakenBack
  <2> QED
    BY <1>1, <2>1, <2>3 DEF Applied
<1>2. ASSUME NEW r \in Requests, Finish(r), cache'[k] # cache[k]
      PROVE  key'[cache'[k]] = k /\ Contains(applied', cache'[k])
  <2>1. cache'[k] = r /\ key[r] = k /\ future[r] = "value"
    BY <1>0, <1>2 DEF Finish, TypeOK
  <2>2. Applied(r) /\ Sent(r)
    BY <1>0, <2>1 DEF WayOfRequests, Mutations, Sent
  <2>3. key'[r] = k /\ Applied(r)'
    BY <1>0, <2>1, <2>2, NothingTakenBack
  <2> QED
    BY <2>1, <2>3 DEF Applied
<1> QED
  BY <1>1, <1>2
  DEF Next, Send, GiveUp, Timeout, Take, TurnAway, TaskStart, TaskEnd, TaskFail, Disable,
      Stopped, vars, bridge, paper

(* Every step keeps the answers true to what was applied.                  *)
LEMMA ToldStep == IInv /\ [Next]_vars => ToldTruly'
<1> SUFFICES ASSUME IInv, [Next]_vars, NEW r \in Requests, key'[r] \in Keys, seen'[r] \in {"ok", "failed"}
             PROVE  /\ seen'[r] = "ok" => Contains(applied', answer'[r]) /\ key'[answer'[r]] = key'[r]
                    /\ seen'[r] = "failed" => ~ Applied(r)'
  BY DEF ToldTruly, Mutations, Applied
<1>0. Typed /\ WayOfRequests /\ CacheIsTrue /\ TypeOK /\ WayOfRequests' /\ ToldTruly
  BY WayStep DEF IInv, Typed
<1>1. CASE seen[r] \in {"ok", "failed"}
  <2>1. Sent(r) /\ key[r] \in Keys /\ seen'[r] = seen[r] /\ answer'[r] = answer[r] /\ key'[r] = key[r]
    BY <1>0, <1>1, NothingTakenBack DEF WayOfRequests
  <2>2. CASE seen[r] = "ok"
    <3>1. PICK a \in Requests : a = answer[r] /\ Applied(a) /\ key[a] = key[r]
      BY <1>0, <2>1, <2>2 DEF ToldTruly, Mutations, Applied, Contains, TypeOK
    <3>2. Sent(a)
      BY <1>0, <3>1 DEF WayOfRequests, Sent
    <3>3. Applied(a)' /\ key'[a] = key[r]
      BY <1>0, <3>1, <3>2, NothingTakenBack
    <3> QED
      BY <2>1, <2>2, <3>1, <3>3 DEF Applied
  <2>3. CASE seen[r] = "failed"
    <3>1. ~ Applied(r) /\ ~ Handed(r)
      BY <1>0, <2>1, <2>3 DEF ToldTruly, Mutations, WayOfRequests
    <3>2. ~ Applied(r)'
      <4>1. CASE TaskEnd
        BY <1>0, <3>1, <4>1, EndPlaces DEF Handed
      <4>2. CASE applied' = applied
        BY <3>1, <4>2, AppliedStays
      <4> QED
        BY <4>1, <4>2
        DEF Next, Send, GiveUp, Finish, Timeout, Take, TurnAway, TaskStart, TaskFail, Disable,
            Stopped, vars, bridge, paper
    <3> QED
      BY <2>1, <2>3, <3>2
  <2> QED
    BY <1>1, <2>2, <2>3
<1>2. CASE seen[r] \notin {"ok", "failed"}
  <2>1. ASSUME NEW x \in Requests, Finish(x)
        PROVE  /\ seen'[r] = "ok" => Contains(applied', answer'[r]) /\ key'[answer'[r]] = key'[r]
               /\ seen'[r] = "failed" => ~ Applied(r)'
    <3>1. x = r /\ seen[r] = "pending" /\ key' = key /\ applied' = applied
      BY <1>0, <1>2, <2>1, ReplyFacts DEF Finish, Outcomes, paper
    <3>2. CASE future[r] = "value"
      <4>1. Applied(r) /\ seen'[r] = "ok" /\ answer'[r] = r
        BY <1>0, <2>1, <3>1, <3>2, ReplyFacts DEF Finish, Outcomes, WayOfRequests, Mutations
      <4> QED
        BY <3>1, <4>1 DEF Applied
    <3>3. CASE future[r] = "exception"
      <4>1. ~ Applied(r) /\ seen'[r] = "failed"
        BY <1>0, <2>1, <3>1, <3>3, ReplyFacts DEF Finish, Outcomes, WayOfRequests
      <4> QED
        BY <3>1, <4>1 DEF Applied
    <3> QED
      BY <1>0, <2>1, <3>1, <3>2, <3>3 DEF Finish, TypeOK
  <2>2. CASE TurnAway
    <3>0. PICK x \in Requests : x = Head(queue) /\ Queued(x)
      BY <1>0, <2>2, TurnAwayPlaces
    <3>1. x = r /\ seen'[r] = "failed"
      BY <1>0, <1>2, <2>2, <3>0, ReplyFacts DEF TurnAway, Outcomes
    <3>2. ~ Applied(r) /\ applied' = applied
      BY <1>0, <2>2, <3>0, <3>1 DEF TurnAway, WayOfRequests, paper
    <3> QED
      BY <3>1, <3>2 DEF Applied
  <2>3. CASE Take
    <3>0. PICK x \in Requests : x = Head(queue) /\ Queued(x)
      BY <1>0, <2>3, TakePlaces
    <3>1. key[x] # NoKey /\ cache[key[x]] # None
      BY <1>2, <2>3, <3>0 DEF Take, client
    <3>2. key[x] \in Keys /\ cache[key[x]] \in Requests /\ applied' = applied /\ Reply(x, "ok", cache[key[x]])
      BY <1>0, <2>3, <3>0, <3>1 DEF Take, TypeOK
    <3>3. x = r /\ seen'[r] = "ok" /\ answer'[r] = cache[key[r]] /\ key' = key
      BY <1>0, <1>2, <3>2, ReplyFacts DEF Outcomes
    <3> QED
      BY <1>0, <3>1, <3>2, <3>3 DEF CacheIsTrue, Applied
  <2>4. seen'[r] \in {seen[r], "unknown", "pending"} \/ TurnAway \/ Take \/ \E x \in Requests : Finish(x)
    <3>1. ASSUME NEW x \in Requests, Timeout(x) PROVE seen'[r] \in {seen[r], "unknown"}
      BY <1>0, <3>1, ReplyFacts DEF Timeout, Outcomes
    <3> QED
      BY <1>0, <3>1
      DEF Next, Send, GiveUp, TaskStart, TaskEnd, TaskFail, Disable, Stopped, vars, client, TypeOK
  <2> QED
    BY <1>2, <2>1, <2>2, <2>3, <2>4
<1> QED
  BY <1>1, <1>2

(* A request is sent by Send and by nothing else.                          *)
LEMMA NewIsSent ==
  ASSUME Typed, WayOfRequests, [Next]_vars, NEW r \in Requests, ~ Sent(r), Sent(r)'
  PROVE  \E x \in Requests : \E k \in Keys \cup {NoKey} : Send(x, k)
<1>0. TypeOK
  BY DEF Typed
<1>1. ~ TurnAway
  <2> SUFFICES ASSUME TurnAway PROVE FALSE
    OBVIOUS
  <2>1. PICK x \in Requests : x = Head(queue) /\ phase[x] = "queued"
    BY TurnAwayPlaces DEF WayOfRequests
  <2> QED
    BY <1>0, <2>1 DEF TurnAway, Sent, TypeOK
<1>2. ~ Take
  <2> SUFFICES ASSUME Take PROVE FALSE
    OBVIOUS
  <2>1. PICK x \in Requests : x = Head(queue) /\ phase[x] = "queued"
    BY TakePlaces DEF WayOfRequests
  <2> QED
    BY <1>0, <2>1 DEF Take, Sent, TypeOK
<1> QED
  BY <1>0, <1>1, <1>2
  DEF Next, GiveUp, Finish, Timeout, TaskStart, TaskEnd, TaskFail, Disable, Stopped, vars, bridge,
      Sent, TypeOK

(* Every step keeps a client's requests in the order it sent them.         *)
LEMMA OrderStep == IInv /\ [Next]_vars => SentInOrder'
<1> SUFFICES ASSUME IInv, [Next]_vars, NEW q \in Requests, NEW r \in Requests, q < r, Sent(r)'
             PROVE  Sent(q)'
  BY DEF SentInOrder
<1>0. Typed /\ WayOfRequests /\ TypeOK /\ SentInOrder
  BY DEF IInv, Typed
<1>1. Sent(q) => Sent(q)'
  BY <1>0, NothingTakenBack
<1>2. CASE Sent(r)
  BY <1>0, <1>1, <1>2 DEF SentInOrder
<1>3. ASSUME NEW x \in Requests, NEW k \in Keys \cup {NoKey}, Send(x, k), ~ Sent(r) PROVE Sent(q)
  <2>1. x = r
    BY <1>0, <1>3 DEF Send, Sent, TypeOK
  <2>2. q \in 1..(r - 1)
    BY BridgeAssumption DEF Requests
  <2> QED
    BY <1>0, <1>3, <2>1, <2>2 DEF Send, WayOfRequests
<1>4. CASE ~ Sent(r)
  <2>1. \E x \in Requests : \E k \in Keys \cup {NoKey} : Send(x, k)
    BY <1>0, <1>4, NewIsSent
  <2> QED
    BY <1>1, <1>3, <1>4, <2>1
<1> QED
  BY <1>2, <1>4

(* Requests with one key, from clients that retry when they know.          *)
LEMMA KeyStep == ~ BlindRetries /\ IInv /\ [Next]_vars => OneOfAKey'
<1> SUFFICES ASSUME ~ BlindRetries, IInv, [Next]_vars PROVE OneOfAKey'
  OBVIOUS
<1>0. Typed /\ WayOfRequests /\ TypeOK /\ SentInOrder /\ OneOfAKey /\ WayOfRequests'
  BY WayStep DEF IInv, Typed
<1>1. ASSUME NEW q \in Requests, NEW r \in Requests, SameKey(q, r)'
      PROVE  /\ seen'[q] \in {"ok", "failed"}
             /\ Handed(r)' \/ Applied(r)' => seen'[q] = "failed"
  <2>1. CASE Sent(r)
    <3>1. SameKey(q, r) /\ Sent(q)
      BY <1>0, <1>1, <2>1, NothingTakenBack DEF SameKey, SentInOrder
    <3>2. seen[q] \in {"ok", "failed"} /\ seen'[q] = seen[q]
      BY <1>0, <3>1, NothingTakenBack DEF OneOfAKey
    <3>3. CASE Handed(r) \/ Applied(r)
      BY <1>0, <3>1, <3>2, <3>3 DEF OneOfAKey
    <3>4. ASSUME Take, Handed(r)', ~ Handed(r) PROVE seen[q] = "failed"
      <4>1. r = Head(queue) /\ phase'[r] = "waiting" /\ Queued(r)
        BY <1>0, <3>4, TakePlaces
      <4>2. phase[r] = "queued" /\ key[r] # NoKey
        BY <1>0, <3>1, <4>1, BridgeAssumption DEF WayOfRequests, SameKey
      <4>3. cache[key[r]] = None
        BY <1>0, <3>4, <4>1, <4>2 DEF Take, TypeOK
      <4> QED
        BY <1>0, <3>1, <3>2, <4>3 DEF OneOfAKey, SameKey, Mutations
    <3>5. ASSUME ~ Handed(r), ~ Applied(r), ~ Take PROVE ~ Handed(r)' /\ ~ Applied(r)'
      <4>1. CASE TaskEnd
        BY <1>0, <3>5, <4>1, EndPlaces DEF Handed
      <4>2. ~ TaskEnd => ~ Applied(r)'
        <5>1. ~ TaskEnd => applied' = applied
          BY DEF Next, Send, GiveUp, Finish, Timeout, Take, TurnAway, TaskStart, TaskFail, Disable,
                 Stopped, vars, bridge, paper
        <5> QED
          BY <3>5, <5>1, AppliedStays
      <4>3. CASE /\ ~ TaskEnd
                 /\ TaskStart \/ TaskFail \/ Stopped \/ \E x \in Requests : Timeout(x)
        BY <1>0, <3>5, <4>2, <4>3, StartPlaces, FailPlaces, StoppedPlaces, TimeoutPlaces
      <4>4. CASE tasks' = tasks /\ main' = main
        BY <1>0, <3>5, <4>1, <4>2, <4>4, HandedStays
      <4> QED
        BY <3>5, <4>1, <4>3, <4>4
        DEF Next, Send, GiveUp, Finish, TurnAway, Disable, vars, bridge, paper
    <3>6. CASE ~ Handed(r) /\ ~ Applied(r) /\ Take
      <4>1. ~ Applied(r)'
        BY <3>6, AppliedStays DEF Take
      <4> QED
        BY <3>2, <3>4, <3>6, <4>1
    <3> QED
      BY <3>2, <3>3, <3>5, <3>6
  <2>2. CASE ~ Sent(r)
    <3>1. PICK x \in Requests, k \in Keys \cup {NoKey} : Send(x, k)
      <4>1. Sent(r)'
        BY <1>1 DEF SameKey
      <4> QED
        BY <1>0, <2>2, <4>1, NewIsSent
    <3>2. x = r
      BY <1>0, <1>1, <2>2, <3>1 DEF Send, Sent, TypeOK, SameKey
    <3>3. key'[r] = k /\ key'[q] = key[q] /\ q # r /\ k \in Keys /\ key[q] = k
      BY <1>0, <1>1, <3>1, <3>2 DEF Send, TypeOK, SameKey, Requests
    <3>4. seen[q] # "none"
      <4>1. q \in 1..(r - 1)
        BY <1>1, BridgeAssumption DEF Requests, SameKey
      <4> QED
        BY <3>1, <3>2, <4>1 DEF Send
    <3>5. seen[q] \in {"ok", "failed"}
      BY <1>0, <3>1, <3>3, <3>4, BridgeAssumption DEF Send, MayReuse, WayOfRequests, Sent
    <3>6. seen'[q] = seen[q]
      BY <1>0, <3>5, NothingTakenBack
    <3>7. ~ Handed(r)' /\ ~ Applied(r)'
      BY <1>0, <2>2, <3>1, HandedStays, AppliedStays DEF Send, paper, WayOfRequests, Sent
    <3> QED
      BY <3>5, <3>6, <3>7
  <2> QED
    BY <2>1, <2>2
<1>2. ASSUME NEW q \in Requests, key'[q] \in Keys, seen'[q] = "ok"
      PROVE  cache'[key'[q]] # None
  <2>1. CASE seen[q] = "ok"
    <3>1. Sent(q) /\ key'[q] = key[q]
      BY <1>0, <2>1, NothingTakenBack DEF WayOfRequests
    <3>2. cache[key[q]] # None
      BY <1>0, <1>2, <2>1, <3>1 DEF OneOfAKey, Mutations
    <3> QED
      BY <1>0, <1>2, <3>1, <3>2, NothingTakenBack
  <2>2. ASSUME NEW x \in Requests, Finish(x), seen[q] # "ok" PROVE cache'[key'[q]] # None
    <3>1. x = q /\ key' = key
      BY <1>0, <1>2, <2>2, ReplyFacts DEF Finish, Outcomes
    <3>2. future[q] = "value"
      BY <1>0, <1>2, <2>2, <3>1, ReplyFacts DEF Finish, Outcomes
    <3>3. cache'[key[q]] = q
      BY <1>0, <1>2, <2>2, <3>1, <3>2, BridgeAssumption DEF Finish, TypeOK
    <3> QED
      BY <3>1, <3>3 DEF None, Requests
  <2>3. ASSUME Take, seen[q] # "ok" PROVE cache'[key'[q]] # None
    <3>0. PICK x \in Requests : x = Head(queue) /\ Queued(x)
      BY <1>0, <2>3, TakePlaces
    <3>1. key[x] # NoKey /\ cache[key[x]] # None
      BY <1>2, <2>3, <3>0 DEF Take, client
    <3>2. cache[key[x]] \in Requests /\ Reply(x, "ok", cache[key[x]]) /\ cache' = cache
      BY <1>0, <2>3, <3>0, <3>1 DEF Take, TypeOK
    <3>3. x = q /\ key' = key
      BY <1>0, <1>2, <2>3, <3>2, ReplyFacts DEF Outcomes
    <3> QED
      BY <3>1, <3>2, <3>3
  <2>4. seen'[q] = seen[q] \/ Take \/ \E x \in Requests : Finish(x)
    <3>1. ASSUME NEW x \in Requests, Timeout(x) PROVE seen'[q] = seen[q]
      BY <1>0, <1>2, <3>1, ReplyFacts DEF Timeout, Outcomes
    <3>2. CASE TurnAway
      <4>1. PICK x \in Requests : x = Head(queue)
        BY <1>0, <3>2, TurnAwayPlaces
      <4> QED
        BY <1>0, <1>2, <3>2, <4>1, ReplyFacts DEF TurnAway, Outcomes
    <3> QED
      BY <1>0, <1>2, <3>1, <3>2
      DEF Next, Send, GiveUp, TaskStart, TaskEnd, TaskFail, Disable, Stopped, vars, client, TypeOK
  <2> QED
    BY <1>2, <2>1, <2>2, <2>3, <2>4
<1> QED
  BY <1>1, <1>2 DEF OneOfAKey, Mutations

(* The four together are inductive.                                        *)
LEMMA BridgeInductive == Spec => []IInv
<1>1. IInv /\ [Next]_vars => IInv'
  BY WayStep, CacheStep, ToldStep, OrderStep, KeyStep DEF IInv, Typed
<1> QED
  BY <1>1, InitIInv, PTL DEF Spec

(* The pool is never over its limit, and every part is well formed.        *)
THEOREM BridgeTypes == Spec => []TypeOK
  BY BridgeInductive, PTL DEF IInv

(* Whatever a client is told of a mutation, it may rely on: also of one    *)
(* that it retries blindly.                                                *)
THEOREM AnswersTrue == Spec => []AnswersAreTrue
<1>1. IInv => AnswersAreTrue
  BY TrueAnswers DEF IInv
<1> QED
  BY <1>1, BridgeInductive, PTL

(* With clients that retry only when they know, a mutation is carried out  *)
(* once per key.                                                           *)
THEOREM AppliedOnce == ~ BlindRetries => (Spec => []OncePerKey)
<1> SUFFICES ASSUME ~ BlindRetries PROVE Spec => []OncePerKey
  OBVIOUS
<1>1. IInv => OncePerKey
  <2> SUFFICES ASSUME IInv, NEW k \in Keys PROVE Cardinality(AppliedFor(k)) <= 1
    BY DEF OncePerKey
  <2>1. ASSUME NEW m \in AppliedFor(k), NEW n \in AppliedFor(k) PROVE m = n
    <3>1. /\ m \in 1..Len(applied) /\ n \in 1..Len(applied)
          /\ applied[m] \in Requests /\ applied[n] \in Requests
          /\ Applied(applied[m]) /\ Applied(applied[n])
          /\ key[applied[m]] = k /\ key[applied[n]] = k
      BY <2>1 DEF IInv, TypeOK, AppliedFor, Applied, Contains
    <3>2. ASSUME NEW q \in Requests, NEW r \in Requests, q < r, key[q] = k, key[r] = k,
                 Applied(q), Applied(r)
          PROVE  FALSE
      <4>1. SameKey(q, r)
        BY <3>2 DEF SameKey, IInv, WayOfRequests, Sent
      <4>2. seen[q] = "failed"
        BY <3>2, <4>1 DEF IInv, OneOfAKey
      <4> QED
        BY <3>2, <4>2 DEF IInv, ToldTruly, Mutations
    <3>3. applied[m] = applied[n]
      BY <3>1, <3>2 DEF Requests
    <3> QED
      BY <3>1, <3>3 DEF IInv, OnceEach, IsInjective, TypeOK
  <2>2. AppliedFor(k) = {} \/ \E m \in AppliedFor(k) : AppliedFor(k) = {m}
    BY <2>1
  <2>3. Cardinality({}) = 0 /\ \A m : Cardinality({m}) = 1
    BY FS_EmptySet, FS_Singleton
  <2>4. CASE AppliedFor(k) = {}
    BY <2>3, <2>4
  <2>5. ASSUME NEW m, AppliedFor(k) = {m} PROVE Cardinality(AppliedFor(k)) <= 1
    <3>1. Cardinality(AppliedFor(k)) = Cardinality({m})
      BY <2>5, Zenon
    <3>2. Cardinality({m}) = 1
      BY <2>3
    <3> QED
      BY <3>1, <3>2
  <2> QED
    BY <2>2, <2>4, <2>5
<1> QED
  BY <1>1, BridgeInductive, PTL

-----------------------------------------------------------------------------
(* The world.                                                              *)

LessThan == OpToRel(<, Nat)

(* Every set of natural numbers has a least one: induction for the lists   *)
(* below;                                                                  *)
LEMMA Least ==
  ASSUME NEW T \in SUBSET Nat, T # {}
  PROVE  \E x \in T : \A y \in T : x <= y
<1>1. IsWellFoundedOn(LessThan, Nat)
  BY NatLessThanWellFounded, Zenon DEF LessThan
<1>2. PICK x \in T : \A y \in T : ~ (<<y, x>> \in LessThan)
  BY <1>1, WFMin, Zenon
<1>3. ASSUME NEW y \in T PROVE x <= y
  <2>1. x \in Nat /\ y \in Nat
    OBVIOUS
  <2>2. ~ (y < x)
    BY <1>2, <2>1 DEF LessThan, OpToRel
  <2> QED
    BY <2>1, <2>2
<1> QED
  BY <1>3

(* and a bounded one has a greatest.                                       *)
LEMMA Greatest ==
  ASSUME NEW N \in Nat, NEW T \in SUBSET (0..N), T # {}
  PROVE  \E x \in T : \A y \in T : x >= y
<1> DEFINE U == {N - y : y \in T}
<1>1. U \in SUBSET Nat /\ U # {}
  <2>1. \A y \in T : y \in 0..N /\ N - y \in Nat
    OBVIOUS
  <2> QED
    BY <2>1
<1>2. PICK u \in U : \A v \in U : u <= v
  <2> HIDE DEF U
  <2> QED
    BY <1>1, Least
<1>3. PICK x \in T : u = N - x
  OBVIOUS
<1>4. ASSUME NEW y \in T PROVE x >= y
  <2>1. N - y \in U
    OBVIOUS
  <2>2. u <= N - y
    BY <1>2, <2>1
  <2> HIDE DEF U
  <2> QED
    BY <1>3, <2>2
<1> QED
  BY <1>4

(* What it is to count through a set in order.                             *)
Counts(f, K) ==
  /\ f \in [1..Cardinality(K) -> K]
  /\ \A m, n \in 1..Cardinality(K) : m < n => f[m] < f[n]
  /\ \A k \in K : \E n \in 1..Cardinality(K) : f[n] = k

(* The positions that stay can be counted through in order.                *)
LEMMA CountedThrough ==
  ASSUME NEW N \in Nat, NEW K \in SUBSET (1..N)
  PROVE  \E f : Counts(f, K)
<1> DEFINE Bad == {n \in Nat : \E S \in SUBSET (1..n) : ~ \E f : Counts(f, S)}
<1>1. ASSUME Bad # {} PROVE FALSE
  <2>1. PICK n \in Bad : \A m \in Bad : n <= m
    <3>1. Bad \in SUBSET Nat
      OBVIOUS
    <3> HIDE DEF Bad
    <3> QED
      BY <1>1, <3>1, Least
  <2>2. PICK S \in SUBSET (1..n) : ~ \E f : Counts(f, S)
    BY <2>1
  <2>n. n \in Nat
    BY <2>1
  <2>3. S # {}
    <3>1. ASSUME S = {} PROVE FALSE
      <4> DEFINE f == [x \in {} |-> x]
      <4>1. Cardinality(S) = 0 /\ 1..0 = {}
        BY <3>1, FS_EmptySet
      <4>2. f \in [{} -> S]
        OBVIOUS
      <4>3. Counts(f, S)
        BY <3>1, <4>1, <4>2 DEF Counts
      <4> QED
        BY <2>2, <4>3
    <3> QED
      BY <3>1
  <2>4. n # 0
    <3>1. PICK x \in S : x \in 1..n
      BY <2>2, <2>3
    <3> QED
      BY <2>n, <3>1
  <2>5. ASSUME NEW R \in SUBSET (1..(n - 1)) PROVE \E f : Counts(f, R)
    <3>1. n - 1 \in Nat /\ n - 1 \notin Bad
      <4> HIDE DEF Bad
      <4>1. n - 1 \in Nat /\ ~ (n <= n - 1)
        BY <2>n, <2>4
      <4> QED
        BY <2>1, <4>1
    <3> QED
      BY <3>1
  <2>6. n \in S
    <3>1. ASSUME n \notin S PROVE FALSE
      <4>1. S \in SUBSET (1..(n - 1))
        BY <2>2, <2>n, <3>1
      <4> QED
        BY <2>2, <2>5, <4>1
    <3> QED
      BY <3>1
  <2> DEFINE R == S \ {n}
  <2>7. R \in SUBSET (1..(n - 1))
    BY <2>2, <2>n
  <2>8. IsFiniteSet(S) /\ Cardinality(S) \in Nat /\ Cardinality(R) = Cardinality(S) - 1
    <3>1. IsFiniteSet(1..n)
      BY <2>n, FS_Interval
    <3>2. IsFiniteSet(S)
      BY <2>2, <3>1, FS_Subset
    <3> QED
      BY <2>6, <3>2, FS_CardinalityType, FS_RemoveElement
  <2>9. PICK f : Counts(f, R)
    BY <2>5, <2>7
  <2> DEFINE s == Cardinality(S)
             g == [k \in 1..s |-> IF k = s THEN n ELSE f[k]]
  <2>10. Counts(g, S)
    <3>1. s \in Nat /\ Cardinality(R) = s - 1 /\ s # 0
      <4>1. Cardinality(R) \in Nat
        BY <2>8, FS_CardinalityType, FS_Subset
      <4> QED
        BY <2>8, <4>1
    <3>2. f \in [1..(s - 1) -> R]
      BY <2>9, <3>1 DEF Counts
    <3>3. \A j, k \in 1..(s - 1) : j < k => f[j] < f[k]
      BY <2>9, <3>1 DEF Counts
    <3>4. \A r \in R : \E k \in 1..(s - 1) : f[k] = r
      BY <2>9, <3>1 DEF Counts
    <3>5. \A k \in 1..(s - 1) : f[k] \in S /\ f[k] < n
      <4>1. ASSUME NEW k \in 1..(s - 1) PROVE f[k] \in R
        BY <3>2
      <4>2. \A r \in R : r \in S /\ r < n
        BY <2>7, <2>n
      <4> QED
        BY <4>1, <4>2
    <3> HIDE DEF s
    <3>6. g \in [1..s -> S]
      BY <2>6, <3>1, <3>5
    <3>7. \A j, k \in 1..s : j < k => g[j] < g[k]
      BY <2>n, <3>1, <3>3, <3>5
    <3>8. ASSUME NEW k \in S PROVE \E j \in 1..s : g[j] = k
      <4>1. CASE k = n
        BY <3>1, <4>1
      <4>2. CASE k # n
        BY <3>1, <3>4, <4>2
      <4> QED
        BY <4>1, <4>2
    <3> USE DEF s
    <3> QED
      BY <3>6, <3>7, <3>8 DEF Counts
  <2> QED
    BY <2>2, <2>10
<1>2. N \notin Bad
  BY <1>1
<1> QED
  BY <1>2

(* What Without leaves: the positions of those who stay, in their order.   *)
LEMMA WithoutKeeps ==
  ASSUME NEW T, NEW ps \in Seq(T), NEW ns
  PROVE  /\ Without(ps, ns) \in Seq(T)
         /\ \E f \in [DOMAIN Without(ps, ns) -> DOMAIN ps \ ns] :
              /\ \A n \in DOMAIN f : Without(ps, ns)[n] = ps[f[n]]
              /\ \A m, n \in DOMAIN f : m < n => f[m] < f[n]
<1> DEFINE K == DOMAIN ps \ ns
           f == InOrder(K)
           c == Cardinality(K)
<1>1. Len(ps) \in Nat /\ K \in SUBSET (1..Len(ps)) /\ DOMAIN ps = 1..Len(ps)
  OBVIOUS
<1>2. c \in Nat
  <2>1. IsFiniteSet(1..Len(ps))
    BY <1>1, FS_Interval
  <2> QED
    BY <1>1, <2>1, FS_Subset, FS_CardinalityType
<1>3. f \in [1..c -> K] /\ \A m, n \in DOMAIN f : m < n => f[m] < f[n]
  <2>1. PICK g : Counts(g, K)
    BY <1>1, CountedThrough
  <2>2. g \in [1..c -> K] /\ \A m, n \in DOMAIN g : m < n => g[m] < g[n]
    BY <2>1 DEF Counts
  <2> QED
    BY <2>2 DEF InOrder
<1>4. Without(ps, ns) = [n \in 1..c |-> ps[f[n]]]
  BY <1>3 DEF Without
<1> HIDE DEF f, c
<1>5. \A n \in 1..c : f[n] \in DOMAIN ps /\ ps[f[n]] \in T
  BY <1>1, <1>3
<1>6. Without(ps, ns) \in Seq(T)
  BY <1>2, <1>4, <1>5
<1> QED
  BY <1>3, <1>4, <1>6

(* The player that the server knows under an actor's id.                   *)
LEMMA PlayerKnown ==
  ASSUME WorldTypeOK, NEW a \in Actors
  PROVE  /\ GetPlayer(a) \in Nat
         /\ Online(a) => GetPlayer(a) \in DOMAIN players /\ players[GetPlayer(a)].id = a
         /\ \A n \in DOMAIN players : players[n].id = a => Online(a) /\ GetPlayer(a) >= n
<1> DEFINE T == {0} \cup {n \in DOMAIN players : players[n].id = a}
<1>1. Len(players) \in Nat /\ DOMAIN players = 1..Len(players)
  BY DEF WorldTypeOK
<1>2. T \in SUBSET (0..Len(players)) /\ T # {}
  BY <1>1
<1>3. \E x \in T : \A y \in T : x >= y
  <2> HIDE DEF T
  <2> QED
    BY <1>1, <1>2, Greatest
<1>4. GetPlayer(a) \in T /\ \A y \in T : GetPlayer(a) >= y
  <2>1. GetPlayer(a) = CHOOSE x \in T : \A y \in T : x >= y
    BY DEF GetPlayer, Max
  <2> HIDE DEF T
  <2> QED
    BY <1>3, <2>1
<1>5. GetPlayer(a) \in Nat
  BY <1>1, <1>2, <1>4
<1>6. \A n \in DOMAIN players : n \in Nat /\ n # 0
  BY <1>1
<1>7. \A n \in DOMAIN players : players[n].id = a => GetPlayer(a) >= n
  BY <1>4
<1>8. \A n \in DOMAIN players : players[n].id = a => GetPlayer(a) # 0
  BY <1>5, <1>6, <1>7
<1>9. GetPlayer(a) # 0 => GetPlayer(a) \in DOMAIN players /\ players[GetPlayer(a)].id = a
  BY <1>4
<1> QED
  BY <1>5, <1>7, <1>8, <1>9 DEF Online

(* A player whom no removal has spared is an active actor's, and its       *)
(* latest one.                                                             *)
KnownOrStuck(ps, as) == \A n \in DOMAIN ps : ps[n].stuck \/ ps[n].id \in as
EarlierAreStuck(ps) ==
  \A m, n \in DOMAIN ps : m < n /\ ps[m].id = ps[n].id => ps[m].stuck
Tidy(ps, as) == KnownOrStuck(ps, as) /\ EarlierAreStuck(ps)
WorldIInv == WorldTypeOK /\ told = block /\ Tidy(players, active)

(* The same players, moved.                                                *)
SamePlayers(ps, qs) ==
  DOMAIN qs = DOMAIN ps /\ \A n \in DOMAIN ps : qs[n].id = ps[n].id /\ qs[n].stuck = ps[n].stuck

(* It does not matter where they are.                                      *)
LEMMA MovedStayTidy ==
  ASSUME NEW ps, NEW qs, NEW as, SamePlayers(ps, qs), Tidy(ps, as)
  PROVE  Tidy(qs, as)
  BY DEF SamePlayers, Tidy, KnownOrStuck, EarlierAreStuck

(* Nor who is moved,                                                       *)
LEMMA OneMoved ==
  ASSUME NEW ps \in Seq(PlayerRecords), NEW k, NEW c \in Cells
  PROVE  /\ [ps EXCEPT ![k].at = c] \in Seq(PlayerRecords)
         /\ SamePlayers(ps, [ps EXCEPT ![k].at = c])
<1> DEFINE qs == [ps EXCEPT ![k].at = c]
<1>1. Len(ps) \in Nat /\ DOMAIN ps = 1..Len(ps) /\ DOMAIN qs = 1..Len(ps)
  OBVIOUS
<1>2. ASSUME NEW n \in 1..Len(ps)
      PROVE  qs[n] \in PlayerRecords /\ qs[n].id = ps[n].id /\ qs[n].stuck = ps[n].stuck
  <2>1. ps[n] \in PlayerRecords
    BY <1>1
  <2>2. CASE n # k
    BY <1>1, <2>1, <2>2
  <2>3. CASE n = k
    <3>1. qs[n] = [ps[n] EXCEPT !.at = c]
      BY <1>1, <2>3
    <3> HIDE DEF qs
    <3> QED
      BY <2>1, <3>1 DEF PlayerRecords
  <2> QED
    BY <2>2, <2>3
<1>3. qs = [n \in 1..Len(ps) |-> qs[n]]
  BY <1>1
<1> HIDE DEF qs
<1>4. qs \in Seq(PlayerRecords)
  BY <1>1, <1>2, <1>3
<1>5. SamePlayers(ps, qs)
  BY <1>1, <1>2 DEF SamePlayers
<1> QED
  BY <1>4, <1>5 DEF qs

(* be it by a teleport that hits another player.                           *)
LEMMA TeleportKeeps ==
  ASSUME WorldAssumption, NEW ps \in Seq(PlayerRecords), NEW as, NEW c \in Cells, NEW cancelled
  PROVE  /\ TeleportTo(ps, as, c, cancelled) \in Seq(PlayerRecords)
         /\ SamePlayers(ps, TeleportTo(ps, as, c, cancelled))
<1>1. SamePlayers(ps, ps)
  BY DEF SamePlayers
<1> QED
  BY <1>1, OneMoved DEF TeleportTo

(* One that joins: no active actor's, so that its earlier ones are stuck.  *)
LEMMA JoinedStayTidy ==
  ASSUME NEW ps \in Seq(PlayerRecords), NEW as \in SUBSET Actors, NEW a \in Actors \ as, NEW c \in Cells,
         Tidy(ps, as)
  PROVE  LET qs == Append(ps, [id |-> a, at |-> c, stuck |-> FALSE])
         IN qs \in Seq(PlayerRecords) /\ Tidy(qs, as \cup {a})
<1> DEFINE p == [id |-> a, at |-> c, stuck |-> FALSE]
           qs == Append(ps, p)
<1>1. p \in PlayerRecords /\ p.id = a
  BY DEF PlayerRecords
<1> HIDE DEF p
<1>2. /\ Len(ps) \in Nat /\ DOMAIN ps = 1..Len(ps)
      /\ qs \in Seq(PlayerRecords) /\ DOMAIN qs = 1..(Len(ps) + 1)
      /\ qs[Len(ps) + 1] = p /\ \A n \in 1..Len(ps) : qs[n] = ps[n]
  BY <1>1
<1> HIDE DEF qs
<1>3. KnownOrStuck(qs, as \cup {a})
  <2> SUFFICES ASSUME NEW n \in DOMAIN qs PROVE qs[n].stuck \/ qs[n].id \in as \cup {a}
    BY DEF KnownOrStuck
  <2>1. CASE n = Len(ps) + 1
    BY <1>1, <1>2, <2>1
  <2>2. CASE n \in 1..Len(ps)
    BY <1>2, <2>2 DEF Tidy, KnownOrStuck
  <2>3. n \in 1..Len(ps) \/ n = Len(ps) + 1
    BY <1>2
  <2> QED
    BY <2>1, <2>2, <2>3
<1>4. EarlierAreStuck(qs)
  <2> SUFFICES ASSUME NEW m \in DOMAIN qs, NEW n \in DOMAIN qs, m < n, qs[m].id = qs[n].id
               PROVE  qs[m].stuck
    BY DEF EarlierAreStuck
  <2>1. m \in 1..Len(ps) /\ (n \in 1..Len(ps) \/ n = Len(ps) + 1)
    BY <1>2
  <2>2. CASE n \in 1..Len(ps)
    BY <1>2, <2>1, <2>2 DEF Tidy, EarlierAreStuck
  <2>3. CASE n = Len(ps) + 1
    BY <1>1, <1>2, <2>1, <2>3 DEF Tidy, KnownOrStuck
  <2> QED
    BY <2>1, <2>2, <2>3
<1> QED
  BY <1>2, <1>3, <1>4 DEF Tidy, qs, p

Players == Seq(PlayerRecords)

(* The chunk of a cell is a number.                                        *)
LEMMA ChunksAreNumbers ==
  ASSUME WorldAssumption
  PROVE  /\ \A c \in Cells : ChunkOf(c[1]) \in Int
         /\ \A ps \in Players : \A n \in DOMAIN ps : ChunkOf(ps[n].at[1]) \in Int
<1>1. \A x \in Int : ChunkOf(x) \in Int
  BY DEF ChunkOf
<1>2. \A c \in Cells : ChunkOf(c[1]) \in Int
  BY <1>1 DEF WorldAssumption
<1>3. ASSUME NEW ps \in Players, NEW n \in DOMAIN ps PROVE ps[n].at \in Cells
  <2>1. ps[n] \in PlayerRecords
    BY DEF Players
  <2> QED
    BY <2>1 DEF PlayerRecords
<1> QED
  BY <1>2, <1>3

(* A step that changes only who is where, and loads chunks.                *)
LEMMA ArrivedKeep ==
  ASSUME WorldIInv, NEW ps \in Players, NEW as \in SUBSET Actors, Tidy(ps, as), WorldAssumption,
         Arrive(ps), active' = as, UNCHANGED <<block, forced, told, granted>>
  PROVE  WorldIInv'
<1>1. \A n \in DOMAIN ps : ChunkOf(ps[n].at[1]) \in Int
  BY ChunksAreNumbers
<1>2. loaded \subseteq loaded' /\ loaded' \subseteq Int
  BY <1>1 DEF Arrive, WorldIInv, WorldTypeOK
<1>3. players' \in Players /\ Tidy(players', active')
  BY DEF Arrive
<1>4. WorldTypeOK'
  BY <1>2, <1>3 DEF WorldIInv, WorldTypeOK, Players
<1> QED
  BY <1>3, <1>4 DEF WorldIInv, Tidy, KnownOrStuck, EarlierAreStuck

(* An actor that is created, joins, or fails to half way;                  *)
LEMMA CreateKeeps ==
  ASSUME WorldIInv, WorldAssumption, NEW a \in Actors, CreateActor(a)
  PROVE  WorldIInv'
<1>1. players \in Players /\ active \in SUBSET Actors /\ a \in Actors \ active /\ Tidy(players, active)
  BY DEF CreateActor, WorldIInv, WorldTypeOK, Players, PlayerRecords
<1>2. active' = active \cup {a} /\ UNCHANGED <<block, forced, told, granted>>
  BY DEF CreateActor
<1>3. PICK c \in Cells, cancelled \in BOOLEAN :
        NotConstructed \/ Arrive(AddPlayerToServer(a, c)) \/ Arrive(SpawnAndJoinPlayer(a, c, cancelled))
  BY DEF CreateActor, JoinFails
<1>4. Tidy(players, active \cup {a})
  BY <1>1 DEF Tidy, KnownOrStuck
<1>5. AddPlayerToServer(a, c) \in Players /\ Tidy(AddPlayerToServer(a, c), active \cup {a})
  BY <1>1, JoinedStayTidy DEF AddPlayerToServer, Players
<1>6. /\ SpawnAndJoinPlayer(a, c, cancelled) \in Players
      /\ SamePlayers(AddPlayerToServer(a, c), SpawnAndJoinPlayer(a, c, cancelled))
  BY <1>5, TeleportKeeps DEF SpawnAndJoinPlayer, WorldAssumption, Players
<1>7. Tidy(SpawnAndJoinPlayer(a, c, cancelled), active \cup {a})
  BY <1>5, <1>6, MovedStayTidy
<1>8. active \cup {a} \in SUBSET Actors
  BY <1>1
<1> QED
  BY <1>1, <1>2, <1>3, <1>4, <1>5, <1>6, <1>7, <1>8, ArrivedKeep DEF NotConstructed, Nobody

(* one that is moved,                                                      *)
LEMMA MoveKeeps ==
  ASSUME WorldIInv, WorldAssumption, NEW a \in Actors, NEW c \in Cells, Move(a, c)
  PROVE  WorldIInv'
<1>1. players \in Players /\ active \in SUBSET Actors /\ Tidy(players, active)
  BY DEF WorldIInv, WorldTypeOK, Players
<1>2. active' = active /\ UNCHANGED <<block, forced, told, granted>>
  BY DEF Move
<1>3. PICK cancelled \in BOOLEAN : Arrive(players) \/ Arrive(TeleportTo(players, active, c, cancelled))
  BY DEF Move, Nobody
<1>4. /\ TeleportTo(players, active, c, cancelled) \in Players
      /\ SamePlayers(players, TeleportTo(players, active, c, cancelled))
  BY <1>1, TeleportKeeps DEF Players
<1>5. Tidy(TeleportTo(players, active, c, cancelled), active)
  BY <1>1, <1>4, MovedStayTidy
<1> QED
  BY <1>1, <1>2, <1>3, <1>4, <1>5, ArrivedKeep

(* stands at a block,                                                      *)
LEMMA StandKeeps ==
  ASSUME WorldIInv, NEW a \in Actors, NEW c \in Cells, NEW cancelled
  PROVE  StandAt(a, c, cancelled) \in Players /\ Tidy(StandAt(a, c, cancelled), active)
<1>1. players \in Players /\ Tidy(players, active) /\ SamePlayers(players, players)
  BY DEF WorldIInv, WorldTypeOK, Players, SamePlayers
<1>2. StandAt(a, c, cancelled) \in Players /\ SamePlayers(players, StandAt(a, c, cancelled))
  BY <1>1, OneMoved DEF StandAt, Players
<1> QED
  BY <1>1, <1>2, MovedStayTidy

(* fails to break it                                                       *)
LEMMA BreakFailKeeps ==
  ASSUME WorldIInv, WorldAssumption, NEW a \in Actors, NEW c \in Cells, BreakFail(a, c)
  PROVE  WorldIInv'
<1>1. PICK cancelled \in BOOLEAN : Arrive(StandAt(a, c, cancelled))
  BY DEF BreakFail
<1>2. active' = active /\ active \in SUBSET Actors /\ UNCHANGED <<block, forced, told, granted>>
  BY DEF BreakFail, BreakEvent, WorldIInv, WorldTypeOK
<1> QED
  BY <1>1, <1>2, StandKeeps, ArrivedKeep

(* or breaks it, whichever cells are protected.                            *)
LEMMA BreakBlockKeeps ==
  ASSUME WorldIInv, WorldAssumption, NEW a \in Actors, NEW c \in Cells, BreakBlock(a, c)
  PROVE  WorldIInv'
<1>1. PICK cancelled \in BOOLEAN :
        /\ players' = StandAt(a, c, cancelled)
        /\ loaded' = loaded \cup {ChunkOf(players'[n].at[1]) : n \in DOMAIN players} \cup {ChunkOf(c[1])}
  BY DEF BreakBlock
<1>2. players' \in Players /\ Tidy(players', active) /\ DOMAIN players' = DOMAIN players
  <2>1. DOMAIN StandAt(a, c, cancelled) = DOMAIN players
    BY DEF StandAt
  <2> QED
    BY <1>1, <2>1, StandKeeps
<1>3. ChunkOf(c[1]) \in Int /\ \A n \in DOMAIN players : ChunkOf(players'[n].at[1]) \in Int
  BY <1>2, ChunksAreNumbers
<1>4. loaded \subseteq loaded' /\ loaded' \subseteq Int
  BY <1>1, <1>3 DEF WorldIInv, WorldTypeOK
<1>5. block' \in [Cells -> Materials] /\ told' = block'
  BY DEF BreakBlock, BreakEvent, WorldIInv, WorldTypeOK, Materials
<1>6. UNCHANGED <<active, forced, granted>>
  BY DEF BreakBlock
<1>7. WorldTypeOK'
  BY <1>2, <1>4, <1>5, <1>6 DEF WorldIInv, WorldTypeOK, Players
<1> QED
  BY <1>2, <1>5, <1>6, <1>7 DEF WorldIInv, Tidy, KnownOrStuck, EarlierAreStuck

(* Removals keep the order of those who stay.                              *)
LEMMA RemovedStayTidy ==
  ASSUME NEW ps \in Players, NEW ns, NEW as, EarlierAreStuck(ps),
         \A n \in DOMAIN ps \ ns : ps[n].stuck \/ ps[n].id \in as
  PROVE  Without(ps, ns) \in Players /\ Tidy(Without(ps, ns), as)
<1> DEFINE qs == Without(ps, ns)
<1>1. PICK f \in [DOMAIN qs -> DOMAIN ps \ ns] :
        /\ \A n \in DOMAIN f : qs[n] = ps[f[n]]
        /\ \A m, n \in DOMAIN f : m < n => f[m] < f[n]
  BY WithoutKeeps DEF Players
<1>2. qs \in Players
  BY WithoutKeeps DEF Players
<1> HIDE DEF qs
<1>3. KnownOrStuck(qs, as)
  BY <1>1 DEF KnownOrStuck
<1>4. EarlierAreStuck(qs)
  BY <1>1 DEF EarlierAreStuck
<1> QED
  BY <1>2, <1>3, <1>4 DEF Tidy, qs

(* A player that is thrown out;                                            *)
LEMMA KickKeeps ==
  ASSUME WorldIInv, NEW n \in DOMAIN players, Kick(n)
  PROVE  WorldIInv'
<1>1. players \in Players /\ EarlierAreStuck(players) /\ KnownOrStuck(players, active)
  BY DEF WorldIInv, WorldTypeOK, Players, Tidy
<1>2. players' \in Players /\ Tidy(players', active)
  BY <1>1, RemovedStayTidy DEF Kick, KnownOrStuck
<1>3. UNCHANGED <<active, block, loaded, forced, told, granted>>
  BY DEF Kick
<1>4. WorldTypeOK'
  BY <1>2, <1>3 DEF WorldIInv, WorldTypeOK, Players
<1> QED
  BY <1>2, <1>3, <1>4 DEF WorldIInv, Tidy, KnownOrStuck, EarlierAreStuck

(* all of them: who is not removed has been marked as stuck.               *)
LEMMA DisconnectKeeps ==
  ASSUME WorldIInv, DisconnectAll
  PROVE  WorldIInv'
<1>1. PICK failed \in SUBSET {a \in active : Online(a)} :
        players' = Without(
          [n \in DOMAIN players |->
             [players[n] EXCEPT !.stuck = @ \/ \E a \in failed : n = GetPlayer(a)]],
          {GetPlayer(a) : a \in active \ failed})
  BY DEF DisconnectAll
<1> DEFINE sticks(n) == players[n].stuck \/ \E a \in failed : n = GetPlayer(a)
           ps == [n \in DOMAIN players |-> [players[n] EXCEPT !.stuck = sticks(n)]]
           gone == {GetPlayer(a) : a \in active \ failed}
<1>2. players' = Without(ps, gone)
  BY <1>1
<1>3. ASSUME NEW n \in DOMAIN players
      PROVE  /\ ps[n] \in PlayerRecords /\ ps[n].id = players[n].id /\ ps[n].stuck = sticks(n)
             /\ players[n].id \in Actors
  <2>1. players[n] \in PlayerRecords
    BY DEF WorldIInv, WorldTypeOK
  <2>2. ps[n] = [players[n] EXCEPT !.stuck = sticks(n)] /\ sticks(n) \in BOOLEAN
    BY <2>1 DEF PlayerRecords
  <2> HIDE DEF ps, sticks
  <2> QED
    BY <2>1, <2>2 DEF PlayerRecords
<1>4. DOMAIN ps = DOMAIN players /\ ps \in Players
  <2>1. Len(players) \in Nat /\ DOMAIN players = 1..Len(players)
    BY DEF WorldIInv, WorldTypeOK
  <2>2. ps = [n \in 1..Len(players) |-> ps[n]]
    BY <2>1
  <2>3. DOMAIN ps = DOMAIN players
    OBVIOUS
  <2> HIDE DEF ps, sticks
  <2>4. \A n \in 1..Len(players) : ps[n] \in PlayerRecords
    BY <1>3, <2>1
  <2> QED
    BY <2>1, <2>2, <2>3, <2>4 DEF Players
<1> HIDE DEF ps
<1>5. EarlierAreStuck(ps)
  BY <1>3, <1>4 DEF WorldIInv, Tidy, EarlierAreStuck
<1>6. ASSUME NEW n \in DOMAIN players \ gone PROVE ps[n].stuck
  <2> SUFFICES ASSUME ~ sticks(n) PROVE FALSE
    BY <1>3
  <2> DEFINE a == players[n].id
  <2>1. a \in active /\ ~ players[n].stuck /\ a \in Actors
    BY <1>3 DEF WorldIInv, Tidy, KnownOrStuck
  <2>2. /\ Online(a) /\ GetPlayer(a) \in Nat /\ GetPlayer(a) >= n
        /\ GetPlayer(a) \in DOMAIN players /\ players[GetPlayer(a)].id = a
    BY <2>1, PlayerKnown DEF WorldIInv
  <2>3. GetPlayer(a) # n
    BY <2>1
  <2>4. n < GetPlayer(a)
    <3>1. n \in Nat
      BY DEF WorldIInv, WorldTypeOK
    <3> QED
      BY <2>2, <2>3, <3>1
  <2> QED
    BY <2>1, <2>2, <2>4 DEF WorldIInv, Tidy, EarlierAreStuck
<1>7. players' \in Players /\ Tidy(players', {})
  BY <1>2, <1>4, <1>5, <1>6, RemovedStayTidy
<1>8. active' = {} /\ UNCHANGED <<block, loaded, forced, told, granted>>
  BY DEF DisconnectAll
<1>9. WorldTypeOK'
  BY <1>7, <1>8 DEF WorldIInv, WorldTypeOK, Players
<1> QED
  BY <1>7, <1>8, <1>9 DEF WorldIInv, Tidy, KnownOrStuck, EarlierAreStuck

(* Everything together.                                                    *)
LEMMA WorldStart == WorldAssumption /\ WorldInit => WorldIInv
<1> SUFFICES ASSUME WorldInit PROVE WorldIInv
  OBVIOUS
<1>1. WorldTypeOK
  BY DEF WorldInit, WorldTypeOK, Materials
<1>2. Tidy(players, active)
  BY DEF WorldInit, Tidy, KnownOrStuck, EarlierAreStuck
<1> QED
  BY <1>1, <1>2 DEF WorldIInv, WorldInit

(* Every step keeps the invariant,                                         *)
LEMMA WorldStep ==
  ASSUME WorldIInv, WorldAssumption, [WorldNext]_worldVars
  PROVE  WorldIInv'
<1>t. ASSUME UNCHANGED <<active, players>>, WorldTypeOK', told' = block'
      PROVE  WorldIInv'
  BY <1>t DEF WorldIInv, Tidy, KnownOrStuck, EarlierAreStuck
<1>1. ASSUME NEW a \in Actors, Look(a) \/ Chat(a) \/ PluginCommand(a) PROVE WorldIInv'
  BY <1>1, <1>t DEF Look, Chat, PluginCommand, WorldIInv, WorldTypeOK
<1>2. ASSUME NEW a \in Actors, NEW c \in Cells, BreakAbsent(a, c) PROVE WorldIInv'
  BY <1>2, <1>t DEF BreakAbsent, BreakEvent, WorldIInv, WorldTypeOK
<1>3. ASSUME NEW c \in Cells, NEW material \in Materials, SetBlock(c, material) PROVE WorldIInv'
  BY <1>3, <1>t DEF SetBlock, WorldIInv, WorldTypeOK
<1>4. ASSUME NEW x \in TicketColumns, NEW radius \in Radii, SetChunkTicket(x, radius) PROVE WorldIInv'
  <2>1. Around(x, radius) \subseteq Int
    BY DEF Around
  <2>2. /\ granted' \subseteq TicketColumns \X Radii
        /\ loaded' \subseteq Int /\ forced' \subseteq loaded'
    <3>1. /\ granted \subseteq TicketColumns \X Radii /\ granted' = granted \cup {<<x, radius>>}
          /\ loaded \subseteq Int /\ loaded' = loaded \cup Around(x, radius)
          /\ forced \subseteq loaded /\ forced' = forced \cup Around(x, radius)
      BY <1>4 DEF SetChunkTicket, WorldIInv, WorldTypeOK
    <3>2. granted' \subseteq TicketColumns \X Radii
      BY <3>1
    <3>3. loaded' \subseteq Int /\ forced' \subseteq loaded'
      BY <2>1, <3>1
    <3> QED
      BY <3>2, <3>3
  <2>3. UNCHANGED <<active, players, block, told>>
    BY <1>4 DEF SetChunkTicket
  <2> QED
    BY <1>t, <2>2, <2>3 DEF WorldIInv, WorldTypeOK
<1>5. ASSUME NEW ch \in Chunks, Unload(ch) PROVE WorldIInv'
  BY <1>5, <1>t DEF Unload, WorldIInv, WorldTypeOK
<1>6. CASE UNCHANGED worldVars
  BY <1>6, <1>t DEF worldVars, WorldIInv, WorldTypeOK
<1> QED
  BY <1>1, <1>2, <1>3, <1>4, <1>5, <1>6,
     CreateKeeps, MoveKeeps, BreakFailKeeps, BreakBlockKeeps, KickKeeps, DisconnectKeeps
  DEF WorldNext

(* which is inductive.                                                     *)
LEMMA WorldInductive == WorldSpec => []WorldIInv
  BY WorldStart, WorldStep, WorldAssumption, PTL DEF WorldSpec

(* The Bridge's actors, Paper's players, blocks and chunks are well formed, *)
(* whatever joins, leaves or fails half way (NmsActorHandler.java).        *)
THEOREM WorldTypes == WorldSpec => []WorldTypeOK
  BY WorldInductive, PTL DEF WorldIInv

(* Answers and events tell what stands in each cell                        *)
(* (NmsActorHandler.breakBlock, PaperWorldMutations.doSetBlock).           *)
THEOREM RecordsTellBlocks == WorldSpec => []RecordTellsBlocks
  BY WorldInductive, PTL DEF WorldIInv, RecordTellsBlocks

(* The two reads of a player agree, and whom disconnectAll does not know   *)
(* is one whose removal failed, for any number of players                  *)
(* (NmsActorHandler.createActor, disconnectAll, getState).                 *)
THEOREM NobodyIsLeft == WorldSpec => []NoStrangers
<1>1. WorldIInv => NoStrangers
  <2> SUFFICES ASSUME WorldIInv PROVE NoStrangers
    OBVIOUS
  <2>1. ASSUME NEW a \in Actors, ActorState(a).connected
        PROVE  PlayerState(a) = [found |-> TRUE, at |-> ActorState(a).at]
    <3>1. a \in active /\ Online(a)
      BY <2>1 DEF ActorState
    <3> QED
      BY <3>1 DEF ActorState, PlayerState
  <2>2. ASSUME NEW a \in Actors, PlayerState(a).found, ~ players[GetPlayer(a)].stuck
        PROVE  ActorState(a).connected
    <3>1. Online(a)
      BY <2>2 DEF PlayerState
    <3>2. a \in active
      BY <2>2, <3>1, PlayerKnown DEF WorldIInv, Tidy, KnownOrStuck
    <3> QED
      BY <3>1, <3>2 DEF ActorState
  <2>3. ASSUME NEW m \in DOMAIN players, NEW n \in DOMAIN players, m # n, players[m].id = players[n].id
        PROVE  players[m].stuck \/ players[n].stuck
    <3>1. m < n \/ n < m
      BY <2>3 DEF WorldIInv, WorldTypeOK
    <3> QED
      BY <2>3, <3>1 DEF WorldIInv, Tidy, EarlierAreStuck
  <2> QED
    BY <2>1, <2>2, <2>3 DEF NoStrangers
<1> QED
  BY <1>1, WorldInductive, PTL

(* Tickets: the columns a ticket covers lie in the chunks it forces, on    *)
(* both sides of the origin (PaperWorldMutations.doSetChunkTicket).        *)
LEMMA ColumnsAreAround ==
  ASSUME NEW y \in Int, NEW r \in Nat, NEW x \in (y - 16 * r)..(y + 16 * r)
  PROVE  /\ ChunkOf(x) \in Around(y, r)
         /\ 16 * ChunkOf(x) <= x /\ x < 16 * ChunkOf(x) + 16
<1>1. ASSUME NEW z \in Int PROVE ChunkOf(z) \in Int /\ 16 * ChunkOf(z) <= z /\ z < 16 * ChunkOf(z) + 16
  BY DEF ChunkOf
<1>2. x \in Int /\ y - 16 * r <= x /\ x <= y + 16 * r
  OBVIOUS
<1> DEFINE cx == ChunkOf(x)
           cy == ChunkOf(y)
<1>3. /\ cx \in Int /\ 16 * cx <= x /\ x < 16 * cx + 16
      /\ cy \in Int /\ 16 * cy <= y /\ y < 16 * cy + 16
  BY <1>1, <1>2
<1> HIDE DEF cx, cy
<1>4. cx \in (cy - r)..(cy + r)
  BY <1>2, <1>3
<1> QED
  BY <1>3, <1>4 DEF Around, cx, cy

TicketsForce ==
  /\ forced \subseteq loaded
  /\ \A g \in granted : g[2] \in Nat /\ g[1] \in Int /\ Around(g[1], g[2]) \subseteq forced

(* The chunks of every ticket are forced, and what is forced is loaded.    *)
LEMMA TicketsForced == WorldSpec => []TicketsForce
<1>1. WorldInit => TicketsForce
  BY DEF WorldInit, TicketsForce
<1>2. ASSUME TicketsForce, WorldIInv, WorldAssumption, [WorldNext]_worldVars PROVE TicketsForce'
  <2>1. ASSUME NEW x \in TicketColumns, NEW radius \in Radii, SetChunkTicket(x, radius) PROVE TicketsForce'
    <3>1. radius \in Nat /\ x \in Int
      BY <1>2, <2>1 DEF SetChunkTicket, WorldAssumption
    <3>2. ASSUME NEW g \in granted'
          PROVE  g[2] \in Nat /\ g[1] \in Int /\ Around(g[1], g[2]) \subseteq forced'
      <4>1. CASE g \in granted
        BY <1>2, <2>1, <4>1 DEF SetChunkTicket, TicketsForce
      <4>2. CASE g = <<x, radius>>
        BY <2>1, <3>1, <4>2 DEF SetChunkTicket
      <4> QED
        BY <2>1, <4>1, <4>2 DEF SetChunkTicket
    <3>3. forced' \subseteq loaded'
      BY <1>2, <2>1 DEF SetChunkTicket, TicketsForce
    <3> QED
      BY <3>2, <3>3 DEF TicketsForce
  <2>2. ASSUME NEW ch \in Chunks, Unload(ch) PROVE TicketsForce'
    BY <1>2, <2>2 DEF Unload, TicketsForce
  <2>3. ASSUME UNCHANGED <<forced, granted>>, loaded \subseteq loaded' PROVE TicketsForce'
    BY <1>2, <2>3 DEF TicketsForce
  <2>4. ASSUME NEW a \in Actors, CreateActor(a) \/ Look(a) \/ Chat(a) \/ PluginCommand(a)
        PROVE  TicketsForce'
    BY <2>3, <2>4
    DEF CreateActor, JoinFails, NotConstructed, Nobody, Arrive, Look, Chat, PluginCommand
  <2>5. ASSUME DisconnectAll \/ (\E n \in DOMAIN players : Kick(n)) \/ UNCHANGED worldVars
        PROVE  TicketsForce'
    BY <2>3, <2>5 DEF DisconnectAll, Kick, worldVars
  <2>6. ASSUME NEW a \in Actors, NEW c \in Cells,
               Move(a, c) \/ BreakAbsent(a, c) \/ BreakFail(a, c) \/ BreakBlock(a, c)
        PROVE  TicketsForce'
    BY <2>3, <2>6 DEF Move, Nobody, Arrive, BreakAbsent, BreakFail, BreakBlock
  <2>7. ASSUME NEW c \in Cells, NEW material \in Materials, SetBlock(c, material) PROVE TicketsForce'
    BY <2>3, <2>7 DEF SetBlock
  <2> QED
    BY <1>2, <2>1, <2>2, <2>4, <2>5, <2>6, <2>7 DEF WorldNext
<1> QED
  BY <1>1, <1>2, WorldInductive, WorldAssumption, PTL DEF WorldSpec

(* A ticket that was granted keeps every column within its radius loaded,  *)
(* for any column and radius (PaperWorldMutations.doSetChunkTicket).       *)
THEOREM TicketsLast == WorldSpec => []TicketsHold
<1>1. TicketsForce => TicketsHold
  <2> SUFFICES ASSUME TicketsForce, NEW g \in granted,
                      NEW x \in (g[1] - 16 * g[2])..(g[1] + 16 * g[2])
               PROVE  \E ch \in loaded : 16 * ch <= x /\ x < 16 * ch + 16
    BY DEF TicketsHold
  <2>1. g[1] \in Int /\ g[2] \in Nat /\ Around(g[1], g[2]) \subseteq loaded
    BY DEF TicketsForce
  <2> QED
    BY <2>1, ColumnsAreAround
<1> QED
  BY <1>1, TicketsForced, PTL
=============================================================================
