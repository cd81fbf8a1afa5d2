--------------------------- MODULE BridgeActions ---------------------------
(***************************************************************************)
(* Mutations and reads on their way through the Bridge: the HTTP server's  *)
(* pool of workers, ActionDispatcher with its idempotency cache, the hand- *)
(* over to Paper's main thread, the time-outs on either side of the wire,  *)
(* and the plugin's shutdown.                                              *)
(*                                                                         *)
(* The workers and the main thread are threads: each step below is what    *)
(* one of them does between two points where another can see it.  What a   *)
(* mutation does to the world is one event of the history `applied'.       *)
(* Requests are numbered in the order they reach the Bridge.               *)
(***************************************************************************)
EXTENDS Naturals, Sequences, FiniteSets, SequencesExt

CONSTANTS
  MaxRequests,    \* bound: HTTP requests sent in one behaviour
  Keys,           \* idempotency keys
  Workers,        \* WORKER_THREADS (4)
  QueueCapacity,  \* QUEUE_CAPACITY (32)
  BlindRetries    \* clients send a key again when its outcome is unknown

NoKey == "none"

ASSUME BridgeAssumption ==
  /\ NoKey \notin Keys
  /\ MaxRequests \in Nat
  /\ Workers \in Nat \ {0}
  /\ QueueCapacity \in Nat
  /\ BlindRetries \in BOOLEAN

VARIABLES
  key,        \* the idempotency key of each request, NoKey for a read
  phase,      \* where the request is on the Bridge's side
  queue,      \* the requests waiting for a worker, first come first served
  tasks,      \* Paper's scheduler: the requests handed over, first come first served
  main,       \* the request whose task the main thread is running, or None
  future,     \* what the task has left for its worker, while that waits
  abandoned,  \* the scheduled requests whose `abandoned' flag is set
  cache,      \* idempotencyCache: the request whose result it holds, or None
  seen,       \* what the client knows of its request
  answer,     \* the request whose result the client was given
  applied,    \* history: the mutations carried out, in order
  mode        \* the plugin: "enabled", "stopping" (in onDisable), "stopped"

bridge == <<phase, queue, future, abandoned, cache>>
paper == <<tasks, main, applied, mode>>
client == <<key, seen, answer>>
vars == <<bridge, paper, client>>

None == 0
Requests == 1..MaxRequests
Phases == {"unsent", "queued", "waiting", "over"}
Outcomes == {"none", "pending", "ok", "failed", "unknown"}

Busy == {r \in Requests : phase[r] = "waiting"}
Mutations == {r \in Requests : key[r] \in Keys}

TypeOK ==
  /\ key \in [Requests -> Keys \cup {NoKey}]
  /\ phase \in [Requests -> Phases]
  /\ queue \in Seq(Requests)
  /\ tasks \in Seq(Requests)
  /\ main \in Requests \cup {None}
  /\ future \in [Requests -> {"none", "value", "exception"}]
  /\ abandoned \subseteq Requests
  /\ cache \in [Keys -> Requests \cup {None}]
  /\ seen \in [Requests -> Outcomes]
  /\ answer \in [Requests -> Requests \cup {None}]
  /\ applied \in Seq(Requests)
  /\ mode \in {"enabled", "stopping", "stopped"}
  /\ Cardinality(Busy) + Len(queue) <= Workers + QueueCapacity

Init ==
  /\ key = [r \in Requests |-> NoKey]
  /\ phase = [r \in Requests |-> "unsent"]
  /\ queue = <<>>
  /\ tasks = <<>>
  /\ main = None
  /\ future = [r \in Requests |-> "none"]
  /\ abandoned = {}
  /\ cache = [k \in Keys |-> None]
  /\ seen = [r \in Requests |-> "none"]
  /\ answer = [r \in Requests |-> None]
  /\ applied = <<>>
  /\ mode = "enabled"

-----------------------------------------------------------------------------
(* Clients                                                                 *)

(* A client sends a key again only when it knows how the requests with it  *)
(* went (ID-04), unless it retries blindly.                                *)
MayReuse(k) ==
  \A r \in Requests : key[r] = k /\ phase[r] # "unsent" =>
    seen[r] \in {"ok", "failed"} \cup (IF BlindRetries THEN {"unknown"} ELSE {})

(* The pool takes the request if a worker is free or the queue has room.   *)
(* It refuses others before a handler runs, so that nobody answers them.   *)
HasRoom == Cardinality(Busy) + Len(queue) < Workers + QueueCapacity

Send(r, k) ==
  /\ seen[r] = "none"
  /\ \A q \in 1..(r - 1) : seen[q] # "none"
  /\ k # NoKey => MayReuse(k)
  /\ mode = "enabled"
  /\ key' = [key EXCEPT ![r] = k]
  /\ seen' = [seen EXCEPT ![r] = "pending"]
  /\ phase' = [phase EXCEPT ![r] = IF HasRoom THEN "queued" ELSE "over"]
  /\ queue' = IF HasRoom THEN Append(queue, r) ELSE queue
  /\ UNCHANGED <<future, abandoned, cache, paper, answer>>

(* The client's own time-out, or a connection that breaks: the request     *)
(* goes on without it.                                                     *)
GiveUp(r) ==
  /\ seen[r] = "pending"
  /\ seen' = [seen EXCEPT ![r] = "unknown"]
  /\ UNCHANGED <<bridge, paper, key, answer>>

(* The client learns o, and the result of request a, if it still listens.  *)
Reply(r, o, a) ==
  IF seen[r] = "pending"
  THEN /\ seen' = [seen EXCEPT ![r] = o]
       /\ answer' = [answer EXCEPT ![r] = a]
       /\ UNCHANGED key
  ELSE UNCHANGED client

-----------------------------------------------------------------------------
(* A worker                                                                *)

(* What a worker looks at before it dispatches, in this order: the first   *)
(* rule that applies is the answer.                                        *)
Shapes ==
  [method : {"GET", "POST"}, origin : BOOLEAN, host : {"loopback", "other", "absent"},
   length : {"absent", "within", "beyond", "garbled"}, token : BOOLEAN,
   body : {"object", "broken", "beyond"}, operation : {"mutation", "read", "unknown", "absent"},
   arguments : {"absent", "object", "other"}, keyed : BOOLEAN]

HeaderRules(q) ==
  << <<q.method # "POST", "METHOD_NOT_ALLOWED">>,
     <<q.origin \/ q.host # "loopback", "BRIDGE_ORIGIN_REJECTED">>,
     <<q.length \in {"beyond", "garbled"}, "BODY_TOO_LARGE">>,
     <<~q.token, "BRIDGE_UNAUTHORIZED">> >>
BodyRules(q) ==
  << <<q.body = "beyond", "BODY_TOO_LARGE">>,
     <<q.body = "broken" \/ q.operation = "absent" \/ q.arguments = "other", "TOOL_INPUT_INVALID">> >>
DispatchRules(q) ==
  << <<q.operation = "unknown", "UNKNOWN_OPERATION">>,
     <<q.operation = "mutation" /\ ~q.keyed, "IDEMPOTENCY_KEY_REQUIRED">> >>

Refusals(keyed) ==
  {LET failing == SelectSeq(HeaderRules(q) \o BodyRules(q) \o DispatchRules(q), LAMBDA rule : rule[1])
   IN IF failing = <<>> THEN "none" ELSE Head(failing)[2] : q \in {s \in Shapes : s.keyed = keyed}}
  \ {"none"}
KeyedRefusals == Refusals(TRUE)
KeylessRefusals == Refusals(FALSE)
MayBeRefused(r) == (IF key[r] = NoKey THEN KeylessRefusals ELSE KeyedRefusals) # {}

\* Mutant: a request is looked at when it has been handed over.
TurnAwayLate ==
  /\ queue # <<>>
  /\ Cardinality(Busy) < Workers
  /\ LET r == Head(queue) IN
     /\ MayBeRefused(r)
     /\ queue' = Tail(queue)
     /\ phase' = [phase EXCEPT ![r] = "over"]
     /\ tasks' = Append(tasks, r)
     /\ Reply(r, "failed", None)
  /\ UNCHANGED <<future, abandoned, cache, main, applied, mode>>

(* A worker answers with one of the refusals; nothing is handed over, and  *)
(* a result that the cache has for the key is not looked for.              *)
TurnAway ==
  /\ queue # <<>>
  /\ Cardinality(Busy) < Workers
  /\ LET r == Head(queue) IN
     /\ MayBeRefused(r)
     /\ queue' = Tail(queue)
     /\ phase' = [phase EXCEPT ![r] = "over"]
     /\ Reply(r, "failed", None)
  /\ UNCHANGED <<future, abandoned, cache, paper>>

\* Mutant: the key is entered before its mutation is carried out.
TakeEager ==
  /\ queue # <<>>
  /\ Cardinality(Busy) < Workers
  /\ LET r == Head(queue)
         k == key[r] IN
     /\ queue' = Tail(queue)
     /\ IF k # NoKey /\ cache[k] # None
        THEN /\ phase' = [phase EXCEPT ![r] = "over"]
             /\ Reply(r, "ok", cache[k])
             /\ UNCHANGED <<tasks, cache>>
        ELSE /\ phase' = [phase EXCEPT ![r] = "waiting"]
             /\ tasks' = Append(tasks, r)
             /\ cache' = IF k = NoKey THEN cache ELSE [cache EXCEPT ![k] = r]
             /\ UNCHANGED client
  /\ UNCHANGED <<future, abandoned, main, applied, mode>>

(* dispatch: the cached result, or a task for the main thread.             *)
Take ==
  /\ queue # <<>>
  /\ Cardinality(Busy) < Workers
  /\ LET r == Head(queue)
         k == key[r] IN
     /\ queue' = Tail(queue)
     /\ IF k # NoKey /\ cache[k] # None
        THEN /\ phase' = [phase EXCEPT ![r] = "over"]
             /\ Reply(r, "ok", cache[k])
             /\ UNCHANGED tasks
        ELSE /\ phase' = [phase EXCEPT ![r] = "waiting"]
             /\ tasks' = Append(tasks, r)
             /\ UNCHANGED client
  /\ UNCHANGED <<future, abandoned, cache, main, applied, mode>>

\* Mutant: the result is not cached.
FinishUncached(r) ==
  /\ phase[r] = "waiting"
  /\ future[r] # "none"
  /\ phase' = [phase EXCEPT ![r] = "over"]
  /\ future' = [future EXCEPT ![r] = "none"]
  /\ Reply(r, IF future[r] = "value" THEN "ok" ELSE "failed", IF future[r] = "value" THEN r ELSE None)
  /\ UNCHANGED <<queue, abandoned, cache, paper>>

(* The future has completed: the result is cached and sent, an exception   *)
(* only sent.                                                              *)
Finish(r) ==
  /\ phase[r] = "waiting"
  /\ future[r] # "none"
  /\ phase' = [phase EXCEPT ![r] = "over"]
  /\ future' = [future EXCEPT ![r] = "none"]
  /\ IF future[r] = "value"
     THEN /\ cache' = IF key[r] = NoKey THEN cache ELSE [cache EXCEPT ![key[r]] = r]
          /\ Reply(r, "ok", r)
     ELSE /\ Reply(r, "failed", None)
          /\ UNCHANGED cache
  /\ UNCHANGED <<queue, abandoned, paper>>

\* Mutant: after the time-out the worker goes on waiting for the task.
TimeoutHolding(r) ==
  /\ phase[r] = "waiting"
  /\ future[r] = "none"
  /\ seen[r] = "pending"
  /\ abandoned' = abandoned \cup {r}
  /\ Reply(r, "unknown", None)
  /\ UNCHANGED <<phase, queue, future, cache, paper>>

(* get() times out, or shutdownNow() interrupts it: the task is cancelled  *)
(* if it has not started.                                                  *)
Timeout(r) ==
  /\ phase[r] = "waiting"
  /\ future[r] = "none"
  /\ phase' = [phase EXCEPT ![r] = "over"]
  /\ \/ /\ \E n \in 1..Len(tasks) : tasks[n] = r /\ tasks' = RemoveAt(tasks, n)
        /\ UNCHANGED abandoned
     \/ /\ abandoned' = IF Contains(tasks, r) THEN abandoned \cup {r} ELSE abandoned
        /\ UNCHANGED tasks
  /\ Reply(r, "unknown", None)
  /\ UNCHANGED <<queue, future, cache, main, applied, mode>>

-----------------------------------------------------------------------------
(* Paper's main thread                                                     *)

(* An abandoned task returns at once.                                      *)
TaskStart ==
  /\ mode = "enabled"
  /\ main = None
  /\ tasks # <<>>
  /\ tasks' = Tail(tasks)
  /\ main' = IF Head(tasks) \in abandoned THEN None ELSE Head(tasks)
  /\ abandoned' = abandoned \ {Head(tasks)}
  /\ UNCHANGED <<phase, queue, future, cache, client, applied, mode>>

(* A worker that has timed out does not look at the future any more.       *)
Complete(result) ==
  future' = IF phase[main] = "waiting" THEN [future EXCEPT ![main] = result] ELSE future

(* The handler has done its work.                                          *)
TaskEnd ==
  /\ main # None
  /\ applied' = IF main \in Mutations THEN Append(applied, main) ELSE applied
  /\ Complete("value")
  /\ main' = None
  /\ UNCHANGED <<phase, queue, abandoned, cache, tasks, mode, client>>

\* Mutant: the handler throws after it has changed the world.
TaskFailLate ==
  /\ main # None
  /\ applied' = IF main \in Mutations THEN Append(applied, main) ELSE applied
  /\ Complete("exception")
  /\ main' = None
  /\ UNCHANGED <<phase, queue, abandoned, cache, tasks, mode, client>>

(* The handler refuses its arguments or its target.                        *)
TaskFail ==
  /\ main # None
  /\ Complete("exception")
  /\ main' = None
  /\ UNCHANGED <<phase, queue, abandoned, cache, tasks, applied, mode, client>>

-----------------------------------------------------------------------------
(* onDisable runs on the main thread and closes the server: while it waits *)
(* for the workers, they wait for the main thread.                         *)

Disable ==
  /\ mode = "enabled"
  /\ main = None
  /\ mode' = "stopping"
  /\ UNCHANGED <<bridge, tasks, main, applied, client>>

(* Both grace periods are over: the queue is drained, Paper cancels the    *)
(* plugin's tasks, and no reply gets through any more.                     *)
Stopped ==
  /\ mode = "stopping"
  /\ mode' = "stopped"
  /\ phase' = [r \in Requests |-> IF phase[r] = "queued" THEN "over" ELSE phase[r]]
  /\ queue' = <<>>
  /\ tasks' = <<>>
  /\ abandoned' = {}
  /\ seen' = [r \in Requests |-> IF seen[r] = "pending" THEN "unknown" ELSE seen[r]]
  /\ UNCHANGED <<future, cache, main, applied, key, answer>>

-----------------------------------------------------------------------------
Next ==
  \/ \E r \in Requests :
       \/ \E k \in Keys \cup {NoKey} : Send(r, k)
       \/ GiveUp(r) \/ Finish(r) \/ Timeout(r)
  \/ Take \/ TurnAway
  \/ TaskStart \/ TaskEnd \/ TaskFail
  \/ Disable \/ Stopped

(* The workers and their timers run; the main thread may hang for ever.    *)
Fairness ==
  /\ WF_vars(Take \/ TurnAway)
  /\ \A r \in Requests : WF_vars(Finish(r) \/ Timeout(r))
  /\ WF_vars(Stopped)

Spec == Init /\ [][Next]_vars
FairSpec == Spec /\ Fairness

-----------------------------------------------------------------------------
AppliedFor(k) == {n \in 1..Len(applied) : key[applied[n]] = k}

(* ID-01, as far as the cache goes: with clients that do not send a key    *)
(* again before they know how it went, a mutation is carried out at most   *)
(* once per key ...                                                        *)
OncePerKey == \A k \in Keys : Cardinality(AppliedFor(k)) <= 1

(* ... every successful answer to a mutation speaks of the one that was    *)
(* carried out, the same one for all requests with the key ...             *)
AnswersSpeakOfEffects ==
  \A r \in Mutations : seen[r] = "ok" =>
    \E n \in AppliedFor(key[r]) : answer[r] = applied[n]

(* ... and none that is reported as failed was carried out.                *)
FailedMeansUntouched ==
  \A r \in Mutations : seen[r] = "failed" => \A n \in 1..Len(applied) : applied[n] # r

(* Whatever a client is told of a mutation, it may rely on.                *)
AnswersAreTrue == AnswersSpeakOfEffects /\ FailedMeansUntouched

(* A hanging main thread does not take the Bridge with it: every request   *)
(* that was accepted leaves the pool, also while onDisable waits for it.   *)
RequestsLeave == \A r \in Requests : phase[r] \in {"queued", "waiting"} ~> phase[r] = "over"

-----------------------------------------------------------------------------
\* What makes them inductive.
Queued(r) == Contains(queue, r)
Handed(r) == main = r \/ Contains(tasks, r)
Applied(r) == Contains(applied, r)
Sent(r) == phase[r] # "unsent"

\* No request is twice in the scheduler, or carried out twice.
OnceEach ==
  /\ IsInjective(queue) /\ IsInjective(tasks) /\ IsInjective(applied)
  /\ ~ Contains(tasks, main)

\* How far a request has come on each side: what may still be carried out has
\* not been, and its client has not been told that it failed.
WayOfRequests ==
  \A r \in Requests :
    /\ seen[r] = "none" <=> ~ Sent(r)
    /\ Queued(r) => phase[r] = "queued"
    /\ phase[r] = "queued" => seen[r] \in {"pending", "unknown"}
    /\ Handed(r) => /\ phase[r] \in {"waiting", "over"}
                    /\ future[r] = "none" /\ ~ Applied(r) /\ seen[r] # "failed"
    /\ future[r] # "none" => phase[r] = "waiting"
    /\ future[r] = "value" /\ r \in Mutations => Applied(r)
    /\ future[r] = "exception" => ~ Applied(r)
    /\ Applied(r) => r \in Mutations /\ phase[r] \in {"waiting", "over"}
    /\ seen[r] = "failed" => phase[r] = "over"

\* The cache holds results of what was carried out.
CacheIsTrue == \A k \in Keys : cache[k] # None => key[cache[k]] = k /\ Applied(cache[k])

\* AnswersAreTrue, in these words.
ToldTruly ==
  \A r \in Mutations :
    /\ seen[r] = "ok" => Applied(answer[r]) /\ key[answer[r]] = key[r]
    /\ seen[r] = "failed" => ~ Applied(r)

\* Of two requests with a key, the earlier is known to have succeeded, and then
\* its result is cached, or it has failed; the later can be carried out only if
\* it has failed.
SentInOrder == \A q, r \in Requests : q < r /\ Sent(r) => Sent(q)
SameKey(q, r) == q < r /\ Sent(r) /\ key[q] = key[r] /\ key[r] \in Keys
OneOfAKey ==
  /\ \A q, r \in Requests : SameKey(q, r) => seen[q] \in {"ok", "failed"}
  /\ \A q \in Mutations : seen[q] = "ok" => cache[key[q]] # None
  /\ \A q, r \in Requests : SameKey(q, r) /\ (Handed(r) \/ Applied(r)) => seen[q] = "failed"

IInv ==
  /\ TypeOK /\ OnceEach /\ WayOfRequests /\ CacheIsTrue /\ ToldTruly /\ SentInOrder
  /\ ~ BlindRetries => OneOfAKey
=============================================================================
