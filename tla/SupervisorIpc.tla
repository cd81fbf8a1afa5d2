---------------------------- MODULE SupervisorIpc ----------------------------
(***************************************************************************)
(* The line between the MCP server and the Run Supervisor: the control     *)
(* file that names a Supervisor's socket, the MCP server's one lookup of   *)
(* it, the client's connection with its pending calls and their timers,    *)
(* and the Supervisor's socket server, whose handlers run concurrently.    *)
(*                                                                         *)
(* Supervisors are numbered in the order in which they are started, and a  *)
(* later one may be started before an earlier one has ended.  What travels *)
(* on a connection is kept per call; handlers end in any order, so that    *)
(* the order of the frames tells a client nothing.                         *)
(***************************************************************************)
EXTENDS Naturals

CONSTANTS
  Calls,           \* ids of the calls under way; an id is used again when it is forgotten
  MaxSupervisors   \* bound: Supervisors started in one behaviour

ASSUME IpcAssumption == MaxSupervisors \in Nat

VARIABLES
  sup,        \* where each Supervisor is in its life
  file,       \* the control file: a Supervisor, Absent, or Torn while it is written
  lookup,     \* supervisorConnect: Unasked, Reading, Absent (null), or a Supervisor
  link,       \* the client's #connecting and #socket: "down", "connecting", "up"
  open,       \* the Supervisor's end of the connection is open
  call,       \* the client's side of each call
  serve,      \* the Supervisor's side of each call
  lost,       \* the calls whose connection is gone
  executed    \* the calls whose handler has ended

supervisors == <<sup, file>>
client == <<lookup, link, call>>
server == <<open, serve, lost, executed>>
vars == <<supervisors, client, server>>

Absent == 0
Torn == MaxSupervisors + 1
Unasked == MaxSupervisors + 2
Reading == MaxSupervisors + 3
Supervisors == 1..MaxSupervisors

Settled == {"ok", "error", "unavailable", "timeout"}
Accepting == {"listening", "publishing", "serving"}

\* Every variable has its type.
TypeOK ==
  /\ sup \in [Supervisors -> Accepting \cup {"unborn", "closing", "gone"}]
  /\ file \in Supervisors \cup {Absent, Torn}
  /\ lookup \in Supervisors \cup {Absent, Unasked, Reading}
  /\ link \in {"down", "connecting", "up"}
  /\ open \in BOOLEAN
  /\ call \in [Calls -> Settled \cup {"idle", "looking", "linking", "pending"}]
  /\ serve \in [Calls -> {"none", "sent", "running", "answered", "refused"}]
  /\ lost \subseteq Calls
  /\ executed \subseteq Calls

Init ==
  /\ sup = [s \in Supervisors |-> "unborn"]
  /\ file = Absent
  /\ lookup = Unasked
  /\ link = "down"
  /\ open = FALSE
  /\ call = [c \in Calls |-> "idle"]
  /\ serve = [c \in Calls |-> "none"]
  /\ lost = {}
  /\ executed = {}

(***************************************************************************)
(* The Supervisors.                                                        *)
(***************************************************************************)
\* listen() has returned.
Listen(s) ==
  /\ sup[s] = "unborn"
  /\ \A t \in Supervisors : t < s => sup[t] # "unborn"
  /\ sup' = [sup EXCEPT ![s] = "listening"]
  /\ UNCHANGED <<file, client, server>>

\* writeControlFile empties the file before it fills it.
PublishStart(s) ==
  /\ sup[s] = "listening"
  /\ sup' = [sup EXCEPT ![s] = "publishing"]
  /\ file' = Torn
  /\ UNCHANGED <<client, server>>

PublishEnd(s) ==
  /\ sup[s] = "publishing"
  /\ sup' = [sup EXCEPT ![s] = "serving"]
  /\ file' = s
  /\ UNCHANGED <<client, server>>

\* The Supervisor's end of the connection goes away: what it has not read is
\* dropped, what it has written may still arrive, and the handlers go on.
Disconnected(after) ==
  /\ open' = FALSE
  /\ serve' = [c \in Calls |-> IF serve[c] = "sent" THEN "none" ELSE after[c]]
  /\ lost' = lost \cup {c \in Calls : after[c] = "running"}

\* SIGTERM: close() destroys the sockets.
Shutdown(s) ==
  /\ sup[s] = "serving"
  /\ sup' = [sup EXCEPT ![s] = "closing"]
  /\ IF lookup = s THEN Disconnected(serve) ELSE UNCHANGED <<open, serve, lost>>
  /\ UNCHANGED <<file, client, executed>>

\* The process has ended, and its handlers with it.
Ended(s) ==
  /\ sup' = [sup EXCEPT ![s] = "gone"]
  /\ open' = (open /\ lookup # s)
  /\ serve' = [c \in Calls |->
                 IF lookup = s /\ serve[c] \in {"sent", "running"} THEN "none" ELSE serve[c]]
  /\ UNCHANGED <<client, lost, executed>>

\* The control file's removal is not awaited before process.exit, and it takes
\* whatever file is there.
Exit(s) ==
  /\ sup[s] = "closing"
  /\ Ended(s)
  /\ file' \in {file, Absent}

\* Killed, or ended by a signal before its handler is installed.
Crash(s) ==
  /\ sup[s] \in Accepting
  /\ Ended(s)
  /\ UNCHANGED file

(***************************************************************************)
(* The MCP server and its client.                                          *)
(***************************************************************************)
\* A tool asks for the client; the first one starts the lookup.
Call(c) ==
  /\ call[c] = "idle"
  /\ call' = [call EXCEPT ![c] = "looking"]
  /\ lookup' = IF lookup = Unasked THEN Reading ELSE lookup
  /\ UNCHANGED <<link, supervisors, server>>

\* readControlFile: no file and a torn file are both null.
LookupEnd ==
  /\ lookup = Reading
  /\ lookup' = IF file = Torn THEN Absent ELSE file
  /\ UNCHANGED <<link, call, supervisors, server>>

NoSupervisor(c) ==
  /\ call[c] = "looking"
  /\ lookup = Absent
  /\ call' = [call EXCEPT ![c] = "unavailable"]
  /\ UNCHANGED <<lookup, link, supervisors, server>>

\* The requests of S are written to the socket, their timers are set.
Sent(S) ==
  /\ call' = [c \in Calls |-> IF c \in S THEN "pending" ELSE call[c]]
  /\ serve' = [c \in Calls |-> IF c \in S /\ open' THEN "sent" ELSE serve[c]]

\* call() with a socket at hand, or behind a connection being made.
EnsureSocket(c) ==
  /\ call[c] = "looking"
  /\ lookup \in Supervisors
  /\ \/ link = "up" /\ UNCHANGED <<link, open>> /\ Sent({c})
     \/ /\ link # "up"
        /\ link' = "connecting"
        /\ call' = [call EXCEPT ![c] = "linking"]
        /\ UNCHANGED <<open, serve>>
  /\ UNCHANGED <<lookup, lost, executed, supervisors>>

Linking == {c \in Calls : call[c] = "linking"}

Connected ==
  /\ link = "connecting"
  /\ sup[lookup] \in Accepting
  /\ link' = "up"
  /\ open' = TRUE
  /\ Sent(Linking)
  /\ UNCHANGED <<lookup, lost, executed, supervisors>>

\* No such socket, or nobody behind it; every waiting call shares the refusal.
ConnectFails ==
  /\ link = "connecting"
  /\ sup[lookup] \notin Accepting
  /\ link' = "down"
  /\ call' = [c \in Calls |-> IF c \in Linking THEN "unavailable" ELSE call[c]]
  /\ UNCHANGED <<lookup, supervisors, server>>

\* #failAll.
FailAll == call' = [c \in Calls |-> IF call[c] = "pending" THEN "unavailable" ELSE call[c]]

\* Mutant: answers are taken in order, without regard to their id.
ReceiveInOrder(c) ==
  /\ serve[c] \in {"answered", "refused"}
  /\ link = "up"
  /\ c \notin lost
  /\ serve' = [serve EXCEPT ![c] = "none"]
  /\ \E d \in Calls :
       /\ call[d] = "pending"
       /\ call' = [call EXCEPT ![d] = IF serve[c] = "answered" THEN "ok" ELSE "error"]
  /\ UNCHANGED <<lookup, link, open, lost, executed, supervisors>>

\* onResponse: an answer nobody waits for is dropped.
Receive(c) ==
  /\ serve[c] \in {"answered", "refused"}
  /\ link = "up"
  /\ c \notin lost
  /\ serve' = [serve EXCEPT ![c] = "none"]
  /\ call' = [call EXCEPT ![c] =
                IF @ # "pending" THEN @ ELSE IF serve[c] = "answered" THEN "ok" ELSE "error"]
  /\ UNCHANGED <<lookup, link, open, lost, executed, supervisors>>

\* Mutant: the timer covers the delivery of the request only.
TimeoutOfDelivery(c) ==
  /\ call[c] = "pending"
  /\ serve[c] # "running"
  /\ call' = [call EXCEPT ![c] = "timeout"]
  /\ UNCHANGED <<lookup, link, supervisors, server>>

\* The call's timer.
Timeout(c) ==
  /\ call[c] = "pending"
  /\ call' = [call EXCEPT ![c] = "timeout"]
  /\ UNCHANGED <<lookup, link, supervisors, server>>

\* Mutant: the end of the connection is noted, the calls on it are not failed.
ClosedInSilence ==
  /\ link = "up"
  /\ ~open
  /\ link' = "down"
  /\ serve' = [c \in Calls |->
                 IF serve[c] \in {"answered", "refused"} THEN "none" ELSE serve[c]]
  /\ UNCHANGED <<call, lookup, open, lost, executed, supervisors>>

\* The socket's error and close events: answers under way may be lost.
Closed ==
  /\ link = "up"
  /\ ~open
  /\ link' = "down"
  /\ FailAll
  /\ serve' = [c \in Calls |->
                 IF serve[c] \in {"answered", "refused"} THEN "none" ELSE serve[c]]
  /\ UNCHANGED <<lookup, open, lost, executed, supervisors>>

\* The client fails its calls and destroys the socket; requests it has written
\* may still be read.
HangUp ==
  /\ link' = "down"
  /\ FailAll
  /\ open' = FALSE
  /\ serve' = [c \in Calls |->
                 IF serve[c] \in {"answered", "refused"} THEN "none" ELSE serve[c]]
  /\ lost' = lost \cup {c \in Calls : serve[c] \in {"sent", "running"}}

\* More than the limit is buffered.
Overflow ==
  /\ link = "up"
  /\ \E c \in Calls : serve[c] = "answered" /\ c \notin lost
  /\ HangUp
  /\ UNCHANGED <<lookup, executed, supervisors>>

\* A settled call is forgotten once nothing of it is under way.
Forget(c) ==
  /\ call[c] \in Settled
  /\ serve[c] = "none"
  /\ call' = [call EXCEPT ![c] = "idle"]
  /\ lost' = lost \ {c}
  /\ executed' = executed \ {c}
  /\ UNCHANGED <<lookup, link, open, serve, supervisors>>

(***************************************************************************)
(* The Supervisor's socket server.                                         *)
(***************************************************************************)
Alive == lookup \in Supervisors /\ sup[lookup] \in Accepting \cup {"closing"}

\* handleLine: a known method of an authorized client.
Handle(c) ==
  /\ Alive
  /\ serve[c] = "sent"
  /\ serve' = [serve EXCEPT ![c] = "running"]
  /\ UNCHANGED <<open, lost, executed, client, supervisors>>

\* Another version, or a method this Supervisor does not know.
Refuse(c) ==
  /\ Alive
  /\ serve[c] = "sent"
  /\ serve' = [serve EXCEPT ![c] = IF c \in lost THEN "none" ELSE "refused"]
  /\ UNCHANGED <<open, lost, executed, client, supervisors>>

\* The handler has ended, with a result or an error; its answer goes to the
\* socket the request came from, or nowhere.
Finish(c) ==
  /\ Alive
  /\ serve[c] = "running"
  /\ executed' = executed \cup {c}
  /\ \E answer \in {"answered", "refused"} :
       serve' = [serve EXCEPT ![c] = IF c \in lost THEN "none" ELSE answer]
  /\ UNCHANGED <<open, lost, client, supervisors>>

\* An answer beyond the frame limit: send() destroys the socket, under the
\* other calls too.
FinishTooLarge(c) ==
  /\ Alive
  /\ serve[c] = "running"
  /\ c \notin lost
  /\ executed' = executed \cup {c}
  /\ Disconnected([serve EXCEPT ![c] = "none"])
  /\ UNCHANGED <<client, supervisors>>

Supervisor(s) ==
  Listen(s) \/ PublishStart(s) \/ PublishEnd(s) \/ Shutdown(s) \/ Exit(s) \/ Crash(s)
Settle(c) == EnsureSocket(c) \/ NoSupervisor(c) \/ Receive(c) \/ Timeout(c)
Handler(c) == Handle(c) \/ Refuse(c) \/ Finish(c) \/ FinishTooLarge(c)

Next ==
  \/ \E s \in Supervisors : Supervisor(s)
  \/ \E c \in Calls : Call(c) \/ Settle(c) \/ Forget(c) \/ Handler(c)
  \/ LookupEnd \/ Connected \/ ConnectFails \/ Closed \/ Overflow

Spec == Init /\ [][Next]_vars

\* The MCP server's event loop: a file is read, a connect succeeds or fails,
\* a timer fires, a closed socket is noticed.  Handlers may hang.
Fairness ==
  /\ WF_vars(LookupEnd)
  /\ WF_vars(Connected \/ ConnectFails)
  /\ WF_vars(Closed)
  /\ \A c \in Calls : WF_vars(Settle(c))
FairSpec == Spec /\ Fairness

(***************************************************************************)
(* What the line promises.                                                 *)
(***************************************************************************)
\* A call is answered with the result of its own handler, never with another
\* call's: handlers end in any order, calls time out and are forgotten, and
\* connections are lost and made again (SupervisorClient.#onResponse).
AnswerIsOwn == \A c \in Calls : call[c] = "ok" => c \in executed

\* No call waits on a connection that is gone or is not being made: whichever
\* end lost it, and whatever was written to a socket already half closed
\* (SupervisorClient.#failAll, #connecting).
NobodyWaitsOnADeadLine ==
  \A c \in Calls :
    /\ call[c] = "pending" => link = "up"
    /\ call[c] = "linking" => link = "connecting"

\* Whoever calls is neither given another's answer nor left on a dead line.
CallersAreServed == AnswerIsOwn /\ NobodyWaitsOnADeadLine

\* Every call ends, with an answer or an error, though handlers may hang and
\* Supervisors come and go.
EveryCallSettles ==
  \A c \in Calls : call[c] \in {"looking", "linking", "pending"} ~> call[c] \in Settled

\* What makes it inductive: an answer under way is of a handler that has ended.
AnswersWereExecuted == \A c \in Calls : serve[c] = "answered" => c \in executed

LineInv == TypeOK /\ CallersAreServed /\ AnswersWereExecuted
=============================================================================
