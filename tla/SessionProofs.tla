---------------------------- MODULE SessionProofs ----------------------------
(* Theorems about the line to the Supervisor and the session, and about    *)
(* the tools that call over it, for any calls, agents, runtimes and number  *)
(* of Supervisors.                                                          *)
EXTENDS Serve, McpTools, TLAPS

(* The marks of the model are no Supervisors.                              *)
LEMMA Marks ==
  /\ Absent \notin Supervisors /\ Torn \notin Supervisors
  /\ Unasked \notin Supervisors /\ Reading \notin Supervisors
  /\ Absent # Torn /\ Absent # Unasked /\ Absent # Reading
  /\ Torn # Unasked /\ Torn # Reading /\ Unasked # Reading
  BY IpcAssumption DEF Absent, Torn, Unasked, Reading, Supervisors

(* The line.                                                               *)
LEMMA InitLine == Init => LineInv
  BY DEF Init, LineInv, TypeOK, CallersAreServed, AnswerIsOwn, NobodyWaitsOnADeadLine,
         AnswersWereExecuted, Settled, Accepting

(* A Supervisor that has ended keeps the line in order.                    *)
LEMMA EndedLine ==
  ASSUME LineInv, NEW s \in Supervisors, Ended(s), file' \in {file, Absent}
  PROVE  LineInv'
  BY DEF Ended, LineInv, TypeOK, CallersAreServed, AnswerIsOwn, NobodyWaitsOnADeadLine,
         AnswersWereExecuted, client, Accepting

(* And so does one that works,                                             *)
LEMMA SupervisorLine ==
  ASSUME LineInv, NEW s \in Supervisors, Supervisor(s)
  PROVE  LineInv'
<1> USE DEF LineInv, TypeOK, CallersAreServed, AnswerIsOwn, NobodyWaitsOnADeadLine,
            AnswersWereExecuted, client, server, supervisors, Accepting
<1>1. CASE Listen(s)
  BY <1>1 DEF Listen
<1>2. CASE PublishStart(s)
  BY <1>2 DEF PublishStart
<1>3. CASE PublishEnd(s)
  BY <1>3 DEF PublishEnd
<1>4. CASE Shutdown(s)
  BY <1>4 DEF Shutdown, Disconnected
<1>5. CASE Exit(s)
  BY <1>5, EndedLine DEF Exit
<1>6. CASE Crash(s)
  BY <1>6, EndedLine DEF Crash
<1> QED
  BY <1>1, <1>2, <1>3, <1>4, <1>5, <1>6 DEF Supervisor

(* a client that hangs up,                                                 *)
LEMMA HangUpLine ==
  ASSUME LineInv, HangUp, UNCHANGED <<lookup, executed, supervisors>>, link = "up"
  PROVE  LineInv'
  BY DEF HangUp, FailAll, LineInv, TypeOK, CallersAreServed, AnswerIsOwn, NobodyWaitsOnADeadLine,
         AnswersWereExecuted, supervisors, Settled

(* A step of the MCP server or of a handler.                               *)
Line ==
  \/ \E c \in Calls : Call(c) \/ Settle(c) \/ Forget(c) \/ Handler(c)
  \/ LookupEnd \/ Connected \/ ConnectFails \/ Closed \/ Overflow

(* every step of the line,                                                 *)
LEMMA LineKept ==
  ASSUME LineInv, Line
  PROVE  LineInv'
<1> USE DEF LineInv, TypeOK, CallersAreServed, AnswerIsOwn, NobodyWaitsOnADeadLine,
            AnswersWereExecuted, client, server, supervisors, Settled
<1>1. ASSUME NEW c \in Calls, Call(c) PROVE LineInv'
  BY <1>1 DEF Call
<1>2. ASSUME NEW c \in Calls, NoSupervisor(c) PROVE LineInv'
  BY <1>2 DEF NoSupervisor
<1>3. ASSUME NEW c \in Calls, EnsureSocket(c) PROVE LineInv'
  BY <1>3 DEF EnsureSocket, Sent
<1>4. ASSUME NEW c \in Calls, Receive(c) PROVE LineInv'
  BY <1>4 DEF Receive
<1>5. ASSUME NEW c \in Calls, Timeout(c) PROVE LineInv'
  BY <1>5 DEF Timeout
<1>6. ASSUME NEW c \in Calls, Forget(c) PROVE LineInv'
  BY <1>6 DEF Forget
<1>7. ASSUME NEW c \in Calls, Handle(c) \/ Refuse(c) PROVE LineInv'
  BY <1>7 DEF Handle, Refuse
<1>8. ASSUME NEW c \in Calls, Finish(c) PROVE LineInv'
  BY <1>8 DEF Finish
<1>9. ASSUME NEW c \in Calls, FinishTooLarge(c) PROVE LineInv'
  BY <1>9 DEF FinishTooLarge, Disconnected
<1>10. CASE LookupEnd
  BY <1>10 DEF LookupEnd
<1>11. CASE Connected
  BY <1>11 DEF Connected, Sent, Linking
<1>12. CASE ConnectFails
  BY <1>12 DEF ConnectFails, Linking
<1>13. CASE Closed
  BY <1>13 DEF Closed, FailAll
<1>14. CASE Overflow
  BY <1>14, HangUpLine DEF Overflow
<1> QED
  BY <1>1, <1>2, <1>3, <1>4, <1>5, <1>6, <1>7, <1>8, <1>9, <1>10, <1>11, <1>12, <1>13, <1>14
  DEF Line, Settle, Handler

(* Whatever handlers do, in whatever order, and whichever end loses the    *)
(* line: a caller has its own answer, and none waits on a dead line.       *)
THEOREM LineServes == Spec => []CallersAreServed
<1>1. LineInv /\ [Next]_vars => LineInv'
  <2>1. CASE UNCHANGED vars
    BY <2>1
    DEF vars, client, server, supervisors, LineInv, TypeOK, CallersAreServed, AnswerIsOwn,
        NobodyWaitsOnADeadLine, AnswersWereExecuted
  <2> QED
    BY <2>1, SupervisorLine, LineKept DEF Next, Line
<1>2. LineInv => CallersAreServed
  BY DEF LineInv
<1> QED
  BY <1>1, <1>2, InitLine, PTL DEF Spec

(* The session.                                                            *)
LEMMA McpGoneLine ==
  ASSUME LineInv, McpGone
  PROVE  LineInv'
  BY DEF McpGone, Waiting, LineInv, TypeOK, CallersAreServed, AnswerIsOwn, NobodyWaitsOnADeadLine,
         AnswersWereExecuted, supervisors, Settled

(* and a step of something else.                                           *)
LEMMA LineStays ==
  ASSUME LineInv, UNCHANGED vars
  PROVE  LineInv'
  BY DEF vars, client, server, supervisors, LineInv, TypeOK, CallersAreServed, AnswerIsOwn,
         NobodyWaitsOnADeadLine, AnswersWereExecuted

(* A step of a session keeps the line in order.                            *)
LEMMA SessionLine ==
  ASSUME LineInv, own \in Supervisors, [ServeNext]_serveVars
  PROVE  LineInv'
<1> USE DEF session, parents
<1>1. CASE WaitForControlFile \/ WaitTimeout \/ McpExited \/ Interrupt
  BY <1>1, LineStays DEF WaitForControlFile, WaitTimeout, McpExited, Interrupt
<1>2. CASE ReturnFromServe
  BY <1>2, LineStays, EndedLine DEF ReturnFromServe
<1>8. CASE StdinEnd
  BY <1>8 DEF StdinEnd, server, supervisors, LineInv, TypeOK, CallersAreServed, AnswerIsOwn,
    NobodyWaitsOnADeadLine, AnswersWereExecuted
<1>3. CASE DrainEnd
  BY <1>3, LineStays, HangUpLine DEF DrainEnd
<1>4. CASE McpExit \/ McpCrash
  BY <1>4, McpGoneLine DEF McpExit, McpCrash
<1>5. CASE LineStep
  BY <1>5, LineKept DEF LineStep, Line
<1>6. ASSUME NEW s \in Supervisors, SupervisorStep(s) PROVE LineInv'
  BY <1>6, SupervisorLine, EndedLine DEF SupervisorStep, FailToStart
<1>7. CASE UNCHANGED serveVars
  BY <1>7, LineStays DEF serveVars
<1> QED
  BY <1>1, <1>2, <1>3, <1>4, <1>5, <1>6, <1>7, <1>8 DEF ServeNext, Launcher, McpProcess

(* It keeps the types.                                                     *)
LEMMA SessionTypes ==
  ASSUME ServeTypeOK, LineInv', [ServeNext]_serveVars
  PROVE  ServeTypeOK'
<1> USE DEF ServeTypeOK, session, parents
<1>0. TypeOK'
  BY DEF LineInv
<1> QED
  BY <1>0
  DEF ServeNext, Launcher, McpProcess, WaitForControlFile, WaitTimeout, McpExited,
      ReturnFromServe, Interrupt, StdinEnd, DrainEnd, McpExit, McpCrash, McpGone, McpRuns,
      LineStep, SupervisorStep, Watched, serveVars

(* The Supervisors and the control file move on only.                      *)
LEMMA SupervisorsMove ==
  ASSUME TypeOK, own \in Supervisors, FileTells, NEW s \in Supervisors, ~ shared => s = own,
         Supervisor(s) \/ FailToStart(s) \/ (Ended(s) /\ UNCHANGED file),
         own' = own, shared' = shared
  PROVE  /\ FileTells'
         /\ sup[own] \in {"serving", "closing", "gone"} => sup'[own] \in {"serving", "closing", "gone"}
         /\ sup[own] \in {"closing", "gone"} => sup'[own] \in {"closing", "gone"}
         /\ lookup' = lookup
<1> USE Marks DEF TypeOK, FileTells, client, server, supervisors, Accepting
<1>1. CASE Listen(s)
  BY <1>1 DEF Listen
<1>2. CASE PublishStart(s)
  BY <1>2 DEF PublishStart
<1>3. CASE PublishEnd(s)
  BY <1>3 DEF PublishEnd
<1>4. CASE Shutdown(s)
  BY <1>4 DEF Shutdown
<1>5. CASE Ended(s) /\ file' \in {file, Absent}
  BY <1>5 DEF Ended
<1> QED
  BY <1>1, <1>2, <1>3, <1>4, <1>5 DEF Supervisor, Exit, Crash, FailToStart

(* A Supervisor starts after the one before it.                            *)
LEMMA SupervisorOrder ==
  ASSUME ServeIInv, NEW s \in Supervisors, SupervisorStep(s)
  PROVE  FileTells' /\ StartedInOrder'
<1>1. own' = own /\ shared' = shared /\ (McpRuns' => McpRuns)
  BY DEF SupervisorStep, Watched, McpRuns, session
<1>2. (~ shared => s = own) /\ (Supervisor(s) \/ FailToStart(s))
  BY DEF SupervisorStep
<1>3. TypeOK /\ own \in Supervisors /\ FileTells
  BY DEF ServeIInv, ServeTypeOK
<1>4. /\ FileTells'
      /\ sup[own] \in {"serving", "closing", "gone"} => sup'[own] \in {"serving", "closing", "gone"}
      /\ sup[own] \in {"closing", "gone"} => sup'[own] \in {"closing", "gone"}
      /\ lookup' = lookup
  BY <1>1, <1>2, <1>3, SupervisorsMove
<1> QED
  BY <1>1, <1>4 DEF ServeIInv, StartedInOrder

(* Every step of a session keeps to that order.                            *)
LEMMA SessionOrder ==
  ASSUME ServeIInv, [ServeNext]_serveVars
  PROVE  FileTells' /\ StartedInOrder'
<1> USE Marks DEF ServeIInv, ServeTypeOK, LineInv, session, parents, vars, client, server, supervisors
<1>1. CASE WaitForControlFile
  BY <1>1 DEF WaitForControlFile, FileTells, StartedInOrder, McpRuns
<1>2. CASE WaitTimeout \/ McpExited \/ Interrupt \/ StdinEnd
  BY <1>2 DEF WaitTimeout, McpExited, Interrupt, StdinEnd, FileTells, StartedInOrder, McpRuns
<1>3. CASE ReturnFromServe
  <2>1. CASE sup[own] = "gone"
    BY <1>3, <2>1 DEF ReturnFromServe, FileTells, StartedInOrder, McpRuns
  <2>2. CASE sup[own] # "gone"
    BY <1>3, <2>2, SupervisorsMove DEF ReturnFromServe, StartedInOrder, McpRuns
  <2> QED
    BY <2>1, <2>2
<1>4. CASE DrainEnd \/ McpExit \/ McpCrash
  BY <1>4 DEF DrainEnd, HangUp, McpExit, McpCrash, McpGone, FileTells, StartedInOrder, McpRuns
<1>5. CASE LineStep
  <2>1. CASE McpRuns /\ LookupEnd
    BY <1>5, <2>1 DEF LineStep, LookupEnd, FileTells, StartedInOrder, McpRuns, TypeOK
  <2>2. CASE \/ \E c \in Calls : Call(c) \/ Settle(c) \/ Forget(c) \/ Handler(c)
             \/ Connected \/ ConnectFails \/ Closed \/ Overflow
    <3>1. UNCHANGED <<sup, file>> /\ (lookup' = lookup \/ lookup' = Reading)
      BY <2>2
      DEF Call, Settle, EnsureSocket, NoSupervisor, Receive, Timeout, Connected, ConnectFails,
          Closed, Overflow, Forget, Handler, Handle, Refuse, Finish, FinishTooLarge
    <3> QED
      BY <1>5, <3>1 DEF LineStep, FileTells, StartedInOrder, McpRuns
  <2> QED
    BY <1>5, <2>1, <2>2 DEF LineStep
<1>6. ASSUME NEW s \in Supervisors, SupervisorStep(s) PROVE FileTells' /\ StartedInOrder'
  BY <1>6, SupervisorOrder
<1>7. CASE UNCHANGED serveVars
  BY <1>7 DEF serveVars, FileTells, StartedInOrder, McpRuns
<1> QED
  BY <1>1, <1>2, <1>3, <1>4, <1>5, <1>6, <1>7 DEF ServeNext, Launcher, McpProcess

(* The line, the types and the order together are inductive.               *)
LEMMA SessionInductive == ServeSpec => []ServeIInv
<1>1. ServeInit => ServeIInv
  <2> SUFFICES ASSUME ServeInit PROVE ServeIInv
    OBVIOUS
  <2>1. ServeTypeOK /\ LineInv
    BY InitLine DEF ServeInit, ServeTypeOK, LineInv
  <2> QED
    BY <2>1, Marks
    DEF ServeInit, Init, ServeIInv, FileTells, StartedInOrder, McpRuns
<1>2. ServeIInv /\ [ServeNext]_serveVars => ServeIInv'
  BY SessionLine, SessionTypes, SessionOrder DEF ServeIInv, ServeTypeOK
<1> QED
  BY <1>1, <1>2, PTL DEF ServeSpec

(* The launcher, its processes and their line are well formed.             *)
THEOREM SessionIsTyped == ServeSpec => []ServeTypeOK
  BY SessionInductive, PTL DEF ServeIInv

(* In a session too, whichever process ends, and however: a caller has its *)
(* own answer, and none waits on a dead line.                              *)
THEOREM SessionServes == ServeSpec => []CallersAreServed
  BY SessionInductive, PTL DEF ServeIInv, LineInv

(* Whoever else writes the control file: the MCP server runs only once the *)
(* session's own Supervisor has served, and misses it only when it ends.   *)
THEOREM SessionStartsInOrder == ServeSpec => []StartedInOrder
  BY SessionInductive, PTL DEF ServeIInv

-----------------------------------------------------------------------------
(* The tools.                                                              *)
LEMMA NoIdIsNone == NoId \notin Ids
  BY DEF NoId, Ids

(* The empty records are records.                                          *)
LEMMA NoRecords == NoTool \in ToolRecords /\ NoHandler \in HandlerRecords
  BY DEF NoTool, NoHandler, HandlerRecords, ToolRecords

(* What toolError makes of a code is an answer, and no success.            *)
LEMMA Codings == \A code \in Codes : ToolError(code) \in Answers \ {"success"}
  BY DEF Codes, ToolError, Answers, Catalogue

(* What a call that is made leaves in the slot, field by field;            *)
LEMMA Asked ==
  ASSUME ToolsTypeOK, NEW c \in Slots, NEW m \in Methods, NEW i \in Ids \cup {NoId}, Ask(c, m, i)
  PROVE  /\ handler' \in [Slots -> HandlerRecords]
         /\ handler'[c].method = m /\ handler'[c].pc = "sent" /\ handler'[c].id = i
         /\ \A d \in Slots \ {c} : handler'[d] = handler[d]
  BY DEF Ask, NoHandler, ToolsTypeOK, HandlerRecords

(* what a handler that ends leaves,                                        *)
LEMMA Replying ==
  ASSUME ToolsTypeOK, NEW c \in Slots, NEW code \in Codes \cup {"ok"}, Reply(c, code)
  PROVE  /\ handler' \in [Slots -> HandlerRecords]
         /\ IF tool[c].pc = "asking"
            THEN /\ handler'[c].method = handler[c].method /\ handler'[c].id = handler[c].id
                 /\ handler'[c].pc = "replied" /\ handler'[c].code = code
            ELSE handler'[c] = NoHandler
         /\ \A d \in Slots \ {c} : handler'[d] = handler[d]
<1> DEFINE h == [handler[c] EXCEPT !.pc = "replied", !.code = code]
<1>1. CASE tool[c].pc = "asking"
  <2>1. handler' = [handler EXCEPT ![c] = h]
    BY <1>1 DEF Reply
  <2>2. h \in HandlerRecords /\ h.method = handler[c].method /\ h.id = handler[c].id
        /\ h.pc = "replied" /\ h.code = code
    BY DEF ToolsTypeOK, HandlerRecords
  <2> HIDE DEF h
  <2> QED
    BY <1>1, <2>1, <2>2 DEF ToolsTypeOK
<1>2. CASE tool[c].pc # "asking"
  BY <1>2, NoRecords DEF Reply, ToolsTypeOK
<1> QED
  BY <1>1, <1>2

(* one that goes on,                                                       *)
LEMMA Awaiting ==
  ASSUME ToolsTypeOK, NEW c \in Slots,
         NEW pc \in {"creating", "detecting", "gating", "stopping", "running"}, Await(c, pc)
  PROVE  /\ handler' \in [Slots -> HandlerRecords]
         /\ handler'[c].method = handler[c].method /\ handler'[c].id = handler[c].id
         /\ handler'[c].pc = pc /\ handler'[c].code = handler[c].code
         /\ \A d \in Slots \ {c} : handler'[d] = handler[d]
  BY DEF Await, ToolsTypeOK, HandlerRecords

(* and a tool that is answered.                                            *)
LEMMA Telling ==
  ASSUME ToolsTypeOK, NEW c \in Slots, NEW i \in Ids \cup {NoId}, NEW answer \in Answers, Tell(c, i, answer)
  PROVE  /\ tool' \in [Slots -> ToolRecords]
         /\ tool'[c].name = tool[c].name /\ tool'[c].pc = "told" /\ tool'[c].id = i
         /\ tool'[c].answer = answer
         /\ \A d \in Slots \ {c} : tool'[d] = tool[d]
  BY DEF Tell, ToolRecords, ToolsTypeOK

(* The steps, seen field by field.                                         *)
OthersStay(c) == \A d \in Slots \ {c} : tool'[d] = tool[d] /\ handler'[d] = handler[d]
PoolStays == UNCHANGED <<running, pooled, reaping, twice>>
Quietly == UNCHANGED <<state, known, unheard>> /\ PoolStays

Begins(c) ==
  /\ tool[c] = NoTool /\ handler[c] = NoHandler
  /\ \E name \in Registered, i \in Ids \cup {NoId} :
       /\ IF name \in OfRuntime THEN i \in known ELSE i = NoId
       /\ tool'[c].name = name /\ tool'[c].pc = "asking" /\ tool'[c].id = i
       /\ handler'[c].method = FirstMethod(name) /\ handler'[c].pc = "sent" /\ handler'[c].id = i
  /\ OthersStay(c) /\ Quietly

RefusesAtOnce(c) ==
  /\ tool[c] = NoTool /\ handler[c] = NoHandler
  /\ tool'[c].pc = "told" /\ tool'[c].id \in known \cup {NoId}
  /\ tool'[c].answer \in {"CAPABILITY_UNAVAILABLE", "SUPERVISOR_UNAVAILABLE"}
  /\ handler'[c] = NoHandler
  /\ OthersStay(c) /\ Quietly

(* The first call was answered, and the second is made.                    *)
AsksAgain(c, name, first, second) ==
  /\ Replied(c, name, first) /\ handler[c].code = "ok"
  /\ tool'[c].name = name /\ tool'[c].pc = "asking"
  /\ tool'[c].id = handler'[c].id
  /\ handler'[c].id = IF name = "plugin_launch" THEN handler[c].id ELSE tool[c].id
  /\ handler'[c].method = second /\ handler'[c].pc = "sent"
  /\ OthersStay(c) /\ Quietly

LaunchAnswered(c) ==
  /\ Replied(c, "plugin_launch", "runtime.launch") /\ handler[c].code = "ok"
  /\ tool'[c].name = "plugin_launch" /\ tool'[c].pc = "told"
  /\ tool'[c].id = handler[c].id /\ tool'[c].answer = "success"
  /\ handler'[c] = NoHandler
  /\ known' = known \cup {handler[c].id}
  /\ OthersStay(c) /\ UNCHANGED <<state, unheard>> /\ PoolStays

(* Which answer follows from which reply.                                  *)
Successes ==
  {<<"plugin_stop", "runtime.stop">>, <<"operation_get", "runtime.get">>,
   <<"operation_cancel", "runtime.release">>, <<"scenario_run", "scenario.run">>,
   <<"pool_acquire", "pool.acquire">>, <<"pool_release", "pool.release">>}
Answered(c) ==
  /\ tool[c].pc = "asking" /\ handler[c].pc = "replied"
  /\ tool'[c].name = tool[c].name /\ tool'[c].pc = "told" /\ tool'[c].id = tool[c].id
  /\ tool'[c].answer = "success" =>
       handler[c].code = "ok" /\ <<tool[c].name, handler[c].method>> \in Successes
  /\ tool[c].name = "plugin_launch" /\ tool'[c].answer \in {"RUNTIME_CRASHED", "RUNTIME_QUOTA_EXCEEDED"} =>
       handler[c].code = tool'[c].answer
  /\ handler[c].code = "ok" => tool'[c].answer = "success"
  /\ handler'[c] = NoHandler
  /\ OthersStay(c) /\ Quietly

GivenUp(c) ==
  /\ tool[c].pc = "asking"
  /\ tool'[c].name = tool[c].name /\ tool'[c].pc = "told" /\ tool'[c].id = tool[c].id
  /\ tool'[c].answer \in {"thrown", "SUPERVISOR_UNAVAILABLE"}
  /\ \/ handler[c].pc \in {"sent", "replied"} /\ handler'[c] = NoHandler
     \/ handler[c].pc # "replied" /\ handler'[c] = handler[c]
  /\ unheard' = IF handler[c].method \in {"runtime.create", "runtime.launch"}
                THEN unheard \cup ({handler[c].id} \ {NoId}) ELSE unheard
  /\ OthersStay(c) /\ UNCHANGED <<state, known>> /\ PoolStays

Returned(c) ==
  /\ tool[c].pc = "told" /\ handler[c] = NoHandler
  /\ tool'[c] = NoTool /\ handler'[c] = handler[c]
  /\ OthersStay(c) /\ Quietly

Listing ==
  /\ known' = {i \in Ids : Found(i)} \cup known
  /\ UNCHANGED <<tool, handler, state, unheard>> /\ PoolStays

(* The handler ends with `code'.                                           *)
Ends(c, code) ==
  /\ tool' = tool
  /\ IF tool[c].pc = "asking"
     THEN /\ handler'[c].method = handler[c].method /\ handler'[c].id = handler[c].id
          /\ handler'[c].pc = "replied" /\ handler'[c].code = code
     ELSE handler'[c] = NoHandler
  /\ OthersStay(c)
Goes(c, pc) ==
  /\ tool' = tool
  /\ handler'[c].method = handler[c].method /\ handler'[c].id = handler[c].id
  /\ handler'[c].pc = pc
  /\ OthersStay(c)

(* It ends and has changed nothing.                                        *)
EndsQuietly(c) ==
  /\ \/ /\ \/ At(c, "runtime.stop", "sent") \/ At(c, "runtime.release", "sent")
           \/ Launching(c) /\ (Found(handler[c].id) => state[handler[c].id] # "CREATED")
        /\ \E code \in {"RUNTIME_NOT_FOUND", "RUNTIME_INVALID_STATE"} : Ends(c, code)
     \/ /\ At(c, "runtime.get", "sent") \/ At(c, "pool.acquire", "sent") \/ At(c, "pool.release", "sent")
        /\ \E code \in Codes \cup {"ok"} : Ends(c, code)
     \/ Creates(c) /\ handler[c].pc = "sent" /\ Ends(c, "RUNTIME_QUOTA_EXCEEDED")
     \/ Creates(c) /\ handler[c].pc = "creating" /\ Ends(c, "SUPERVISOR_INTERNAL_ERROR")
     \/ handler[c].pc = "detecting" /\ Ends(c, "SUPERVISOR_INTERNAL_ERROR")
  /\ Quietly

GoesQuietly(c) ==
  /\ \/ Creates(c) /\ handler[c].pc = "sent" /\ Goes(c, "creating")
     \/ Launching(c) /\ state[handler[c].id] = "CREATED" /\ Goes(c, "detecting")
  /\ Quietly

(* A runtime is registered.                                                *)
Registers(c) ==
  /\ Creates(c) /\ handler[c].pc = "creating"
  /\ \E i \in Ids :
       /\ state[i] = "UNBORN" /\ SetState(i, "CREATED")
       /\ unheard' = IF tool[c].pc = "asking" THEN unheard ELSE unheard \cup {i}
       /\ \/ handler[c].method = "pool.acquire" /\ Ends(c, "RUNTIME_NOT_FOUND")
          \/ /\ handler[c].method = "scenario.run"
             /\ handler'[c].method = "scenario.run" /\ handler'[c].pc = "created" /\ handler'[c].id = i
          \/ /\ handler[c].method = "runtime.create" /\ tool[c].pc = "asking"
             /\ handler'[c].method = "runtime.create" /\ handler'[c].pc = "replied"
             /\ handler'[c].id = i /\ handler'[c].code = "ok"
          \/ /\ handler[c].method = "runtime.create" /\ tool[c].pc # "asking"
             /\ handler'[c] = NoHandler
  /\ tool' = tool /\ OthersStay(c) /\ UNCHANGED known /\ PoolStays

(* The runtime of the handler moves on.                                    *)
Enters(c, s) == SetState(handler[c].id, s) /\ UNCHANGED <<known, unheard>>
Spawns(c) ==
  /\ handler[c].pc = "detecting" /\ Enters(c, "STARTING") /\ Goes(c, "gating")
  /\ twice' = IF state[handler[c].id] = "CREATED" THEN twice ELSE twice \cup {handler[c].id}
  /\ UNCHANGED <<running, pooled, reaping>>
GateOpens(c) ==
  /\ handler[c].pc = "gating" /\ Enters(c, "READY")
  /\ running' = running \cup {handler[c].id}
  /\ pooled' = pooled \/ (handler[c].method = "pool.acquire" /\ pooled' = pooled \cup {handler[c].id})
  /\ IF handler[c].method = "scenario.run" THEN Goes(c, "running")
     ELSE \E code \in {"ok", "SUPERVISOR_INTERNAL_ERROR"} :
            Ends(c, code) /\ (handler[c].method # "pool.acquire" => code = "ok")
  /\ UNCHANGED <<reaping, twice>>
GateCrashes(c) ==
  handler[c].pc = "gating" /\ Enters(c, "CRASHED") /\ Ends(c, "RUNTIME_CRASHED") /\ PoolStays
ScenarioEnds(c) ==
  /\ At(c, "scenario.run", "running")
  /\ IF state[handler[c].id] \in ActiveStates THEN Enters(c, "RELEASED")
     ELSE UNCHANGED <<state, known, unheard>>
  /\ running' = running \ {handler[c].id}
  /\ \E code \in {"ok", "ASSERTION_FAILED"} : Ends(c, code)
  /\ UNCHANGED <<pooled, reaping, twice>>
StopBegins(c) ==
  /\ At(c, "runtime.stop", "sent")
  /\ state[handler[c].id] \in {"READY", "STARTING"} /\ handler[c].id \in running
  /\ Enters(c, "STOPPING") /\ Goes(c, "stopping") /\ PoolStays
StopsStarting(c) ==
  /\ At(c, "runtime.stop", "sent")
  /\ state[handler[c].id] \in {"READY", "STARTING"} /\ handler[c].id \notin running
  /\ Enters(c, "STOPPED") /\ Ends(c, "RUNTIME_NOT_RUNNING") /\ PoolStays
StopEnds(c) ==
  /\ handler[c].pc = "stopping" /\ Enters(c, "STOPPED") /\ Ends(c, "ok")
  /\ running' = running \ {handler[c].id}
  /\ UNCHANGED <<pooled, reaping, twice>>
Releases(c) ==
  /\ At(c, "runtime.release", "sent") /\ state[handler[c].id] \in {"STOPPED", "CRASHED"}
  /\ Enters(c, "RELEASED") /\ Ends(c, "ok") /\ PoolStays

(* The pool takes a runtime that is up, or lets go of one.                 *)
Joins(c) ==
  /\ At(c, "pool.acquire", "sent") /\ handler[c].id \in running
  /\ pooled' = pooled \cup {handler[c].id} /\ Ends(c, "ok")
  /\ UNCHANGED <<state, running, reaping, twice, known, unheard>>
Reaps(i) ==
  /\ i \in pooled /\ pooled' \subseteq pooled
  /\ \/ /\ state[i] \in {"READY", "STARTING"} /\ i \in running
        /\ SetState(i, "STOPPING") /\ reaping' = reaping \cup {i}
     \/ /\ state[i] \in {"STOPPED", "CRASHED"} \/ (state[i] \in {"READY", "STARTING"} /\ i \notin running)
        /\ SetState(i, "RELEASED") /\ UNCHANGED reaping
     \/ UNCHANGED <<state, reaping>>
  /\ UNCHANGED <<running, twice, known, unheard>>
PutsBack(c) ==
  At(c, "pool.release", "sent") /\ Ends(c, "ok") /\ Reaps(handler[c].id)
Expires(i) == Reaps(i) /\ UNCHANGED <<tool, handler>>
ReapEnds(i) ==
  /\ i \in reaping /\ SetState(i, "STOPPED") /\ running' = running \ {i}
  /\ reaping' = reaping \ {i} \/ (i \in twice /\ UNCHANGED reaping)
  /\ UNCHANGED <<tool, handler, pooled, twice, known, unheard>>
Collected(i) ==
  /\ state[i] = "RELEASED" /\ i \notin reaping /\ \A c \in Slots : handler[c].id # i
  /\ SetState(i, "DELETED")
  /\ UNCHANGED <<tool, handler, known, unheard>> /\ PoolStays

Nothing == UNCHANGED <<tool, handler>> /\ Quietly

AnyStep ==
  \/ \E c \in Slots :
       \/ Begins(c) \/ RefusesAtOnce(c)
       \/ AsksAgain(c, "plugin_launch", "runtime.create", "runtime.launch")
       \/ AsksAgain(c, "operation_cancel", "runtime.stop", "runtime.release")
       \/ LaunchAnswered(c) \/ Answered(c) \/ GivenUp(c) \/ Returned(c)
       \/ EndsQuietly(c) \/ GoesQuietly(c) \/ Registers(c) \/ Spawns(c) \/ GateOpens(c)
       \/ GateCrashes(c) \/ ScenarioEnds(c) \/ StopBegins(c) \/ StopsStarting(c) \/ StopEnds(c)
       \/ Releases(c) \/ Joins(c) \/ PutsBack(c)
  \/ \E i \in Ids : Expires(i) \/ ReapEnds(i) \/ Collected(i)
  \/ Listing \/ Nothing

(* A call that times out has a code that is not in the catalogue.          *)
LEMMA Silent == "SUPERVISOR_TIMEOUT" \notin Catalogue /\ "SUPERVISOR_UNAVAILABLE" \in Catalogue
                /\ "CAPABILITY_UNAVAILABLE" \in Catalogue
  BY DEF Catalogue

(* The steps of an agent have their shapes and keep the types,             *)
LEMMA Agent ==
  ASSUME ToolsTypeOK, NEW c \in Slots, NEW name \in Names,
         (\E i \in Ids \cup {NoId} : CallTool(c, name, i)) \/ NotConnected(c, name)
  PROVE  ToolsTypeOK' /\ (Begins(c) \/ RefusesAtOnce(c))
<1>1. ASSUME NEW i \in Ids \cup {NoId}, CallTool(c, name, i), name \in Registered
      PROVE  ToolsTypeOK' /\ Begins(c)
  <2>1. FirstMethod(name) \in Methods
    BY DEF FirstMethod, Methods
  <2>2. Ask(c, FirstMethod(name), i)
    BY <1>1 DEF CallTool
  <2>3. /\ handler' \in [Slots -> HandlerRecords]
        /\ handler'[c].method = FirstMethod(name) /\ handler'[c].pc = "sent" /\ handler'[c].id = i
        /\ \A d \in Slots \ {c} : handler'[d] = handler[d]
    BY <2>1, <2>2, Asked
  <2> DEFINE t == [NoTool EXCEPT !.name = name, !.pc = "asking", !.id = i]
  <2>4. t \in ToolRecords /\ t.name = name /\ t.pc = "asking" /\ t.id = i
    BY DEF NoTool, ToolRecords
  <2>5. tool' = [tool EXCEPT ![c] = t]
    BY <1>1 DEF CallTool
  <2> HIDE DEF t
  <2>6. /\ tool' \in [Slots -> ToolRecords]
        /\ tool'[c].name = name /\ tool'[c].pc = "asking" /\ tool'[c].id = i
        /\ \A d \in Slots \ {c} : tool'[d] = tool[d]
    BY <2>4, <2>5 DEF ToolsTypeOK
  <2> QED
    BY <1>1, <2>3, <2>6 DEF CallTool, Begins, ToolsTypeOK, OthersStay, Quietly, PoolStays, Pool
<1>2. ASSUME NEW i \in Ids \cup {NoId}, CallTool(c, name, i), name \notin Registered
      PROVE  ToolsTypeOK' /\ RefusesAtOnce(c)
  <2>1. ToolError("CAPABILITY_UNAVAILABLE") = "CAPABILITY_UNAVAILABLE" /\ "CAPABILITY_UNAVAILABLE" \in Answers
    BY Silent DEF ToolError, Answers
  <2>2. i \in known
    BY <1>2 DEF CallTool, OfRuntime, Names, Registered, OfDeveloper
  <2> DEFINE t == [NoTool EXCEPT !.name = name, !.pc = "told", !.id = i, !.answer = "CAPABILITY_UNAVAILABLE"]
  <2>3. t \in ToolRecords /\ t.pc = "told" /\ t.id = i /\ t.answer = "CAPABILITY_UNAVAILABLE"
    BY <2>1 DEF NoTool, ToolRecords
  <2>4. tool' = [tool EXCEPT ![c] = t]
    BY <1>2, <2>1 DEF CallTool
  <2> HIDE DEF t
  <2>5. /\ tool' \in [Slots -> ToolRecords]
        /\ tool'[c].pc = "told" /\ tool'[c].id = i /\ tool'[c].answer = "CAPABILITY_UNAVAILABLE"
        /\ \A d \in Slots \ {c} : tool'[d] = tool[d]
    BY <2>3, <2>4 DEF ToolsTypeOK
  <2> QED
    BY <1>2, <2>2, <2>5 DEF CallTool, RefusesAtOnce, ToolsTypeOK, OthersStay, Quietly, PoolStays, Pool
<1>3. ASSUME NotConnected(c, name) PROVE ToolsTypeOK' /\ RefusesAtOnce(c)
  <2>1. ToolError("SUPERVISOR_UNAVAILABLE") = "SUPERVISOR_UNAVAILABLE" /\ "SUPERVISOR_UNAVAILABLE" \in Answers
    BY Silent DEF ToolError, Answers
  <2>3. /\ tool' \in [Slots -> ToolRecords]
        /\ tool'[c].pc = "told" /\ tool'[c].id = NoId /\ tool'[c].answer = "SUPERVISOR_UNAVAILABLE"
        /\ \A d \in Slots \ {c} : tool'[d] = tool[d]
    BY <1>3, <2>1 DEF NotConnected, NoTool, ToolsTypeOK, ToolRecords
  <2> QED
    BY <1>3, <2>3 DEF NotConnected, RefusesAtOnce, ToolsTypeOK, OthersStay, Quietly, PoolStays, Pool
<1> QED
  BY <1>1, <1>2, <1>3

(* and those of the MCP server when a call is answered,                    *)
LEMMA Answering ==
  ASSUME ToolsTypeOK, CallsMatch, OwnRuntimes, NEW c \in Slots, McpServer(c)
  PROVE  /\ ToolsTypeOK'
         /\ \/ AsksAgain(c, "plugin_launch", "runtime.create", "runtime.launch")
            \/ AsksAgain(c, "operation_cancel", "runtime.stop", "runtime.release")
            \/ LaunchAnswered(c) \/ Answered(c)
<1>0. tool[c] \in ToolRecords /\ tool[c].id \in Ids \cup {NoId}
      /\ handler[c] \in HandlerRecords /\ handler[c].id \in Ids \cup {NoId}
  BY DEF ToolsTypeOK, ToolRecords, HandlerRecords
<1>1. CASE Created(c)
  <2>1. /\ handler' \in [Slots -> HandlerRecords]
        /\ handler'[c].method = "runtime.launch" /\ handler'[c].pc = "sent" /\ handler'[c].id = handler[c].id
        /\ \A d \in Slots \ {c} : handler'[d] = handler[d]
    BY <1>0, <1>1, Asked DEF Created, Methods
  <2>2. /\ tool' \in [Slots -> ToolRecords]
        /\ tool'[c].name = tool[c].name /\ tool'[c].pc = tool[c].pc /\ tool'[c].id = handler[c].id
        /\ \A d \in Slots \ {c} : tool'[d] = tool[d]
    BY <1>0, <1>1 DEF Created, ToolsTypeOK, ToolRecords
  <2> QED
    BY <1>1, <2>1, <2>2 DEF Created, Replied, AsksAgain, ToolsTypeOK, OthersStay, Quietly, PoolStays, Pool
<1>2. CASE Stopped(c)
  <2>1. /\ handler' \in [Slots -> HandlerRecords]
        /\ handler'[c].method = "runtime.release" /\ handler'[c].pc = "sent" /\ handler'[c].id = tool[c].id
        /\ \A d \in Slots \ {c} : handler'[d] = handler[d]
    BY <1>0, <1>2, Asked DEF Stopped, Methods
  <2> QED
    BY <1>2, <2>1 DEF Stopped, Replied, AsksAgain, ToolsTypeOK, OthersStay, Quietly, PoolStays, Pool
<1>3. CASE Launched(c)
  <2>1. /\ tool' \in [Slots -> ToolRecords]
        /\ tool'[c].name = tool[c].name /\ tool'[c].pc = "told" /\ tool'[c].id = handler[c].id
        /\ tool'[c].answer = "success"
        /\ \A d \in Slots \ {c} : tool'[d] = tool[d]
    BY <1>0, <1>3, Telling DEF Launched, Answers
  <2>2. /\ handler' \in [Slots -> HandlerRecords] /\ handler'[c] = NoHandler
        /\ \A d \in Slots \ {c} : handler'[d] = handler[d]
    BY <1>3, NoRecords DEF Launched, ToolsTypeOK
  <2>3. handler[c].id \in Ids
    BY <1>0, <1>3 DEF Launched, Replied, OwnRuntimes, OwnRuntime, Launches
  <2>4. known' \subseteq Ids
    BY <1>3, <2>3 DEF Launched, ToolsTypeOK
  <2> QED
    BY <1>3, <2>1, <2>2, <2>4 DEF Launched, Replied, LaunchAnswered, ToolsTypeOK, OthersStay, PoolStays, Pool
<1>4. ASSUME NEW answer \in Answers, Tell(c, tool[c].id, answer), Close(c), UNCHANGED <<profile, state, Pool, known, unheard>>
      PROVE  /\ ToolsTypeOK' /\ OthersStay(c) /\ Quietly
             /\ tool'[c].name = tool[c].name /\ tool'[c].pc = "told" /\ tool'[c].id = tool[c].id
             /\ tool'[c].answer = answer
             /\ handler'[c] = NoHandler
  <2>1. /\ tool' \in [Slots -> ToolRecords]
        /\ tool'[c].name = tool[c].name /\ tool'[c].pc = "told" /\ tool'[c].id = tool[c].id
        /\ tool'[c].answer = answer
        /\ \A d \in Slots \ {c} : tool'[d] = tool[d]
    BY <1>0, <1>4, Telling
  <2>2. /\ handler' \in [Slots -> HandlerRecords] /\ handler'[c] = NoHandler
        /\ \A d \in Slots \ {c} : handler'[d] = handler[d]
    BY <1>4, NoRecords DEF Close, ToolsTypeOK
  <2> QED
    BY <1>4, <2>1, <2>2 DEF ToolsTypeOK, OthersStay, Quietly, PoolStays, Pool
<1>5. ASSUME Succeed(c), tool[c].pc = "asking", handler[c].pc = "replied",
             <<tool[c].name, handler[c].method>> \in Successes
      PROVE  ToolsTypeOK' /\ Answered(c)
  <2>1. "success" \in Answers
    BY DEF Answers
  <2> QED
    BY <1>4, <1>5, <2>1 DEF Succeed, Answered
<1>6. ASSUME NEW code \in Codes, Fail(c, code), tool[c].pc = "asking", handler[c].pc = "replied",
             handler[c].code # "ok", tool[c].name = "plugin_launch" => code = handler[c].code
      PROVE  ToolsTypeOK' /\ Answered(c)
  <2>1. ToolError(code) \in Answers \ {"success"}
    BY Codings
  <2>2. ToolError(code) \in {"RUNTIME_CRASHED", "RUNTIME_QUOTA_EXCEEDED"} => code = ToolError(code)
    BY DEF ToolError
  <2> QED
    BY <1>4, <1>6, <2>1, <2>2 DEF Fail, Answered
<1>7. handler[c].pc = "replied" => handler[c].code \in Codes \cup {"ok"}
  BY DEF CallsMatch, CallMatches, RepliesOf, Codes, Catalogue
<1>8. CASE StopDone(c) \/ GetDone(c) \/ Cancelled(c) \/ Acquired(c) \/ PutBack(c)
  BY <1>5, <1>8 DEF StopDone, GetDone, Cancelled, Acquired, PutBack, Replied, Successes
<1>9. CASE ScenarioDone(c)
  BY <1>5, <1>6, <1>7, <1>9 DEF ScenarioDone, Replied, Successes
<1>10. CASE CancelFailed(c)
  <2>1. "OPERATION_NOT_CANCELLABLE" \in Codes
    BY DEF Codes, Catalogue
  <2> QED
    BY <1>6, <1>7, <1>10, <2>1 DEF CancelFailed, Replied
<1>11. CASE Failed(c)
  BY <1>6, <1>7, <1>11 DEF Failed
<1> QED
  BY <1>1, <1>2, <1>3, <1>8, <1>9, <1>10, <1>11 DEF McpServer

(* when one is given up and when the agent has its answer,                 *)
LEMMA Leaving ==
  ASSUME ToolsTypeOK, NEW c \in Slots
  PROVE  /\ GiveUp(c) => ToolsTypeOK' /\ GivenUp(c)
         /\ Return(c) => ToolsTypeOK' /\ Returned(c)
         /\ ListResources => ToolsTypeOK' /\ Listing
<1>0. tool[c] \in ToolRecords /\ tool[c].id \in Ids \cup {NoId}
      /\ handler[c] \in HandlerRecords /\ handler[c].id \in Ids \cup {NoId}
  BY DEF ToolsTypeOK, ToolRecords, HandlerRecords
<1>1. ASSUME GiveUp(c) PROVE ToolsTypeOK' /\ GivenUp(c)
  <2>1. PICK answer \in {"thrown", "SUPERVISOR_UNAVAILABLE"} : Tell(c, tool[c].id, answer)
    BY <1>1, Silent DEF GiveUp, ToolError
  <2>2. answer \in Answers
    BY Silent DEF Answers
  <2>3. /\ tool' \in [Slots -> ToolRecords]
        /\ tool'[c].name = tool[c].name /\ tool'[c].pc = "told" /\ tool'[c].id = tool[c].id
        /\ tool'[c].answer = answer
        /\ \A d \in Slots \ {c} : tool'[d] = tool[d]
    BY <1>0, <2>1, <2>2, Telling
  <2>4. /\ handler' \in [Slots -> HandlerRecords]
        /\ \/ handler[c].pc \in {"sent", "replied"} /\ handler'[c] = NoHandler
           \/ handler[c].pc # "replied" /\ handler'[c] = handler[c]
        /\ \A d \in Slots \ {c} : handler'[d] = handler[d]
    BY <1>1, NoRecords DEF GiveUp, ToolsTypeOK
  <2>5. unheard' \subseteq Ids
    BY <1>0, <1>1 DEF GiveUp, ToolsTypeOK
  <2> QED
    BY <1>1, <2>3, <2>4, <2>5 DEF GiveUp, GivenUp, ToolsTypeOK, OthersStay, PoolStays, Pool
<1>2. ASSUME Return(c) PROVE ToolsTypeOK' /\ Returned(c)
  BY <1>2, NoRecords DEF Return, Returned, ToolsTypeOK, OthersStay, Quietly, PoolStays, Pool
<1>3. ASSUME ListResources PROVE ToolsTypeOK' /\ Listing
  BY <1>3 DEF ListResources, Listing, ToolsTypeOK, PoolStays, Pool
<1> QED
  BY <1>1, <1>2, <1>3

(* A handler that ends, or goes on, in shape.                              *)
LEMMA HandlerEnding ==
  ASSUME ToolsTypeOK, NEW c \in Slots, NEW code \in Codes \cup {"ok"}, Reply(c, code), UNCHANGED Mcp
  PROVE  Ends(c, code) /\ handler' \in [Slots -> HandlerRecords]
  BY Replying DEF Ends, OthersStay, Mcp

LEMMA HandlerGoing ==
  ASSUME ToolsTypeOK, NEW c \in Slots,
         NEW pc \in {"creating", "detecting", "gating", "stopping", "running"}, Await(c, pc), UNCHANGED Mcp
  PROVE  Goes(c, pc) /\ handler' \in [Slots -> HandlerRecords]
  BY Awaiting DEF Goes, OthersStay, Mcp

(* A handler that has come past its creation has a runtime.                *)
LEMMA HasId ==
  ASSUME ToolsTypeOK, CallsMatch, OwnRuntimes, NEW c \in Slots,
         \/ handler[c].pc \in {"created", "detecting", "gating", "running", "stopping"}
         \/ handler[c].method \in {"runtime.launch", "runtime.stop", "runtime.release", "runtime.get",
                                  "pool.acquire", "pool.release"}
  PROVE  handler[c].id \in Ids
<1>1. handler[c].id \in Ids \cup {NoId} /\ known \subseteq Ids /\ CallMatches(c) /\ OwnRuntime(c)
  BY DEF ToolsTypeOK, HandlerRecords, CallsMatch, OwnRuntimes
<1>2. CASE handler[c].method \in {"runtime.stop", "runtime.release", "runtime.get", "pool.acquire", "pool.release"}
  BY <1>1, <1>2 DEF CallMatches
<1>3. CASE handler[c].method = "runtime.launch"
  BY <1>1, <1>3 DEF OwnRuntime, Launches
<1>4. CASE handler[c].pc \in {"created", "detecting", "gating", "running", "stopping"}
  <2>1. \/ handler[c].method \in {"runtime.launch", "pool.acquire", "runtime.stop"}
        \/ handler[c].method = "scenario.run" /\ handler[c].pc # "stopping"
    BY <1>1, <1>4 DEF CallMatches, Reaches, Methods
  <2> QED
    BY <1>1, <1>2, <1>3, <1>4, <2>1 DEF OwnRuntime, Launches
<1> QED
  BY <1>2, <1>3, <1>4

(* and those of the Supervisor's handlers,                                 *)
LEMMA Handling ==
  ASSUME ToolsTypeOK, CallsMatch, OwnRuntimes, PoolsMatch, NEW c \in Slots, HandlerStep(c)
  PROVE  /\ ToolsTypeOK'
         /\ \/ EndsQuietly(c) \/ GoesQuietly(c) \/ Registers(c) \/ Spawns(c) \/ GateOpens(c)
            \/ GateCrashes(c) \/ ScenarioEnds(c) \/ StopBegins(c) \/ StopsStarting(c)
            \/ StopEnds(c) \/ Releases(c) \/ Joins(c) \/ PutsBack(c)
<1>0. handler[c] \in HandlerRecords /\ handler[c].id \in Ids \cup {NoId}
  BY DEF ToolsTypeOK, HandlerRecords
<1>c. /\ "RUNTIME_NOT_FOUND" \in Codes /\ "RUNTIME_INVALID_STATE" \in Codes
      /\ "RUNTIME_QUOTA_EXCEEDED" \in Codes /\ "SUPERVISOR_INTERNAL_ERROR" \in Codes
      /\ "RUNTIME_CRASHED" \in Codes /\ "ASSERTION_FAILED" \in Codes /\ "RUNTIME_NOT_RUNNING" \in Codes
      /\ "UNKNOWN_TOOL" \in Codes
  BY DEF Codes, Catalogue
<1>s. ASSUME NEW i, NEW s \in States, SetState(i, s) PROVE state' \in [Ids -> States]
  BY <1>s DEF SetState, ToolsTypeOK
<1>p. /\ state \in [Ids -> States] /\ unheard \subseteq Ids
      /\ running \subseteq Ids /\ pooled \subseteq Ids /\ reaping \subseteq Ids /\ twice \subseteq Ids
  BY DEF ToolsTypeOK
<1> DEFINE Typed == /\ handler' \in [Slots -> HandlerRecords] /\ state' \in [Ids -> States]
                    /\ running' \subseteq Ids /\ pooled' \subseteq Ids
                    /\ reaping' \subseteq Ids /\ twice' \subseteq Ids
                    /\ unheard' \subseteq Ids /\ UNCHANGED Mcp
<1>t. Typed => ToolsTypeOK'
  BY DEF ToolsTypeOK, Mcp
<1>u. ASSUME handler' \in [Slots -> HandlerRecords], UNCHANGED <<state, Pool, unheard, Mcp>>
      PROVE  ToolsTypeOK' /\ Quietly
  BY <1>p, <1>t, <1>u DEF Quietly, PoolStays, Pool, Mcp
<1>1. CASE RefuseState(c)
  <2>1. PICK code \in {"RUNTIME_NOT_FOUND", "RUNTIME_INVALID_STATE"} :
          Reply(c, code) /\ UNCHANGED <<state, Pool, unheard, Mcp>>
    BY <1>1 DEF RefuseState, RequireState
  <2>2. Ends(c, code) /\ handler' \in [Slots -> HandlerRecords]
    BY <1>c, <2>1, HandlerEnding
  <2>3. \/ At(c, "runtime.stop", "sent") \/ At(c, "runtime.release", "sent")
        \/ Launching(c) /\ (Found(handler[c].id) => state[handler[c].id] # "CREATED")
    BY <1>1 DEF RefuseState, RequireState
  <2> QED
    BY <1>u, <2>1, <2>2, <2>3 DEF EndsQuietly
<1>2. CASE GetRuntime(c)
  <2>1. PICK code \in Codes \cup {"ok"} : Reply(c, code) /\ UNCHANGED <<state, Pool, unheard, Mcp>>
    BY <1>2, <1>c DEF GetRuntime
  <2>2. Ends(c, code) /\ handler' \in [Slots -> HandlerRecords]
    BY <2>1, HandlerEnding
  <2> QED
    BY <1>2, <1>u, <2>1, <2>2 DEF GetRuntime, EndsQuietly
<1>3. CASE CreateBegin(c)
  <2>1. \/ Reply(c, "RUNTIME_QUOTA_EXCEEDED") /\ UNCHANGED Mcp
        \/ Await(c, "creating") /\ UNCHANGED Mcp
    BY <1>3 DEF CreateBegin
  <2>2. /\ Ends(c, "RUNTIME_QUOTA_EXCEEDED") \/ Goes(c, "creating")
        /\ handler' \in [Slots -> HandlerRecords]
    BY <1>c, <2>1, HandlerEnding, HandlerGoing
  <2> QED
    BY <1>3, <1>u, <2>2 DEF CreateBegin, EndsQuietly, GoesQuietly
<1>4. CASE LaunchBegin(c)
  <2>1. Goes(c, "detecting") /\ handler' \in [Slots -> HandlerRecords]
    BY <1>4, HandlerGoing DEF LaunchBegin
  <2> QED
    BY <1>4, <1>u, <2>1 DEF LaunchBegin, GoesQuietly
<1>5. CASE CreateEnd(c)
  <2>1. CASE Reply(c, "SUPERVISOR_INTERNAL_ERROR") /\ UNCHANGED <<state, unheard>>
    <3>1. Ends(c, "SUPERVISOR_INTERNAL_ERROR") /\ handler' \in [Slots -> HandlerRecords]
      BY <1>5, <1>c, <2>1, HandlerEnding DEF CreateEnd
    <3> QED
      BY <1>5, <1>u, <2>1, <3>1 DEF CreateEnd, EndsQuietly
  <2>2. ASSUME NEW i \in Ids, state[i] = "UNBORN", SetState(i, "CREATED"),
               unheard' = IF tool[c].pc = "asking" THEN unheard ELSE unheard \cup {i},
               IF handler[c].method = "pool.acquire" THEN Reply(c, "RUNTIME_NOT_FOUND")
               ELSE handler' = [handler EXCEPT ![c] =
                 IF handler[c].method = "scenario.run" THEN [@ EXCEPT !.pc = "created", !.id = i]
                 ELSE IF tool[c].pc = "asking" THEN [@ EXCEPT !.pc = "replied", !.id = i, !.code = "ok"]
                 ELSE NoHandler]
        PROVE  ToolsTypeOK' /\ Registers(c)
    <3>0. /\ state' \in [Ids -> States] /\ unheard' \subseteq Ids
          /\ UNCHANGED <<running, pooled, reaping, twice>> /\ UNCHANGED Mcp
      BY <1>5, <1>p, <1>s, <2>2 DEF CreateEnd, States, ActiveStates, Pool
    <3>q. ASSUME handler' \in [Slots -> HandlerRecords], OthersStay(c),
                 \/ handler[c].method = "pool.acquire" /\ Ends(c, "RUNTIME_NOT_FOUND")
                 \/ /\ handler[c].method = "scenario.run"
                    /\ handler'[c].method = "scenario.run" /\ handler'[c].pc = "created" /\ handler'[c].id = i
                 \/ /\ handler[c].method = "runtime.create" /\ tool[c].pc = "asking"
                    /\ handler'[c].method = "runtime.create" /\ handler'[c].pc = "replied"
                    /\ handler'[c].id = i /\ handler'[c].code = "ok"
                 \/ /\ handler[c].method = "runtime.create" /\ tool[c].pc # "asking"
                    /\ handler'[c] = NoHandler
          PROVE  ToolsTypeOK' /\ Registers(c)
      <4>1. ToolsTypeOK'
        BY <1>p, <1>t, <3>0, <3>q
      <4> QED
        BY <1>5, <2>2, <3>0, <3>q, <4>1 DEF CreateEnd, Registers, PoolStays, Mcp
    <3>1. CASE handler[c].method = "scenario.run"
      <4> DEFINE h == [handler[c] EXCEPT !.pc = "created", !.id = i]
      <4>1. h \in HandlerRecords /\ h.method = "scenario.run" /\ h.pc = "created" /\ h.id = i
        BY <1>0, <3>1 DEF HandlerRecords
      <4>2. handler' = [handler EXCEPT ![c] = h]
        BY <2>2, <3>1
      <4> HIDE DEF h
      <4>3. /\ handler' \in [Slots -> HandlerRecords] /\ handler'[c] = h
            /\ \A d \in Slots \ {c} : handler'[d] = handler[d]
        BY <4>1, <4>2 DEF ToolsTypeOK
      <4> QED
        BY <3>0, <3>1, <3>q, <4>1, <4>3 DEF OthersStay, Mcp
    <3>2. CASE handler[c].method = "runtime.create" /\ tool[c].pc = "asking"
      <4> DEFINE h == [handler[c] EXCEPT !.pc = "replied", !.id = i, !.code = "ok"]
      <4>1. h \in HandlerRecords /\ h.method = handler[c].method /\ h.pc = "replied" /\ h.id = i /\ h.code = "ok"
        BY <1>0 DEF HandlerRecords
      <4>2. handler' = [handler EXCEPT ![c] = h]
        BY <2>2, <3>2
      <4> HIDE DEF h
      <4>3. /\ handler' \in [Slots -> HandlerRecords] /\ handler'[c] = h
            /\ \A d \in Slots \ {c} : handler'[d] = handler[d]
        BY <4>1, <4>2 DEF ToolsTypeOK
      <4> QED
        BY <3>0, <3>2, <3>q, <4>1, <4>3 DEF OthersStay, Mcp
    <3>3. CASE handler[c].method = "runtime.create" /\ tool[c].pc # "asking"
      <4>1. /\ handler' \in [Slots -> HandlerRecords] /\ handler'[c] = NoHandler
            /\ \A d \in Slots \ {c} : handler'[d] = handler[d]
        BY <2>2, <3>3, NoRecords DEF ToolsTypeOK
      <4> QED
        BY <3>0, <3>3, <3>q, <4>1 DEF OthersStay, Mcp
    <3>4. CASE handler[c].method = "pool.acquire"
      <4>1. Ends(c, "RUNTIME_NOT_FOUND") /\ handler' \in [Slots -> HandlerRecords]
        BY <1>c, <2>2, <3>0, <3>4, HandlerEnding
      <4> QED
        BY <3>4, <3>q, <4>1 DEF Ends
    <3> QED
      BY <1>5, <3>1, <3>2, <3>3, <3>4 DEF CreateEnd, Creates
  <2> QED
    BY <1>5, <2>1, <2>2 DEF CreateEnd
<1>6. CASE Spawn(c)
  <2>0. handler[c].id \in Ids
    BY <1>6, HasId DEF Spawn
  <2>1. CASE SetState(handler[c].id, "STARTING") /\ Await(c, "gating")
             /\ twice' = IF state[handler[c].id] = "CREATED" THEN twice ELSE twice \cup {handler[c].id}
    <3>1. Goes(c, "gating") /\ handler' \in [Slots -> HandlerRecords] /\ state' \in [Ids -> States]
      BY <1>6, <1>s, <2>1, HandlerGoing DEF Spawn, States, ActiveStates
    <3>2. ToolsTypeOK'
      BY <1>6, <1>p, <1>t, <2>0, <2>1, <3>1 DEF Spawn
    <3> QED
      BY <1>6, <2>1, <3>1, <3>2 DEF Spawn, Spawns, Enters, Mcp
  <2>2. CASE Reply(c, "SUPERVISOR_INTERNAL_ERROR") /\ UNCHANGED <<state, twice>>
    <3>1. Ends(c, "SUPERVISOR_INTERNAL_ERROR") /\ handler' \in [Slots -> HandlerRecords]
      BY <1>6, <1>c, <2>2, HandlerEnding DEF Spawn
    <3> QED
      BY <1>6, <1>u, <2>2, <3>1 DEF Spawn, EndsQuietly, Pool
  <2> QED
    BY <1>6, <2>1, <2>2 DEF Spawn
<1>7. CASE Gate(c)
  <2>0. handler[c].id \in Ids
    BY <1>7, HasId DEF Gate
  <2>1. CASE SetState(handler[c].id, "READY") /\ running' = running \cup {handler[c].id}
    <3>0. state' \in [Ids -> States] /\ running' \subseteq Ids
      BY <1>p, <1>s, <2>0, <2>1 DEF States, ActiveStates
    <3>n. ~ SetState(handler[c].id, "CRASHED")
      BY <1>p, <2>0, <2>1 DEF SetState
    <3>1. CASE handler[c].method = "scenario.run"
      <4>1. Await(c, "running") /\ UNCHANGED pooled /\ UNCHANGED Mcp
        BY <1>7, <3>1, <3>n DEF Gate
      <4>2. Goes(c, "running") /\ handler' \in [Slots -> HandlerRecords]
        BY <4>1, HandlerGoing
      <4>3. ToolsTypeOK'
        BY <1>7, <1>p, <1>t, <3>0, <4>1, <4>2 DEF Gate
      <4> QED
        BY <1>7, <2>1, <3>1, <4>1, <4>2, <4>3 DEF Gate, GateOpens, Enters, Mcp
    <3>2. CASE handler[c].method = "pool.acquire"
      <4>1. JoinPool(c) /\ UNCHANGED Mcp
        BY <1>7, <3>2, <3>n DEF Gate
      <4>2. PICK code \in {"ok", "SUPERVISOR_INTERNAL_ERROR"} :
              /\ Reply(c, code)
              /\ pooled' = pooled \cup {handler[c].id} \/ pooled' = pooled
        BY <4>1 DEF JoinPool
      <4>3. Ends(c, code) /\ handler' \in [Slots -> HandlerRecords]
        BY <1>c, <4>1, <4>2, HandlerEnding
      <4>4. ToolsTypeOK'
        BY <1>7, <1>p, <1>t, <2>0, <3>0, <4>1, <4>2, <4>3 DEF Gate
      <4> QED
        BY <1>7, <2>1, <3>2, <4>1, <4>2, <4>3, <4>4 DEF Gate, GateOpens, Enters, Mcp
    <3>3. CASE handler[c].method \notin {"scenario.run", "pool.acquire"}
      <4>1. Reply(c, "ok") /\ UNCHANGED pooled /\ UNCHANGED Mcp
        BY <1>7, <3>3, <3>n DEF Gate
      <4>2. Ends(c, "ok") /\ handler' \in [Slots -> HandlerRecords]
        BY <4>1, HandlerEnding
      <4>3. ToolsTypeOK'
        BY <1>7, <1>p, <1>t, <3>0, <4>1, <4>2 DEF Gate
      <4> QED
        BY <1>7, <2>1, <3>3, <4>1, <4>2, <4>3 DEF Gate, GateOpens, Enters, Mcp
    <3> QED
      BY <3>1, <3>2, <3>3
  <2>2. CASE SetState(handler[c].id, "CRASHED") /\ Reply(c, "RUNTIME_CRASHED") /\ UNCHANGED <<running, pooled>>
    <3>1. Ends(c, "RUNTIME_CRASHED") /\ handler' \in [Slots -> HandlerRecords] /\ state' \in [Ids -> States]
      BY <1>7, <1>s, <1>c, <2>2, HandlerEnding DEF Gate, States, ActiveStates
    <3>2. ToolsTypeOK'
      BY <1>7, <1>p, <1>t, <2>2, <3>1 DEF Gate
    <3> QED
      BY <1>7, <2>2, <3>1, <3>2 DEF Gate, GateCrashes, Enters, PoolStays, Mcp
  <2> QED
    BY <1>7, <2>1, <2>2 DEF Gate
<1>8. CASE ScenarioEnd(c)
  <2>1. PICK code \in {"ok", "ASSERTION_FAILED"} : Reply(c, code) /\ UNCHANGED Mcp
    BY <1>8 DEF ScenarioEnd
  <2>2. Ends(c, code) /\ handler' \in [Slots -> HandlerRecords]
    BY <1>c, <2>1, HandlerEnding
  <2>3. state' \in [Ids -> States] /\ running' \subseteq Ids
    BY <1>8, <1>p, <1>s DEF ScenarioEnd, Dispose, States
  <2>4. ToolsTypeOK'
    BY <1>8, <1>p, <1>t, <2>2, <2>3 DEF ScenarioEnd
  <2> QED
    BY <1>8, <2>2, <2>4 DEF ScenarioEnd, Dispose, ScenarioEnds, Enters, Mcp
<1>9. CASE StopBegin(c)
  <2>1. CASE handler[c].id \in running
    <3>1. Goes(c, "stopping") /\ handler' \in [Slots -> HandlerRecords] /\ state' \in [Ids -> States]
      BY <1>9, <1>s, <2>1, HandlerGoing DEF StopBegin, States, ActiveStates
    <3>2. ToolsTypeOK'
      BY <1>9, <1>p, <1>t, <3>1 DEF StopBegin, Pool
    <3> QED
      BY <1>9, <2>1, <3>1, <3>2 DEF StopBegin, StopBegins, Enters, PoolStays, Pool, Mcp
  <2>2. CASE handler[c].id \notin running
    <3>1. Ends(c, "RUNTIME_NOT_RUNNING") /\ handler' \in [Slots -> HandlerRecords] /\ state' \in [Ids -> States]
      BY <1>9, <1>s, <1>c, <2>2, HandlerEnding DEF StopBegin, States, ActiveStates
    <3>2. ToolsTypeOK'
      BY <1>9, <1>p, <1>t, <3>1 DEF StopBegin, Pool
    <3> QED
      BY <1>9, <2>2, <3>1, <3>2 DEF StopBegin, StopsStarting, Enters, PoolStays, Pool, Mcp
  <2> QED
    BY <2>1, <2>2
<1>10. CASE StopEnd(c)
  <2>1. Ends(c, "ok") /\ handler' \in [Slots -> HandlerRecords] /\ state' \in [Ids -> States]
        /\ running' \subseteq Ids
    BY <1>10, <1>p, <1>s, HandlerEnding DEF StopEnd, States, ActiveStates
  <2>2. ToolsTypeOK'
    BY <1>10, <1>p, <1>t, <2>1 DEF StopEnd
  <2> QED
    BY <1>10, <2>1, <2>2 DEF StopEnd, StopEnds, Enters, Mcp
<1>11. CASE Release(c)
  <2>1. Ends(c, "ok") /\ handler' \in [Slots -> HandlerRecords] /\ state' \in [Ids -> States]
    BY <1>11, <1>s, HandlerEnding DEF Release, States
  <2>2. ToolsTypeOK'
    BY <1>11, <1>p, <1>t, <2>1 DEF Release, Pool
  <2> QED
    BY <1>11, <2>1, <2>2 DEF Release, Releases, Enters, PoolStays, Pool, Mcp
<1>12. CASE PoolAcquire(c)
  <2>0. handler[c].id \in Ids
    BY <1>12, HasId DEF PoolAcquire, At
  <2>1. PICK code \in Codes \cup {"ok"} :
          /\ Reply(c, code)
          /\ \/ pooled' = pooled
             \/ handler[c].id \in running /\ pooled' = pooled \cup {handler[c].id} /\ code = "ok"
    BY <1>12, <1>c DEF PoolAcquire, JoinPool
  <2>2. Ends(c, code) /\ handler' \in [Slots -> HandlerRecords]
    BY <1>12, <2>1, HandlerEnding DEF PoolAcquire
  <2>3. ToolsTypeOK'
    BY <1>12, <1>p, <1>t, <2>0, <2>1, <2>2 DEF PoolAcquire
  <2>4. CASE pooled' = pooled
    BY <1>12, <2>2, <2>3, <2>4 DEF PoolAcquire, EndsQuietly, Quietly, PoolStays, Mcp
  <2>5. CASE handler[c].id \in running /\ pooled' = pooled \cup {handler[c].id} /\ code = "ok"
    BY <1>12, <2>2, <2>3, <2>5 DEF PoolAcquire, Joins, Mcp
  <2> QED
    BY <2>1, <2>4, <2>5
<1>13. CASE PoolRelease(c)
  <2>0. handler[c].id \in Ids
    BY <1>13, HasId DEF PoolRelease, At
  <2>1. CASE UNCHANGED <<state, pooled, reaping>>
    <3>1. PICK code \in Codes \cup {"ok"} : Reply(c, code)
      BY <1>13, <1>c DEF PoolRelease
    <3>2. Ends(c, code) /\ handler' \in [Slots -> HandlerRecords]
      BY <1>13, <3>1, HandlerEnding DEF PoolRelease
    <3> QED
      BY <1>13, <1>u, <2>1, <3>2 DEF PoolRelease, EndsQuietly, Pool
  <2>2. CASE handler[c].id \in pooled /\ Reply(c, "ok") /\ Reap(handler[c].id)
    <3>1. Ends(c, "ok") /\ handler' \in [Slots -> HandlerRecords]
      BY <1>13, <2>2, HandlerEnding DEF PoolRelease
    <3>2. state' \in [Ids -> States] /\ pooled' \subseteq Ids /\ reaping' \subseteq Ids
      BY <1>p, <1>s, <2>0, <2>2 DEF Reap, States, ActiveStates
    <3>3. ToolsTypeOK'
      BY <1>13, <1>p, <1>t, <3>1, <3>2 DEF PoolRelease
    <3>4. Reaps(handler[c].id)
      BY <1>13, <2>2 DEF PoolRelease, Reap, Reaps, Mcp
    <3> QED
      BY <1>13, <3>1, <3>3, <3>4 DEF PoolRelease, PutsBack
  <2> QED
    BY <1>13, <2>1, <2>2 DEF PoolRelease
<1> QED
  BY <1>1, <1>2, <1>3, <1>4, <1>5, <1>6, <1>7, <1>8, <1>9, <1>10, <1>11, <1>12, <1>13 DEF HandlerStep

(* those of the pool and of the collector,                                 *)
LEMMA Keeping ==
  ASSUME ToolsTypeOK, NEW i \in Ids
  PROVE  /\ Expire(i) => ToolsTypeOK' /\ Expires(i)
         /\ ReapEnd(i) => ToolsTypeOK' /\ ReapEnds(i)
         /\ Collect(i) => ToolsTypeOK' /\ Collected(i)
<1>s. ASSUME NEW s \in States, SetState(i, s) PROVE state' \in [Ids -> States]
  BY <1>s DEF SetState, ToolsTypeOK
<1>1. ASSUME Expire(i) PROVE ToolsTypeOK' /\ Expires(i)
  <2>1. state' \in [Ids -> States] /\ pooled' \subseteq Ids /\ reaping' \subseteq Ids
    BY <1>1, <1>s DEF Expire, Reap, States, ActiveStates, ToolsTypeOK
  <2>2. ToolsTypeOK'
    BY <1>1, <2>1 DEF Expire, ToolsTypeOK, Mcp
  <2>3. Reaps(i) /\ UNCHANGED <<tool, handler>>
    BY <1>1 DEF Expire, Reap, Reaps, Mcp
  <2> QED
    BY <2>2, <2>3 DEF Expires
<1>2. ASSUME ReapEnd(i) PROVE ToolsTypeOK' /\ ReapEnds(i)
  <2>1. state' \in [Ids -> States]
    BY <1>2, <1>s DEF ReapEnd, States, ActiveStates
  <2>2. ToolsTypeOK'
    BY <1>2, <2>1 DEF ReapEnd, ToolsTypeOK, Mcp
  <2> QED
    BY <1>2, <2>2 DEF ReapEnd, ReapEnds, Mcp
<1>3. ASSUME Collect(i) PROVE ToolsTypeOK' /\ Collected(i)
  <2>1. state' \in [Ids -> States]
    BY <1>3, <1>s DEF Collect, States
  <2>2. ToolsTypeOK'
    BY <1>3, <2>1 DEF Collect, ToolsTypeOK, Mcp, Pool
  <2> QED
    BY <1>3, <2>2 DEF Collect, Collected, PoolStays, Pool, Mcp
<1> QED
  BY <1>1, <1>2, <1>3

(* so that every step has a shape and keeps the types.                     *)
LEMMA ToolStep ==
  ASSUME ToolsTypeOK, CallsMatch, OwnRuntimes, PoolsMatch, [ToolsNext]_toolsVars
  PROVE  ToolsTypeOK' /\ AnyStep
<1>1. ASSUME NEW i \in Ids, Expire(i) \/ ReapEnd(i) \/ Collect(i) PROVE ToolsTypeOK' /\ AnyStep
  BY <1>1, Keeping DEF AnyStep
<1>2. CASE UNCHANGED toolsVars
  BY <1>2 DEF toolsVars, Pool, ToolsTypeOK, AnyStep, Nothing, Quietly, PoolStays
<1>3. ASSUME NEW c \in Slots, McpServer(c) PROVE ToolsTypeOK' /\ AnyStep
  BY <1>3, Answering DEF AnyStep
<1>4. ASSUME NEW c \in Slots, HandlerStep(c) PROVE ToolsTypeOK' /\ AnyStep
  BY <1>4, Handling DEF AnyStep
<1>5. ASSUME NEW c \in Slots, NEW name \in Names,
             (\E i \in Ids \cup {NoId} : CallTool(c, name, i)) \/ NotConnected(c, name)
      PROVE  ToolsTypeOK' /\ AnyStep
  BY <1>5, Agent DEF AnyStep
<1>6. ASSUME NEW c \in Slots, GiveUp(c) \/ Return(c) PROVE ToolsTypeOK' /\ AnyStep
  BY <1>6, Leaving DEF AnyStep
<1>7. CASE ListResources
  BY <1>7 DEF ListResources, Listing, ToolsTypeOK, AnyStep, PoolStays, Pool
<1> QED
  BY <1>1, <1>2, <1>3, <1>4, <1>5, <1>6, <1>7 DEF ToolsNext, AnyStep

(* The fields of the empty records.                                        *)
LEMMA NoHandlerFields ==
  NoHandler.pc = "none" /\ NoHandler.method = None /\ NoHandler.id = NoId /\ NoHandler.code = None
  BY DEF NoHandler

LEMMA NoToolFields == NoTool.pc = "idle" /\ NoTool.name = None /\ NoTool.id = NoId
  BY DEF NoTool

(* A slot without call or handler matches.                                 *)
LEMMA NoCall ==
  ASSUME NEW c \in Slots, handler'[c] = NoHandler, tool'[c].pc # "asking"
  PROVE  CallMatches(c)'
  BY NoHandlerFields DEF CallMatches, None

(* A handler that ends with a reply its method has, in a slot that matches, *)
LEMMA EndedCall ==
  ASSUME ToolsTypeOK, NEW c \in Slots, CallMatches(c), handler[c].pc # "none", UNCHANGED known,
         NEW code \in RepliesOf(handler[c].method), Ends(c, code)
  PROVE  CallMatches(c)'
<1>1. CASE tool[c].pc = "asking"
  BY <1>1 DEF CallMatches, Ends, Reaches
<1>2. CASE tool[c].pc # "asking"
  BY <1>2, NoCall DEF Ends
<1> QED
  BY <1>1, <1>2

(* or goes on where its method goes, leaves the slot matching.             *)
LEMMA GoingCall ==
  ASSUME ToolsTypeOK, NEW c \in Slots, CallMatches(c), handler[c].pc # "none", UNCHANGED known,
         NEW pc \in {"creating", "detecting", "gating", "stopping", "running"},
         pc \in Reaches(handler[c].method), Goes(c, pc)
  PROVE  CallMatches(c)'
  BY DEF CallMatches, Goes

(* Every step keeps calls and handlers matching.                           *)
LEMMA CallsKept ==
  ASSUME CallsMatch, OwnRuntimes, ToolsTypeOK, ToolsTypeOK', AnyStep
  PROVE  CallsMatch'
<1>c. ASSUME NEW c \in Slots
      PROVE  CallMatches(c) /\ tool[c] \in ToolRecords /\ handler[c] \in HandlerRecords
  BY DEF CallsMatch, ToolsTypeOK
<1>d. ASSUME NEW c \in Slots, OthersStay(c), known \subseteq known', CallMatches(c)'
      PROVE  CallsMatch'
  <2>1. ASSUME NEW d \in Slots \ {c} PROVE CallMatches(d)'
    BY <1>d, <2>1 DEF CallsMatch, CallMatches, OthersStay
  <2> QED
    BY <1>d, <2>1 DEF CallsMatch
<1>r. \A m \in Methods : "SUPERVISOR_INTERNAL_ERROR" \in RepliesOf(m)
  BY DEF Methods, RepliesOf, Codes
<1>1. ASSUME NEW c \in Slots, Begins(c) PROVE CallsMatch'
  <2>1. CallMatches(c)'
    <3>1. PICK name \in Registered, i \in Ids \cup {NoId} :
            /\ IF name \in OfRuntime THEN i \in known ELSE i = NoId
            /\ tool'[c].name = name /\ tool'[c].pc = "asking" /\ tool'[c].id = i
            /\ handler'[c].method = FirstMethod(name) /\ handler'[c].pc = "sent" /\ handler'[c].id = i
      BY <1>1 DEF Begins
    <3>2. <<name, FirstMethod(name)>> \in Pairs /\ FirstMethod(name) \in Methods
          /\ "sent" \in Reaches(FirstMethod(name))
      BY DEF Registered, OfDeveloper, PoolTools, FirstMethod, Pairs, Methods, Reaches
    <3>3. FirstMethod(name) \in {"runtime.stop", "runtime.release", "runtime.get", "pool.acquire", "pool.release"} =>
            name \in OfRuntime
      BY DEF Registered, OfDeveloper, PoolTools, FirstMethod, OfRuntime, Names
    <3>4. FirstMethod(name) = "runtime.create" => name \notin OfRuntime
      BY DEF Registered, OfDeveloper, PoolTools, FirstMethod, OfRuntime, Names
    <3> QED
      BY <1>1, <3>1, <3>2, <3>3, <3>4 DEF CallMatches, Begins, Quietly
  <2> QED
    BY <1>1, <1>d, <2>1 DEF Begins, Quietly
<1>2. ASSUME NEW c \in Slots, RefusesAtOnce(c) \/ LaunchAnswered(c) \/ Answered(c) PROVE CallsMatch'
  <2>1. CallMatches(c)'
    BY <1>2, NoCall DEF RefusesAtOnce, LaunchAnswered, Answered
  <2> QED
    BY <1>2, <1>d, <2>1 DEF RefusesAtOnce, LaunchAnswered, Answered, Quietly
<1>3. ASSUME NEW c \in Slots, AsksAgain(c, "plugin_launch", "runtime.create", "runtime.launch")
      PROVE  CallsMatch'
  <2>1. CallMatches(c)'
    BY <1>3, <1>c DEF AsksAgain, Replied, CallMatches, Pairs, Reaches, Methods
  <2> QED
    BY <1>3, <1>d, <2>1 DEF AsksAgain, Quietly
<1>4. ASSUME NEW c \in Slots, AsksAgain(c, "operation_cancel", "runtime.stop", "runtime.release")
      PROVE  CallsMatch'
  <2>1. CallMatches(c)'
    BY <1>4, <1>c DEF AsksAgain, Replied, CallMatches, Pairs, Reaches, Methods, Quietly
  <2> QED
    BY <1>4, <1>d, <2>1 DEF AsksAgain, Quietly
<1>5. ASSUME NEW c \in Slots, GivenUp(c) PROVE CallsMatch'
  <2>1. CallMatches(c)'
    <3>1. CASE handler'[c] = NoHandler
      BY <1>5, <3>1, NoCall DEF GivenUp
    <3>2. CASE handler'[c] = handler[c] /\ handler[c].pc # "replied"
      BY <1>5, <1>c, <3>2 DEF GivenUp, CallMatches
    <3> QED
      BY <1>5, <3>1, <3>2 DEF GivenUp
  <2> QED
    BY <1>5, <1>d, <2>1 DEF GivenUp
<1>6. ASSUME NEW c \in Slots, Returned(c) PROVE CallsMatch'
  <2>1. CallMatches(c)'
    BY <1>6, NoCall, NoToolFields DEF Returned
  <2> QED
    BY <1>6, <1>d, <2>1 DEF Returned, Quietly
<1>7. ASSUME NEW c \in Slots, EndsQuietly(c) PROVE CallsMatch'
  <2>1. PICK code \in Codes \cup {"ok"} : Ends(c, code) /\ code \in RepliesOf(handler[c].method)
    <3>1. handler[c].pc # "none" /\ handler[c].method \in Methods
      BY <1>7, <1>c DEF EndsQuietly, At, Launching, Creates, CallMatches
    <3>2. /\ \A m \in Methods \ {"runtime.create", "runtime.launch"} : RepliesOf(m) = Codes \cup {"ok"}
          /\ {"RUNTIME_NOT_FOUND", "RUNTIME_INVALID_STATE"} \subseteq RepliesOf("runtime.launch")
          /\ "RUNTIME_QUOTA_EXCEEDED" \in RepliesOf("runtime.create")
          /\ {"RUNTIME_NOT_FOUND", "RUNTIME_INVALID_STATE", "RUNTIME_QUOTA_EXCEEDED",
              "SUPERVISOR_INTERNAL_ERROR"} \subseteq Codes
      BY DEF RepliesOf, Methods, Codes, Catalogue
    <3> QED
      BY <1>7, <1>r, <3>1, <3>2 DEF EndsQuietly, At, Launching, Creates
  <2>2. CallMatches(c)' 
    BY <1>7, <1>c, <2>1, EndedCall DEF EndsQuietly, Quietly, At, Launching, Creates
  <2> QED
    BY <1>7, <1>d, <2>1, <2>2 DEF EndsQuietly, Quietly, Ends
<1>8. ASSUME NEW c \in Slots, GoesQuietly(c) PROVE CallsMatch'
  <2>1. CallMatches(c)' /\ OthersStay(c)
    BY <1>8, <1>c, GoingCall DEF GoesQuietly, Quietly, At, Launching, Creates, Reaches, Goes
  <2> QED
    BY <1>8, <1>d, <2>1 DEF GoesQuietly, Quietly
<1>9. ASSUME NEW c \in Slots, Registers(c) PROVE CallsMatch'
  <2>1. CallMatches(c)'
    <3>1. CASE handler'[c] = NoHandler
      BY <1>9, <3>1, NoCall, NoHandlerFields DEF Registers, Ends
    <3>2. CASE Ends(c, "RUNTIME_NOT_FOUND") /\ handler[c].method = "pool.acquire"
      <4>1. "RUNTIME_NOT_FOUND" \in RepliesOf(handler[c].method)
        BY <3>2 DEF RepliesOf, Codes, Catalogue
      <4> QED
        BY <1>9, <1>c, <3>2, <4>1, EndedCall DEF Registers
    <3>3. CASE handler'[c] # NoHandler /\ handler[c].method # "pool.acquire"
      BY <1>9, <1>c, <3>3 DEF Registers, Creates, CallMatches, Reaches, RepliesOf, Methods, Pairs
    <3> QED
      BY <1>9, <3>1, <3>2, <3>3 DEF Registers
  <2> QED
    BY <1>9, <1>d, <2>1 DEF Registers
<1>10. ASSUME NEW c \in Slots, Spawns(c) \/ StopBegins(c) PROVE CallsMatch'
  <2>1. CallMatches(c)' /\ OthersStay(c) /\ UNCHANGED known
    BY <1>10, <1>c, GoingCall DEF Spawns, StopBegins, Enters, At, Goes, CallMatches, Reaches, Methods
  <2> QED
    BY <1>d, <2>1
<1>11. ASSUME NEW c \in Slots, GateOpens(c) PROVE CallsMatch'
  <2>0. handler[c].pc # "none" /\ UNCHANGED known
    BY <1>11 DEF GateOpens, Enters
  <2>1. CallMatches(c)' /\ OthersStay(c) /\ UNCHANGED known
    <3>1. CASE Goes(c, "running") /\ handler[c].method = "scenario.run"
      BY <1>c, <2>0, <3>1, GoingCall DEF Goes, Reaches
    <3>2. ASSUME NEW code \in {"ok", "SUPERVISOR_INTERNAL_ERROR"}, Ends(c, code),
                 handler[c].method # "pool.acquire" => code = "ok", handler[c].method # "scenario.run"
          PROVE  CallMatches(c)' /\ OthersStay(c)
      <4>1. handler[c].method \in {"runtime.launch", "pool.acquire"}
        BY <1>11, <1>c, <3>2 DEF GateOpens, CallMatches, Reaches, Methods
      <4>2. code \in RepliesOf(handler[c].method)
        BY <3>2, <4>1 DEF RepliesOf, Codes
      <4> QED
        BY <1>c, <2>0, <3>2, <4>2, EndedCall DEF Ends
    <3> QED
      BY <1>11, <2>0, <3>1, <3>2 DEF GateOpens
  <2> QED
    BY <1>d, <2>1
<1>12. ASSUME NEW c \in Slots,
              \/ GateCrashes(c) \/ ScenarioEnds(c) \/ StopsStarting(c) \/ StopEnds(c)
              \/ Releases(c) \/ Joins(c) \/ PutsBack(c)
      PROVE  CallsMatch'
  <2>1. handler[c].pc # "none" /\ UNCHANGED known
    BY <1>12 DEF GateCrashes, ScenarioEnds, StopsStarting, StopEnds, Releases, Joins, PutsBack, Reaps, Enters, At
  <2>2. \A m \in Methods \ {"runtime.create", "runtime.launch"} : RepliesOf(m) = Codes \cup {"ok"}
    BY DEF Methods, RepliesOf
  <2>3. PICK code \in RepliesOf(handler[c].method) : Ends(c, code)
    <3>1. CASE GateCrashes(c)
      BY <1>c, <3>1 DEF GateCrashes, CallMatches, Methods, Reaches, RepliesOf, Codes, Catalogue
    <3>2. CASE ScenarioEnds(c)
      BY <3>2, <2>2 DEF ScenarioEnds, At, Methods, Codes, Catalogue
    <3>3. CASE StopsStarting(c) \/ StopEnds(c) \/ Releases(c)
      BY <1>c, <3>3, <2>2
      DEF StopsStarting, StopEnds, Releases, At, CallMatches, Methods, Reaches, Codes, Catalogue
    <3>4. CASE Joins(c) \/ PutsBack(c)
      BY <2>2, <3>4 DEF Joins, PutsBack, At, Methods
    <3> QED
      BY <1>12, <3>1, <3>2, <3>3, <3>4
  <2>4. CallMatches(c)' /\ OthersStay(c)
    BY <1>c, <2>1, <2>3, EndedCall DEF Ends
  <2> QED
    BY <1>d, <2>1, <2>4
<1>13. CASE Listing \/ (\E i \in Ids : Expires(i) \/ ReapEnds(i) \/ Collected(i)) \/ Nothing
  BY <1>13 DEF Listing, Expires, Reaps, ReapEnds, Collected, Nothing, Quietly, CallsMatch, CallMatches
<1> QED
  BY <1>1, <1>2, <1>3, <1>4, <1>5, <1>6, <1>7, <1>8, <1>9, <1>10, <1>11, <1>12, <1>13 DEF AnyStep

(* Every step keeps the runtimes of the launching handlers apart.          *)
LEMMA OwnersKept ==
  ASSUME CallsMatch, OwnRuntimes, IdsAreBorn, ToolsTypeOK, ToolsTypeOK', CallsMatch', AnyStep
  PROVE  OwnRuntimes'
<1>c. ASSUME NEW c \in Slots
      PROVE  /\ OwnRuntime(c) /\ CallMatches(c) /\ CallMatches(c)'
             /\ tool[c] \in ToolRecords /\ handler[c] \in HandlerRecords
             /\ handler[c].id \in Ids \cup {NoId}
  BY DEF OwnRuntimes, CallsMatch, ToolsTypeOK, HandlerRecords
<1>d. ASSUME NEW c \in Slots, OthersStay(c), unheard \subseteq unheard', OwnRuntime(c)',
             Launches(c)' /\ handler'[c].id # NoId =>
               \/ Launches(c) /\ handler'[c].id = handler[c].id
               \/ \A d \in Slots : handler[d].id # handler'[c].id
      PROVE  OwnRuntimes'
  <2>1. ASSUME NEW d \in Slots \ {c} PROVE OwnRuntime(d)' /\ (Launches(d)' <=> Launches(d))
    BY <1>c, <1>d, <2>1 DEF OwnRuntime, Launches, HasNoRuntime, OthersStay
  <2>2. ASSUME NEW e \in Slots, NEW d \in Slots \ {e}, Launches(e)', Launches(d)', handler'[e].id # NoId
        PROVE  handler'[d].id # handler'[e].id
    <3>1. CASE e # c /\ d # c
      <4>1. Launches(e) /\ Launches(d) /\ handler'[e] = handler[e] /\ handler'[d] = handler[d]
        BY <1>d, <2>1, <2>2, <3>1 DEF OthersStay
      <4> QED
        BY <2>2, <4>1 DEF OwnRuntimes
    <3>2. CASE e = c
      BY <1>d, <2>1, <2>2, <3>2 DEF OwnRuntimes, OthersStay
    <3>3. CASE d = c
      BY <1>d, <2>1, <2>2, <3>3 DEF OwnRuntimes, OthersStay
    <3> QED
      BY <3>1, <3>2, <3>3
  <2> QED
    BY <1>d, <2>1, <2>2 DEF OwnRuntimes
<1>n. ASSUME NEW c \in Slots, handler'[c] = NoHandler, OthersStay(c), unheard \subseteq unheard' PROVE OwnRuntimes'
  <2>1. OwnRuntime(c)' /\ ~ Launches(c)'
    BY <1>n, NoHandlerFields DEF OwnRuntime, Launches, None
  <2> QED
    BY <1>d, <1>n, <2>1
(* A handler that goes on or ends with its runtime.                        *)
<1>k. ASSUME NEW c \in Slots, OthersStay(c), tool' = tool, UNCHANGED unheard,
             handler'[c].method = handler[c].method, handler'[c].id = handler[c].id, OwnRuntime(c)'
      PROVE  OwnRuntimes'
  BY <1>d, <1>k DEF Launches
<1>1. ASSUME NEW c \in Slots, Begins(c) PROVE OwnRuntimes'
  <2>1. PICK name \in Registered, i \in Ids \cup {NoId} :
          /\ IF name \in OfRuntime THEN i \in known ELSE i = NoId
          /\ tool'[c].name = name /\ tool'[c].pc = "asking" /\ tool'[c].id = i
          /\ handler'[c].method = FirstMethod(name) /\ handler'[c].pc = "sent" /\ handler'[c].id = i
    BY <1>1 DEF Begins
  <2>2. Launches(c)' => handler'[c].id = NoId /\ handler'[c].method # "runtime.launch"
    BY <2>1 DEF Launches, FirstMethod, Registered, OfDeveloper, PoolTools, OfRuntime, Names
  <2>3. OwnRuntime(c)'
    BY <2>1, <2>2 DEF OwnRuntime
  <2> QED
    BY <1>1, <1>d, <2>2, <2>3 DEF Begins, Quietly
<1>2. ASSUME NEW c \in Slots, RefusesAtOnce(c) \/ LaunchAnswered(c) \/ Answered(c) PROVE OwnRuntimes'
  BY <1>2, <1>n DEF RefusesAtOnce, LaunchAnswered, Answered, Quietly
<1>3. ASSUME NEW c \in Slots, AsksAgain(c, "plugin_launch", "runtime.create", "runtime.launch")
      PROVE  OwnRuntimes'
  <2>1. Launches(c) /\ handler[c].id # NoId /\ handler'[c].id = handler[c].id
    BY <1>3, <1>c DEF AsksAgain, Replied, OwnRuntime, Launches
  <2>2. OwnRuntime(c)'
    BY <1>3, <2>1 DEF AsksAgain, OwnRuntime, HasNoRuntime
  <2> QED
    BY <1>3, <1>d, <2>1, <2>2 DEF AsksAgain, Quietly
<1>4. ASSUME NEW c \in Slots, AsksAgain(c, "operation_cancel", "runtime.stop", "runtime.release")
      PROVE  OwnRuntimes'
  <2>1. ~ Launches(c)' /\ OwnRuntime(c)'
    BY <1>4 DEF AsksAgain, OwnRuntime, Launches
  <2> QED
    BY <1>4, <1>d, <2>1 DEF AsksAgain, Quietly
<1>5. ASSUME NEW c \in Slots, GivenUp(c) PROVE OwnRuntimes'
  <2>1. CASE handler'[c] = NoHandler
    BY <1>5, <1>n, <2>1 DEF GivenUp
  <2>2. CASE handler'[c] = handler[c] /\ handler[c].pc # "replied"
    <3>1. OwnRuntime(c)'
      BY <1>5, <1>c, <2>2 DEF GivenUp, OwnRuntime, Launches, HasNoRuntime
    <3> QED
      BY <1>5, <1>d, <2>2, <3>1 DEF GivenUp, Launches
  <2> QED
    BY <1>5, <2>1, <2>2 DEF GivenUp
<1>6. ASSUME NEW c \in Slots, Returned(c) PROVE OwnRuntimes'
  BY <1>6, <1>n DEF Returned, Quietly
<1>7. ASSUME NEW c \in Slots, NEW code, Ends(c, code), UNCHANGED unheard,
             handler[c].method = "runtime.create" => code # "ok" /\ handler[c].id = NoId
      PROVE  OwnRuntimes'
  <2>1. CASE tool[c].pc = "asking"
    <3>1. OwnRuntime(c)'
      BY <1>7, <1>c, <2>1 DEF Ends, OwnRuntime, Launches, HasNoRuntime
    <3> QED
      BY <1>7, <1>k, <2>1, <3>1 DEF Ends
  <2>2. CASE tool[c].pc # "asking"
    BY <1>7, <1>n, <2>2 DEF Ends
  <2> QED
    BY <2>1, <2>2
<1>8. ASSUME NEW c \in Slots, NEW pc \in {"creating", "detecting", "gating", "running", "stopping"},
             Goes(c, pc), UNCHANGED unheard,
             Launches(c) => IF pc = "creating" THEN handler[c].id = NoId /\ handler[c].method # "runtime.launch"
                            ELSE handler[c].id # NoId
      PROVE  OwnRuntimes'
  <2>1. OwnRuntime(c)'
    BY <1>8, <1>c DEF Goes, OwnRuntime, Launches, HasNoRuntime
  <2> QED
    BY <1>8, <1>k, <2>1 DEF Goes
<1>9. ASSUME NEW c \in Slots, EndsQuietly(c) PROVE OwnRuntimes'
  <2>1. PICK code : Ends(c, code) /\ (handler[c].method = "runtime.create" => code # "ok")
    BY <1>9 DEF EndsQuietly, At, Launching, Creates, Codes, Catalogue
  <2>2. handler[c].method = "runtime.create" => handler[c].id = NoId
    BY <1>9, <1>c DEF EndsQuietly, At, Launching, OwnRuntime, Launches, HasNoRuntime, CallMatches, Reaches
  <2> QED
    BY <1>7, <1>9, <2>1, <2>2 DEF EndsQuietly, Quietly
<1>10. ASSUME NEW c \in Slots, GoesQuietly(c) PROVE OwnRuntimes'
  <2>1. CASE Creates(c) /\ handler[c].pc = "sent" /\ Goes(c, "creating")
    BY <1>8, <1>10, <1>c, <2>1 DEF GoesQuietly, Creates, Quietly, OwnRuntime, HasNoRuntime
  <2>2. CASE Launching(c) /\ Goes(c, "detecting")
    BY <1>8, <1>10, <1>c, <2>2 DEF GoesQuietly, At, Launching, Quietly, OwnRuntime, Launches
  <2> QED
    BY <1>10, <2>1, <2>2 DEF GoesQuietly
<1>11. ASSUME NEW c \in Slots, Registers(c) PROVE OwnRuntimes'
  <2>1. CASE handler'[c] = NoHandler
    BY <1>11, <1>n, <2>1 DEF Registers
  <2>2. CASE handler[c].method = "pool.acquire" /\ Ends(c, "RUNTIME_NOT_FOUND")
    <3>1. CASE tool[c].pc = "asking"
      <4>1. OwnRuntime(c)' /\ ~ Launches(c)'
        BY <2>2, <3>1 DEF Ends, OwnRuntime, Launches
      <4> QED
        BY <1>11, <1>d, <4>1 DEF Registers
    <3>2. CASE tool[c].pc # "asking"
      BY <1>11, <1>n, <2>2, <3>2 DEF Ends, Registers
    <3> QED
      BY <3>1, <3>2
  <2>3. CASE handler'[c] # NoHandler /\ handler[c].method # "pool.acquire"
    <3>1. PICK i \in Ids :
            /\ state[i] = "UNBORN" /\ handler'[c].id = i
            /\ \/ handler'[c].method = "scenario.run" /\ handler'[c].pc = "created"
               \/ handler'[c].method = "runtime.create" /\ handler'[c].pc = "replied" /\ handler'[c].code = "ok"
      BY <1>11, <2>3 DEF Registers
    <3>2. \A d \in Slots : handler[d].id # i
      BY <3>1 DEF IdsAreBorn
    <3>3. OwnRuntime(c)'
      BY <3>1, NoIdIsNone DEF OwnRuntime, HasNoRuntime
    <3> QED
      BY <1>11, <1>d, <3>1, <3>2, <3>3 DEF Registers
  <2> QED
    BY <1>11, <2>1, <2>2, <2>3 DEF Registers
<1>12. ASSUME NEW c \in Slots, Spawns(c) \/ StopBegins(c) PROVE OwnRuntimes'
  <2>1. PICK pc \in {"gating", "stopping"} : Goes(c, pc) /\ UNCHANGED unheard
    BY <1>12 DEF Spawns, StopBegins, Enters
  <2>2. Launches(c) => handler[c].id # NoId
    BY <1>12, <1>c DEF Spawns, StopBegins, At, Launches, OwnRuntime
  <2> QED
    BY <1>8, <2>1, <2>2
<1>13. ASSUME NEW c \in Slots, GateOpens(c) PROVE OwnRuntimes'
  <2>1. handler[c].method # "runtime.create" /\ (Launches(c) => handler[c].id # NoId)
    BY <1>13, <1>c DEF GateOpens, CallMatches, Reaches, OwnRuntime, Launches, Methods
  <2>2. Goes(c, "running") \/ \E code : Ends(c, code)
    BY <1>13 DEF GateOpens
  <2> QED
    BY <1>7, <1>8, <1>13, <2>1, <2>2 DEF GateOpens, Enters
<1>14. ASSUME NEW c \in Slots,
              \/ GateCrashes(c) \/ ScenarioEnds(c) \/ StopsStarting(c) \/ StopEnds(c)
              \/ Releases(c) \/ Joins(c) \/ PutsBack(c)
      PROVE  OwnRuntimes'
  <2>1. handler[c].method # "runtime.create"
    BY <1>14, <1>c
    DEF GateCrashes, ScenarioEnds, StopsStarting, StopEnds, Releases, Joins, PutsBack, At, CallMatches, Reaches
  <2>2. \E code : Ends(c, code)
    BY <1>14 DEF GateCrashes, ScenarioEnds, StopsStarting, StopEnds, Releases, Joins, PutsBack
  <2>3. UNCHANGED unheard
    BY <1>14 DEF GateCrashes, ScenarioEnds, StopsStarting, StopEnds, Releases, Joins, PutsBack, Reaps, Enters
  <2> QED
    BY <1>7, <2>1, <2>2, <2>3
<1>15. CASE Listing \/ (\E i \in Ids : Expires(i) \/ ReapEnds(i) \/ Collected(i)) \/ Nothing
  BY <1>15
  DEF Listing, Expires, Reaps, ReapEnds, Collected, Nothing, Quietly, OwnRuntimes, OwnRuntime, Launches, HasNoRuntime
<1> QED
  BY <1>1, <1>2, <1>3, <1>4, <1>5, <1>6, <1>9, <1>10, <1>11, <1>12, <1>13, <1>14, <1>15 DEF AnyStep

(* No step tells or holds the id of a runtime that is not registered.      *)
LEMMA BornKept ==
  ASSUME CallsMatch, OwnRuntimes, IdsAreBorn, ToolsTypeOK, ToolsTypeOK', AnyStep
  PROVE  IdsAreBorn'
<1>c. ASSUME NEW c \in Slots
      PROVE  /\ OwnRuntime(c) /\ CallMatches(c)
             /\ tool[c] \in ToolRecords /\ handler[c] \in HandlerRecords
             /\ handler[c].id \in Ids \cup {NoId} /\ tool[c].id \in Ids \cup {NoId}
  BY DEF OwnRuntimes, CallsMatch, ToolsTypeOK, HandlerRecords, ToolRecords
<1>d. ASSUME NEW c \in Slots, OthersStay(c),
             \A i \in Ids : state'[i] = "UNBORN" =>
               /\ state[i] = "UNBORN" /\ i \notin known' \cup unheard'
               /\ handler'[c].id # i /\ tool'[c].id # i
      PROVE  IdsAreBorn'
  BY <1>d DEF IdsAreBorn, OthersStay
<1>e. ASSUME NEW c \in Slots, OthersStay(c), UNCHANGED state,
             known' \cup unheard' \subseteq known \cup unheard \cup {handler[c].id, NoId},
             handler'[c].id \in {handler[c].id, tool[c].id, NoId} \cup known,
             tool'[c].id \in {handler[c].id, tool[c].id, NoId} \cup known
      PROVE  IdsAreBorn'
  <2>1. ASSUME NEW i \in Ids, state[i] = "UNBORN"
        PROVE  i \notin known' \cup unheard' /\ handler'[c].id # i /\ tool'[c].id # i
    BY <1>e, <2>1, NoIdIsNone DEF IdsAreBorn
  <2> QED
    BY <1>d, <1>e, <2>1
<1>1. ASSUME NEW c \in Slots, Begins(c) PROVE IdsAreBorn'
  <2>1. handler'[c].id \in known \cup {NoId} /\ tool'[c].id \in known \cup {NoId}
    BY <1>1 DEF Begins
  <2> QED
    BY <1>1, <1>e, <2>1 DEF Begins, Quietly
<1>2. ASSUME NEW c \in Slots, RefusesAtOnce(c) \/ Answered(c) \/ Returned(c) PROVE IdsAreBorn'
  BY <1>2, <1>e, NoHandlerFields, NoToolFields DEF RefusesAtOnce, Answered, Returned, Quietly
<1>3. ASSUME NEW c \in Slots, LaunchAnswered(c) PROVE IdsAreBorn'
  BY <1>3, <1>e, NoHandlerFields DEF LaunchAnswered
<1>4. ASSUME NEW c \in Slots,
             \/ AsksAgain(c, "plugin_launch", "runtime.create", "runtime.launch")
             \/ AsksAgain(c, "operation_cancel", "runtime.stop", "runtime.release")
      PROVE  IdsAreBorn'
  BY <1>4, <1>e DEF AsksAgain, Quietly
<1>5. ASSUME NEW c \in Slots, GivenUp(c) PROVE IdsAreBorn'
  BY <1>5, <1>e, NoHandlerFields DEF GivenUp
<1>6. ASSUME NEW c \in Slots, OthersStay(c), tool' = tool, UNCHANGED <<known, unheard>>,
             handler'[c].id \in {handler[c].id, NoId},
             \A i \in Ids : state'[i] = "UNBORN" => state[i] = "UNBORN"
      PROVE  IdsAreBorn'
  BY <1>d, <1>6, NoIdIsNone DEF IdsAreBorn
<1>7. ASSUME NEW c \in Slots,
             \/ EndsQuietly(c) \/ GoesQuietly(c) \/ Spawns(c) \/ GateOpens(c) \/ GateCrashes(c)
             \/ ScenarioEnds(c) \/ StopBegins(c) \/ StopsStarting(c) \/ StopEnds(c) \/ Releases(c)
             \/ Joins(c) \/ PutsBack(c)
      PROVE  IdsAreBorn'
  <2>1. (\E code : Ends(c, code)) \/ (\E pc : Goes(c, pc))
    BY <1>7
    DEF EndsQuietly, GoesQuietly, Spawns, GateOpens, GateCrashes, ScenarioEnds, StopBegins,
        StopsStarting, StopEnds, Releases, Joins, PutsBack, Reaps
  <2>2. OthersStay(c) /\ tool' = tool /\ handler'[c].id \in {handler[c].id, NoId}
    BY <2>1, NoHandlerFields DEF Ends, Goes
  <2>3. \/ UNCHANGED <<state, known, unheard>>
        \/ \E s \in {"STARTING", "READY", "CRASHED", "RELEASED", "STOPPING", "STOPPED"} : Enters(c, s)
    BY <1>7
    DEF EndsQuietly, GoesQuietly, Spawns, GateOpens, GateCrashes, ScenarioEnds, StopBegins,
        StopsStarting, StopEnds, Releases, Joins, PutsBack, Reaps, Quietly, Enters
  <2>4. UNCHANGED <<known, unheard>> /\ \A i \in Ids : state'[i] = "UNBORN" => state[i] = "UNBORN"
    BY <2>3 DEF Enters, SetState, ToolsTypeOK
  <2> QED
    BY <1>6, <2>2, <2>4
<1>8. ASSUME NEW c \in Slots, Registers(c) PROVE IdsAreBorn'
  <2>1. PICK i \in Ids :
          /\ state[i] = "UNBORN" /\ SetState(i, "CREATED")
          /\ unheard' \subseteq unheard \cup {i}
          /\ handler'[c].id \in {i, NoId, handler[c].id}
    BY <1>8, NoHandlerFields DEF Registers, Ends
  <2>2. state'[i] = "CREATED" /\ \A j \in Ids \ {i} : state'[j] = state[j]
    BY <2>1 DEF SetState, ToolsTypeOK
  <2> QED
    BY <1>8, <1>d, <2>1, <2>2, NoIdIsNone DEF Registers, IdsAreBorn
<1>9. ASSUME NEW i \in Ids, Expires(i) \/ ReapEnds(i) \/ Collected(i) PROVE IdsAreBorn'
  BY <1>9 DEF Expires, Reaps, ReapEnds, Collected, SetState, IdsAreBorn, ToolsTypeOK
<1>10. CASE Listing \/ Nothing
  BY <1>10 DEF Listing, Nothing, Quietly, Found, IdsAreBorn
<1> QED
  BY <1>1, <1>2, <1>3, <1>4, <1>5, <1>7, <1>8, <1>9, <1>10 DEF AnyStep

(* What agents know is never forgotten, and what the pool has, and what is *)
(* launched again, some agent knows.                                       *)
LEMMA KnownKept ==
  ASSUME CallsMatch, OwnRuntimes, Untouched, PoolsMatch, ToolsTypeOK, AnyStep
  PROVE  /\ known \subseteq known' /\ unheard \subseteq unheard' /\ twice \subseteq twice'
         /\ (pooled \cup reaping \cup twice)' \subseteq known'
<1>c. ASSUME NEW c \in Slots
      PROVE  /\ CallMatches(c)
             /\ handler[c].id # NoId /\ Unlaunched(c) =>
                  state[handler[c].id] = "CREATED" \/ handler[c].id \in known
  BY DEF CallsMatch, Untouched
<1>p. pooled \cup reaping \cup twice \subseteq known
  BY DEF PoolsMatch
<1>q. ASSUME PoolStays, known \subseteq known', unheard \subseteq unheard'
      PROVE  /\ known \subseteq known' /\ unheard \subseteq unheard' /\ twice \subseteq twice'
             /\ (pooled \cup reaping \cup twice)' \subseteq known'
  BY <1>p, <1>q DEF PoolStays
<1>1. ASSUME NEW c \in Slots,
             \/ Begins(c) \/ RefusesAtOnce(c) \/ LaunchAnswered(c) \/ Answered(c) \/ GivenUp(c) \/ Returned(c)
             \/ AsksAgain(c, "plugin_launch", "runtime.create", "runtime.launch")
             \/ AsksAgain(c, "operation_cancel", "runtime.stop", "runtime.release")
             \/ EndsQuietly(c) \/ GoesQuietly(c) \/ Registers(c) \/ GateCrashes(c) \/ StopBegins(c)
             \/ StopsStarting(c) \/ Releases(c)
      PROVE  PoolStays /\ known \subseteq known' /\ unheard \subseteq unheard'
  BY <1>1
  DEF Begins, RefusesAtOnce, LaunchAnswered, Answered, GivenUp, Returned, AsksAgain, EndsQuietly,
      GoesQuietly, Registers, GateCrashes, StopBegins, StopsStarting, Releases, Enters, Quietly
<1>2. CASE Listing \/ Nothing \/ \E i \in Ids : Collected(i)
  BY <1>2, <1>q DEF Listing, Nothing, Quietly, Collected
<1>3. ASSUME NEW c \in Slots, Spawns(c)
      PROVE  UNCHANGED <<known, unheard, pooled, reaping>> /\ twice \subseteq twice' /\ twice' \subseteq known'
  <2>1. state[handler[c].id] # "CREATED" => handler[c].id \in known
    <3>1. handler[c].id # NoId
      BY <1>3, HasId, NoIdIsNone DEF Spawns
    <3> QED
      BY <1>3, <1>c, <3>1 DEF Spawns, Unlaunched
  <2> QED
    BY <1>3, <1>p, <2>1 DEF Spawns, Enters
<1>4. ASSUME NEW c \in Slots, GateOpens(c) \/ Joins(c)
      PROVE  UNCHANGED <<known, unheard, reaping, twice>> /\ pooled' \subseteq known'
  BY <1>4, <1>c, <1>p DEF GateOpens, Joins, Enters, At, CallMatches
<1>5. ASSUME NEW c \in Slots, ScenarioEnds(c) \/ StopEnds(c)
      PROVE  UNCHANGED <<known, unheard, pooled, reaping, twice>>
  BY <1>5 DEF ScenarioEnds, StopEnds, Enters
<1>6. ASSUME NEW i, Reaps(i) \/ ReapEnds(i)
      PROVE  UNCHANGED <<known, unheard, twice>> /\ (pooled \cup reaping)' \subseteq known'
  BY <1>6, <1>p DEF Reaps, ReapEnds
<1> QED
  BY <1>p, <1>q, <1>1, <1>2, <1>3, <1>4, <1>5, <1>6 DEF AnyStep, PutsBack, Expires

(* What a step may do to a runtime that was not launched twice.            *)
Moves(j) ==
  /\ \/ state'[j] = state[j]
     \/ state[j] = "UNBORN" /\ state'[j] = "CREATED"
     \/ /\ state[j] = "CREATED" /\ state'[j] = "STARTING"
        /\ \E c \in Slots : handler[c].pc = "detecting" /\ handler'[c].pc = "gating" /\ handler[c].id = j
     \/ /\ state[j] \in {"STARTING", "STOPPED"} /\ state'[j] \in {"READY", "CRASHED"}
        /\ Gating(j) /\ ~ Gating(j)'
     \/ state[j] = "READY" /\ state'[j] = "STOPPING"
     \/ state[j] = "STARTING" /\ state'[j] = "STOPPED"
     \/ state[j] \in {"STOPPING", "RELEASED"} /\ state'[j] = "STOPPED" /\ Stopping(j) /\ ~ Stopping(j)'
     \/ state[j] \in {"READY", "STOPPING", "STOPPED"} /\ state'[j] = "RELEASED" /\ ~ Gating(j)
     \/ /\ state[j] = "RELEASED" /\ state'[j] = "DELETED"
        /\ j \notin reaping /\ \A c \in Slots : handler[c].id # j
  /\ Gating(j)' => Gating(j) \/ state[j] = "CREATED"
  /\ Stopping(j)' => Stopping(j) \/ state[j] = "READY"
  /\ j \in reaping' => j \in reaping \/ (state[j] = "READY" /\ state'[j] = "STOPPING")
  /\ j \in pooled' => j \in pooled \/ Up(j)'
  /\ j \in running' <=> state'[j] \in {"READY", "STOPPING"}

(* No step does anything else.                                             *)
LEMMA Moved ==
  ASSUME CallsMatch, OwnRuntimes, StatesMatch, PoolsMatch, OneAtATime, IdsAreBorn, ToolsTypeOK, ToolsTypeOK',
         AnyStep, NEW j \in Ids, j \notin twice, j \notin twice'
  PROVE  Moves(j)
<1>c. ASSUME NEW c \in Slots
      PROVE  /\ CallMatches(c) /\ StateMatches(c)
             /\ handler[c] \in HandlerRecords /\ handler[c].id \in Ids \cup {NoId}
  BY DEF CallsMatch, StatesMatch, ToolsTypeOK, HandlerRecords
<1>p. PoolMatches(j) /\ (j \in running <=> state[j] \in {"READY", "STOPPING"})
  BY DEF PoolsMatch, PoolMatches
<1>t. state \in [Ids -> States]
  BY DEF ToolsTypeOK
<1>f. Gating(j) => state[j] \in {"STARTING", "STOPPED"}
  BY <1>c DEF Gating, StateMatches
<1>s. ASSUME NEW i \in Ids, NEW s, SetState(i, s)
      PROVE  state'[i] = s /\ (i # j => state'[j] = state[j])
  BY <1>s, <1>t DEF SetState
(* Nobody begins to gate or to stop it.                                    *)
<1>g. ASSUME NEW c \in Slots, OthersStay(c), j \in reaping' => j \in reaping,
             handler'[c].id = j /\ handler'[c].pc \in {"gating", "stopping"} => handler'[c] = handler[c]
      PROVE  (Gating(j)' => Gating(j)) /\ (Stopping(j)' => Stopping(j))
  BY <1>g DEF Gating, Stopping, OthersStay
<1>q. ASSUME (Gating(j)' => Gating(j)) /\ (Stopping(j)' => Stopping(j)), state'[j] = state[j],
             j \in reaping' => j \in reaping, j \in pooled' => j \in pooled, j \in running' <=> j \in running
      PROVE  Moves(j)
  BY <1>p, <1>q DEF Moves
<1>h. ASSUME UNCHANGED handler, j \in reaping' => j \in reaping
      PROVE  (Gating(j)' => Gating(j)) /\ (Stopping(j)' => Stopping(j))
  BY <1>h DEF Gating, Stopping
<1>e. ASSUME NEW c \in Slots, (\E code : Ends(c, code)) \/ (\E pc : Goes(c, pc))
      PROVE  OthersStay(c) /\ (handler'[c].id = handler[c].id \/ handler'[c].pc = "none")
  BY <1>e, NoHandlerFields DEF Ends, Goes
(* The calls, and the handlers that change no state.                       *)
<1>1. ASSUME NEW c \in Slots,
             \/ Begins(c) \/ RefusesAtOnce(c) \/ LaunchAnswered(c) \/ Answered(c) \/ GivenUp(c) \/ Returned(c)
             \/ AsksAgain(c, "plugin_launch", "runtime.create", "runtime.launch")
             \/ AsksAgain(c, "operation_cancel", "runtime.stop", "runtime.release")
      PROVE  Moves(j)
  <2>1. OthersStay(c) /\ UNCHANGED state /\ PoolStays
    BY <1>1 DEF Begins, RefusesAtOnce, LaunchAnswered, Answered, GivenUp, Returned, AsksAgain, Quietly
  <2>2. handler'[c].pc \in {"gating", "stopping"} => handler'[c] = handler[c]
    BY <1>1, NoHandlerFields
    DEF Begins, RefusesAtOnce, LaunchAnswered, Answered, GivenUp, Returned, AsksAgain
  <2> QED
    BY <1>g, <1>q, <2>1, <2>2 DEF PoolStays
<1>2. CASE Listing \/ Nothing
  BY <1>2, <1>h, <1>q DEF Listing, Nothing, Quietly, PoolStays
<1>3. ASSUME NEW c \in Slots, EndsQuietly(c) \/ GoesQuietly(c) PROVE Moves(j)
  <2>1. \/ \E code : Ends(c, code)
        \/ Goes(c, "creating") \/ Goes(c, "detecting")
    BY <1>3 DEF EndsQuietly, GoesQuietly
  <2>2. OthersStay(c) /\ handler'[c].pc \notin {"gating", "stopping"}
    BY <2>1, NoHandlerFields DEF Ends, Goes
  <2>3. UNCHANGED state /\ PoolStays
    BY <1>3 DEF EndsQuietly, GoesQuietly, Quietly
  <2> QED
    BY <1>g, <1>q, <2>2, <2>3 DEF PoolStays
<1>4. ASSUME NEW c \in Slots, Registers(c) PROVE Moves(j)
  <2>1. OthersStay(c) /\ handler'[c].pc \notin {"gating", "stopping"} /\ PoolStays
    BY <1>4, NoHandlerFields DEF Registers, Ends
  <2>2. (Gating(j)' => Gating(j)) /\ (Stopping(j)' => Stopping(j))
    BY <1>g, <2>1 DEF PoolStays
  <2>3. state'[j] = state[j] \/ (state[j] = "UNBORN" /\ state'[j] = "CREATED")
    BY <1>4, <1>s DEF Registers
  <2> QED
    BY <1>p, <1>q, <2>1, <2>2, <2>3 DEF Moves, PoolStays
(* A handler that moves another runtime,                                   *)
<1>5. ASSUME NEW c \in Slots, handler[c].id # j, handler[c].id \in Ids,
             \/ Spawns(c) \/ GateOpens(c) \/ GateCrashes(c) \/ ScenarioEnds(c) \/ StopBegins(c)
             \/ StopsStarting(c) \/ StopEnds(c) \/ Releases(c) \/ Joins(c) \/ PutsBack(c)
      PROVE  Moves(j)
  <2>1. (\E code : Ends(c, code)) \/ (\E pc : Goes(c, pc))
    BY <1>5
    DEF Spawns, GateOpens, GateCrashes, ScenarioEnds, StopBegins, StopsStarting, StopEnds, Releases, Joins, PutsBack
  <2>2. UNCHANGED state \/ \E s : SetState(handler[c].id, s)
    BY <1>5
    DEF Spawns, GateOpens, GateCrashes, ScenarioEnds, StopBegins, StopsStarting, StopEnds, Releases, Joins,
        PutsBack, Reaps, Enters
  <2>3. /\ j \in reaping' => j \in reaping
        /\ j \in pooled' => j \in pooled
        /\ j \in running' <=> j \in running
    BY <1>5
    DEF Spawns, GateOpens, GateCrashes, ScenarioEnds, StopBegins, StopsStarting, StopEnds, Releases, Joins,
        PutsBack, Reaps, PoolStays
  <2>4. state'[j] = state[j]
    BY <1>5, <1>s, <2>2
  <2> QED
    BY <1>5, <1>e, <1>g, <1>q, <2>1, <2>3, <2>4
(* and one that moves this one.                                            *)
<1>6. ASSUME NEW c \in Slots, handler[c].id = j, Spawns(c) PROVE Moves(j)
  <2>1. state[j] = "CREATED" /\ state'[j] = "STARTING"
    BY <1>6, <1>s DEF Spawns, Enters
  <2>2. handler'[c].pc = "gating" /\ handler[c].pc = "detecting" /\ OthersStay(c)
    BY <1>6 DEF Spawns, Goes
  <2>3. Stopping(j)' => Stopping(j)
    BY <1>6, <2>2 DEF Spawns, Stopping, OthersStay
  <2> QED
    BY <1>6, <1>p, <2>1, <2>2, <2>3 DEF Spawns, Moves
<1>7. ASSUME NEW c \in Slots, handler[c].id = j, GateOpens(c) \/ GateCrashes(c) PROVE Moves(j)
  <2>1. handler'[c].pc \notin {"gating", "stopping"} /\ OthersStay(c)
    BY <1>7, NoHandlerFields DEF GateOpens, GateCrashes, Goes, Ends
  <2>2. Gating(j) /\ ~ Gating(j)'
    BY <1>7, <2>1 DEF GateOpens, GateCrashes, Gating, OneAtATime, OthersStay
  <2>3. state[j] \in {"STARTING", "STOPPED"} /\ reaping' = reaping
    BY <1>7, <1>f, <2>2 DEF GateOpens, GateCrashes, PoolStays
  <2>4. Stopping(j)' => Stopping(j)
    BY <1>g, <2>1, <2>3
  <2>5. CASE GateOpens(c)
    <3>1. state'[j] = "READY" /\ j \in running'
      BY <1>7, <1>s, <2>5 DEF GateOpens, Enters
    <3>2. Up(j)'
      BY <2>2, <3>1 DEF Up, Ran
    <3> QED
      BY <2>2, <2>3, <2>4, <3>1, <3>2 DEF Moves
  <2>6. CASE GateCrashes(c)
    <3>1. state'[j] = "CRASHED" /\ PoolStays
      BY <1>7, <1>s, <2>6 DEF GateCrashes, Enters
    <3> QED
      BY <1>p, <2>2, <2>3, <2>4, <3>1 DEF Moves, PoolStays
  <2> QED
    BY <1>7, <2>5, <2>6
<1>8. ASSUME NEW c \in Slots, handler[c].id = j, ScenarioEnds(c) PROVE Moves(j)
  <2>1. handler'[c].pc \notin {"gating", "stopping"} /\ OthersStay(c) /\ UNCHANGED <<pooled, reaping>>
    BY <1>8, NoHandlerFields DEF ScenarioEnds, Ends
  <2>2. (Gating(j)' => Gating(j)) /\ (Stopping(j)' => Stopping(j))
    BY <1>g, <2>1
  <2>3. state[j] \in {"READY", "STOPPING", "STOPPED", "RELEASED"} /\ ~ Gating(j)
    BY <1>8, <1>c DEF ScenarioEnds, At, StateMatches, Up, Ran
  <2>4. state'[j] = "RELEASED" /\ j \notin running'
    BY <1>8, <1>s, <2>3 DEF ScenarioEnds, Enters, ActiveStates
  <2> QED
    BY <2>1, <2>2, <2>3, <2>4 DEF Moves
<1>9. ASSUME NEW c \in Slots, handler[c].id = j, StopBegins(c) PROVE Moves(j)
  <2>1. state[j] = "READY" /\ state'[j] = "STOPPING" /\ PoolStays
    BY <1>9, <1>p, <1>s DEF StopBegins, Enters
  <2>2. Gating(j)' => Gating(j)
    BY <1>9 DEF StopBegins, Goes, Gating, OthersStay
  <2> QED
    BY <1>p, <2>1, <2>2 DEF Moves, PoolStays
<1>10. ASSUME NEW c \in Slots, handler[c].id = j, StopsStarting(c) PROVE Moves(j)
  <2>1. state[j] = "STARTING" /\ state'[j] = "STOPPED" /\ PoolStays
    BY <1>10, <1>p, <1>s DEF StopsStarting, Enters
  <2>2. handler'[c].pc \notin {"gating", "stopping"} /\ OthersStay(c)
    BY <1>10, NoHandlerFields DEF StopsStarting, Ends
  <2> QED
    BY <1>g, <1>p, <2>1, <2>2 DEF Moves, PoolStays
<1>11. ASSUME NEW c \in Slots, handler[c].id = j, StopEnds(c) PROVE Moves(j)
  <2>1. /\ state[j] \in {"STOPPING", "RELEASED"} /\ state'[j] = "STOPPED" /\ j \notin reaping
        /\ UNCHANGED <<pooled, reaping>> /\ j \notin running'
    BY <1>11, <1>c, <1>s DEF StopEnds, Enters, StateMatches
  <2>2. handler'[c].pc \notin {"gating", "stopping"} /\ OthersStay(c)
    BY <1>11, NoHandlerFields DEF StopEnds, Ends
  <2>3. Stopping(j) /\ ~ Stopping(j)'
    BY <1>11, <2>1, <2>2 DEF StopEnds, Stopping, OneAtATime, OthersStay
  <2>4. Gating(j)' => Gating(j)
    BY <1>g, <2>1, <2>2
  <2> QED
    BY <2>1, <2>3, <2>4 DEF Moves
<1>12. ASSUME NEW c \in Slots, handler[c].id = j, Releases(c) PROVE Moves(j)
  <2>1. state[j] = "STOPPED" /\ ~ Gating(j)
    BY <1>12, <1>c DEF Releases, At, StateMatches, Over
  <2>2. state'[j] = "RELEASED" /\ PoolStays
    BY <1>12, <1>s DEF Releases, Enters
  <2>3. handler'[c].pc \notin {"gating", "stopping"} /\ OthersStay(c)
    BY <1>12, NoHandlerFields DEF Releases, Ends
  <2> QED
    BY <1>g, <1>p, <2>1, <2>2, <2>3 DEF Moves, PoolStays
<1>13. ASSUME NEW c \in Slots, handler[c].id = j, Joins(c) PROVE Moves(j)
  <2>1. state'[j] = state[j] /\ state[j] \in {"READY", "STOPPING"} /\ UNCHANGED <<running, reaping>>
    BY <1>13, <1>p DEF Joins
  <2>2. handler'[c].pc \notin {"gating", "stopping"} /\ OthersStay(c)
    BY <1>13, NoHandlerFields DEF Joins, Ends
  <2>3. (Gating(j)' => Gating(j)) /\ (Stopping(j)' => Stopping(j))
    BY <1>g, <2>1, <2>2
  <2>4. Up(j)'
    BY <1>f, <2>1, <2>3 DEF Up, Ran
  <2> QED
    BY <1>p, <2>1, <2>3, <2>4 DEF Moves
(* The pool and the collector.                                             *)
<1>14. ASSUME Reaps(j), Gating(j)' => Gating(j),
              \A c \in Slots : handler'[c].pc = "stopping" /\ handler'[c].id = j => handler'[c] = handler[c]
       PROVE  Moves(j)
  <2>1. state[j] \in {"READY", "STOPPING", "STOPPED", "RELEASED", "DELETED"} /\ ~ Gating(j)
    BY <1>14, <1>p DEF Reaps, PoolMatches, Up, Ran
  <2>2. running' = running /\ (j \in pooled' => j \in pooled)
    BY <1>14 DEF Reaps
  <2>3. CASE state[j] = "READY" /\ SetState(j, "STOPPING") /\ reaping' = reaping \cup {j}
    BY <1>14, <1>p, <1>s, <2>2, <2>3 DEF Moves
  <2>4. CASE state[j] = "STOPPED" /\ SetState(j, "RELEASED") /\ UNCHANGED reaping
    <3>1. Stopping(j)' => Stopping(j)
      BY <1>14, <2>4 DEF Stopping
    <3> QED
      BY <1>14, <1>p, <1>s, <2>1, <2>2, <2>4, <3>1 DEF Moves
  <2>5. CASE UNCHANGED <<state, reaping>>
    <3>1. Stopping(j)' => Stopping(j)
      BY <1>14, <2>5 DEF Stopping
    <3> QED
      BY <1>14, <1>q, <2>2, <2>5, <3>1
  <2> QED
    BY <1>14, <1>p, <2>1, <2>3, <2>4, <2>5 DEF Reaps
<1>15. ASSUME NEW c \in Slots, handler[c].id = j, PutsBack(c) PROVE Moves(j)
  <2>1. handler'[c].pc \notin {"gating", "stopping"} /\ OthersStay(c) /\ Reaps(j)
    BY <1>15, NoHandlerFields DEF PutsBack, Ends
  <2>2. Gating(j)' => Gating(j)
    BY <2>1 DEF Gating, OthersStay
  <2> QED
    BY <1>14, <2>1, <2>2 DEF OthersStay
<1>16. ASSUME NEW i \in Ids, Expires(i) PROVE Moves(j)
  <2>1. CASE i = j
    BY <1>14, <1>16, <2>1 DEF Expires, Gating
  <2>2. CASE i # j
    <3>1. /\ state'[j] = state[j]
          /\ j \in reaping' => j \in reaping
          /\ j \in pooled' => j \in pooled
          /\ running' = running
      BY <1>16, <1>s, <2>2 DEF Expires, Reaps
    <3> QED
      BY <1>16, <1>h, <1>q, <3>1 DEF Expires
  <2> QED
    BY <2>1, <2>2
<1>17. ASSUME NEW i \in Ids, ReapEnds(i) PROVE Moves(j)
  <2>1. /\ i = j => state'[j] = "STOPPED" /\ j \notin running' /\ j \in reaping /\ j \notin reaping'
        /\ i # j => state'[j] = state[j] /\ (j \in running' <=> j \in running)
        /\ j \in reaping' => j \in reaping
        /\ UNCHANGED <<handler, pooled>>
    BY <1>17, <1>s DEF ReapEnds
  <2>2. CASE i = j
    <3>1. state[j] \in {"STOPPING", "RELEASED"}
      BY <1>p, <2>1, <2>2 DEF PoolMatches
    <3>2. Stopping(j) /\ ~ Stopping(j)'
      BY <1>c, <2>1, <2>2 DEF Stopping, StateMatches
    <3> QED
      BY <1>h, <2>1, <2>2, <3>1, <3>2 DEF Moves
  <2>3. CASE i # j
    BY <1>h, <1>q, <2>1, <2>3
  <2> QED
    BY <2>2, <2>3
<1>18. ASSUME NEW i \in Ids, Collected(i) PROVE Moves(j)
  <2>1. /\ i = j => state'[j] = "DELETED" /\ state[j] = "RELEASED" /\ j \notin reaping
                    /\ \A c \in Slots : handler[c].id # j
        /\ i # j => state'[j] = state[j]
        /\ UNCHANGED handler /\ PoolStays
    BY <1>18, <1>s DEF Collected
  <2> QED
    BY <1>h, <1>p, <1>q, <2>1 DEF Moves, PoolStays
<1>i. ASSUME NEW c \in Slots,
             \/ Spawns(c) \/ GateOpens(c) \/ GateCrashes(c) \/ ScenarioEnds(c) \/ StopBegins(c)
             \/ StopsStarting(c) \/ StopEnds(c) \/ Releases(c) \/ Joins(c) \/ PutsBack(c)
      PROVE  handler[c].id \in Ids
  BY <1>i, HasId
  DEF Spawns, GateOpens, GateCrashes, ScenarioEnds, StopBegins, StopsStarting, StopEnds, Releases, Joins, PutsBack, At
<1> QED
  BY <1>1, <1>2, <1>3, <1>4, <1>5, <1>6, <1>7, <1>8, <1>9, <1>10, <1>11, <1>12, <1>13, <1>15, <1>16, <1>17,
     <1>18, <1>i DEF AnyStep

(* No two handlers gate or stop one runtime: CREATED and READY are left    *)
(* only once.                                                              *)
LEMMA OneKept ==
  ASSUME CallsMatch, OwnRuntimes, OneAtATime, StatesMatch, ToolsTypeOK, ToolsTypeOK', twice \subseteq twice', AnyStep
  PROVE  OneAtATime'
<1>d. ASSUME NEW c \in Slots, OthersStay(c),
             \A pc \in {"gating", "stopping"} :
               handler'[c].pc = pc =>
                 \/ handler[c].pc = pc /\ handler'[c].id = handler[c].id
                 \/ handler'[c].id \in twice'
                 \/ \A d \in Slots \ {c} : handler[d].pc = pc => handler[d].id # handler'[c].id
      PROVE  OneAtATime'
  BY <1>d DEF OneAtATime, OthersStay
<1>1. ASSUME NEW c \in Slots, StopBegins(c) PROVE OneAtATime'
  <2>1. handler[c].id \in Ids
    BY <1>1, HasId DEF StopBegins, At
  <2>2. ASSUME NEW d \in Slots \ {c}, handler[d].pc = "stopping", handler[c].id \notin twice
        PROVE  handler[d].id # handler[c].id
    BY <1>1, <2>1, <2>2 DEF StopBegins, StatesMatch, StateMatches
  <2> QED
    BY <1>1, <1>d, <2>2 DEF StopBegins, Goes
<1>2. ASSUME NEW c \in Slots, Spawns(c) PROVE OneAtATime'
  <2>1. handler[c].id \in Ids
    BY <1>2, HasId DEF Spawns
  <2>2. ASSUME NEW d \in Slots \ {c}, handler[d].pc = "gating", handler[c].id \notin twice'
        PROVE  handler[d].id # handler[c].id
    BY <1>2, <2>1, <2>2 DEF Spawns, StatesMatch, StateMatches
  <2> QED
    BY <1>2, <1>d, <2>2 DEF Spawns, Goes
<1>3. ASSUME NEW c \in Slots, OthersStay(c),
             handler'[c].pc \notin {"gating", "stopping"} \/ handler'[c] = handler[c]
      PROVE  OneAtATime'
  BY <1>3, <1>d
<1>4. ASSUME NEW c \in Slots, NEW code, Ends(c, code) PROVE OneAtATime'
  BY <1>4, <1>3, NoHandlerFields DEF Ends
<1>5. ASSUME NEW c \in Slots, NEW pc \in {"creating", "detecting", "running"}, Goes(c, pc) PROVE OneAtATime'
  BY <1>5, <1>3 DEF Goes
<1>6. ASSUME NEW c \in Slots,
             \/ EndsQuietly(c) \/ GoesQuietly(c) \/ GateOpens(c) \/ GateCrashes(c) \/ ScenarioEnds(c)
             \/ StopsStarting(c) \/ StopEnds(c) \/ Releases(c) \/ Joins(c) \/ PutsBack(c)
      PROVE  OneAtATime'
  BY <1>4, <1>5, <1>6
  DEF EndsQuietly, GoesQuietly, GateOpens, GateCrashes, ScenarioEnds, StopsStarting, StopEnds, Releases,
      Joins, PutsBack
<1>7. ASSUME NEW c \in Slots,
             \/ Begins(c) \/ RefusesAtOnce(c) \/ LaunchAnswered(c) \/ Answered(c) \/ GivenUp(c) \/ Returned(c)
             \/ AsksAgain(c, "plugin_launch", "runtime.create", "runtime.launch")
             \/ AsksAgain(c, "operation_cancel", "runtime.stop", "runtime.release")
             \/ Registers(c)
      PROVE  OneAtATime'
  BY <1>3, <1>7, NoHandlerFields
  DEF Begins, RefusesAtOnce, LaunchAnswered, Answered, GivenUp, Returned, AsksAgain, Registers, Ends
<1>8. CASE Listing \/ Nothing \/ \E i \in Ids : Expires(i) \/ ReapEnds(i) \/ Collected(i)
  BY <1>8 DEF Listing, Nothing, Expires, ReapEnds, Collected, OneAtATime
<1> QED
  BY <1>1, <1>2, <1>6, <1>7, <1>8 DEF AnyStep

(* What a runtime has come to, it stays, unless its own handler goes on.   *)
Lasts(j) ==
  /\ Up(j) => Up(j)'
  /\ Over(j) => Over(j)'
  /\ Over(j) /\ state[j] # "STOPPED" => state'[j] # "STOPPED"
  /\ state[j] = "CRASHED" => state'[j] = "CRASHED"

LEMMA Lasting ==
  ASSUME NEW j \in Ids, Moves(j), PoolMatches(j)
  PROVE  Lasts(j) /\ PoolMatches(j)'
<1>1. Up(j) => Up(j)'
  BY DEF Moves, Up, Ran
<1>2. (Over(j) => Over(j)') /\ (Over(j) /\ state[j] # "STOPPED" => state'[j] # "STOPPED")
  BY DEF Moves, Over
<1>3. state[j] = "CRASHED" => state'[j] = "CRASHED"
  BY DEF Moves
<1>4. j \in reaping => Stopping(j)
  BY DEF Stopping
<1>5. j \in reaping' => Stopping(j)'
  BY DEF Stopping
<1>6. j \in reaping' => state'[j] \in {"STOPPING", "RELEASED"}
  BY <1>4, <1>5 DEF Moves, PoolMatches
<1>7. (j \in running' <=> state'[j] \in {"READY", "STOPPING"}) /\ (j \in pooled' => Up(j)')
  BY <1>1 DEF Moves, PoolMatches
<1> QED
  BY <1>1, <1>2, <1>3, <1>6, <1>7 DEF Lasts, PoolMatches

(* A slot without a handler knows nothing of states.                       *)
LEMMA NoState ==
  ASSUME NEW d \in Slots, handler'[d] = NoHandler
  PROVE  StateMatches(d)'
  BY NoHandlerFields, NoIdIsNone DEF StateMatches

(* What a slot whose handler does nothing relies on, whoever moves its     *)
(* runtime.                                                                *)
LEMMA StateStays ==
  ASSUME ToolsTypeOK, NEW d \in Slots, StateMatches(d), handler'[d] = handler[d],
         twice \subseteq twice', \A j \in Ids \ twice' : Moves(j) /\ Lasts(j)
  PROVE  StateMatches(d)'
<1>1. PICK i \in Ids \cup {NoId} : handler[d].id = i
  BY DEF ToolsTypeOK, HandlerRecords
<1>2. CASE i \notin Ids \ twice'
  BY <1>1, <1>2 DEF StateMatches
<1>3. CASE i \in Ids \ twice'
  <2>1. Moves(i) /\ Lasts(i) /\ i \notin twice
    BY <1>3
  <2>2. handler[d].pc = "gating" => Gating(i) /\ Gating(i)'
    BY <1>1 DEF Gating
  <2>3. handler[d].pc = "stopping" => Stopping(i) /\ Stopping(i)'
    BY <1>1 DEF Stopping
  <2>4. handler[d].pc = "gating" => state'[i] \in {"STARTING", "STOPPED"}
    BY <1>1, <1>3, <2>1, <2>2 DEF StateMatches, Moves
  <2>5. handler[d].pc = "running" => Up(i)' /\ state'[i] # "DELETED"
    BY <1>1, <1>3, <2>1 DEF StateMatches, Moves, Lasts
  <2>6. handler[d].pc = "stopping" => state'[i] \in {"STOPPING", "RELEASED"} /\ i \notin reaping'
    BY <1>1, <1>3, <2>1, <2>3 DEF StateMatches, Moves
  <2>7. /\ handler[d].method = "runtime.release" /\ handler[d].pc = "replied" /\ handler[d].code = "ok" =>
             state'[i] = "RELEASED"
        /\ state[i] = "CRASHED" => state'[i] = "CRASHED"
        /\ Up(i) => Up(i)'
        /\ Over(i) => Over(i)'
    BY <1>1, <1>3, <2>1 DEF StateMatches, Moves, Lasts, Over
  <2> QED
    BY <1>1, <1>3, <2>1, <2>4, <2>5, <2>6, <2>7 DEF StateMatches, At
<1> QED
  BY <1>2, <1>3

(* Every step keeps what the handlers know of their runtimes' states,      *)
LEMMA StatesKept ==
  ASSUME CallsMatch, OwnRuntimes, StatesMatch, PoolsMatch, ToolsTypeOK, ToolsTypeOK', AnyStep,
         twice \subseteq twice', \A j \in Ids \ twice' : Moves(j) /\ Lasts(j)
  PROVE  StatesMatch'
<1>c. ASSUME NEW c \in Slots
      PROVE  /\ CallMatches(c) /\ StateMatches(c)
             /\ handler[c] \in HandlerRecords /\ handler[c].id \in Ids \cup {NoId}
  BY DEF CallsMatch, StatesMatch, ToolsTypeOK, HandlerRecords
<1>q. ASSUME NEW c \in Slots, OthersStay(c), StateMatches(c)' PROVE StatesMatch'
  <2>1. ASSUME NEW d \in Slots \ {c} PROVE StateMatches(d)'
    BY <1>c, <1>q, StateStays DEF OthersStay
  <2> QED
    BY <1>q, <2>1 DEF StatesMatch
<1>s. ASSUME NEW c \in Slots, NEW s, Enters(c, s), handler[c].id \in Ids
      PROVE  state'[handler[c].id] = s
  BY <1>s DEF Enters, SetState, ToolsTypeOK
<1>i. ASSUME NEW c \in Slots PROVE handler[c].id \in Ids \ twice' => Moves(handler[c].id) /\ Lasts(handler[c].id)
  OBVIOUS
<1>o. "ok" \notin Codes
  BY DEF Codes, Catalogue
(* Handlers of which nothing is known when they have replied.              *)
<1>n. ASSUME NEW c \in Slots, OthersStay(c), handler'[c].pc \in {"sent", "creating", "created", "detecting", "replied"},
             handler'[c].method \notin {"runtime.launch", "runtime.stop", "runtime.release"}
      PROVE  StatesMatch'
  <2>1. StateMatches(c)'
    BY <1>n DEF StateMatches, At
  <2> QED
    BY <1>n, <1>q, <2>1
<1>e. ASSUME NEW c \in Slots, NEW code, Ends(c, code),
             handler[c].method \notin {"runtime.launch", "runtime.stop", "runtime.release"}
      PROVE  StatesMatch'
  <2>1. CASE tool[c].pc = "asking"
    BY <1>e, <1>n, <2>1 DEF Ends
  <2>2. CASE tool[c].pc # "asking"
    BY <1>e, <1>q, <2>2, NoState DEF Ends
  <2> QED
    BY <2>1, <2>2
<1>1. ASSUME NEW c \in Slots, Begins(c) PROVE StatesMatch'
  <2>1. PICK name \in Registered : handler'[c].method = FirstMethod(name) /\ handler'[c].pc = "sent"
    BY <1>1 DEF Begins
  <2>2. FirstMethod(name) \in {"runtime.create", "scenario.run", "runtime.get", "runtime.stop", "pool.acquire", "pool.release"}
    BY <2>1 DEF FirstMethod
  <2>3. StateMatches(c)'
    BY <2>1, <2>2 DEF StateMatches, At
  <2> QED
    BY <1>1, <1>q, <2>3 DEF Begins
<1>2. ASSUME NEW c \in Slots, RefusesAtOnce(c) \/ LaunchAnswered(c) \/ Answered(c) \/ Returned(c)
      PROVE  StatesMatch'
  BY <1>2, <1>q, NoState DEF RefusesAtOnce, LaunchAnswered, Answered, Returned
<1>3. ASSUME NEW c \in Slots, AsksAgain(c, "plugin_launch", "runtime.create", "runtime.launch")
      PROVE  StatesMatch'
  <2>1. StateMatches(c)'
    BY <1>3 DEF AsksAgain, StateMatches, At
  <2> QED
    BY <1>3, <1>q, <2>1 DEF AsksAgain
<1>4. ASSUME NEW c \in Slots, AsksAgain(c, "operation_cancel", "runtime.stop", "runtime.release")
      PROVE  StatesMatch'
  <2>1. PICK i \in Ids \cup {NoId} : handler[c].id = i /\ handler'[c].id = i
    BY <1>4, <1>c DEF AsksAgain, Replied, CallMatches
  <2>2. i \in Ids \ twice' => Over(i)'
    BY <1>4, <1>c, <2>1 DEF AsksAgain, Replied, StateMatches, Lasts
  <2>3. StateMatches(c)'
    BY <1>4, <2>1, <2>2 DEF AsksAgain, StateMatches, At
  <2> QED
    BY <1>4, <1>q, <2>3 DEF AsksAgain
<1>5. ASSUME NEW c \in Slots, GivenUp(c) PROVE StatesMatch'
  <2>1. StateMatches(c)'
    BY <1>5, <1>c, NoState, StateStays DEF GivenUp
  <2> QED
    BY <1>5, <1>q, <2>1 DEF GivenUp
<1>6. ASSUME NEW c \in Slots, EndsQuietly(c) PROVE StatesMatch'
  <2>1. PICK code : Ends(c, code) /\ (handler[c].method \in {"runtime.launch", "runtime.stop", "runtime.release"} =>
                                        code \notin {"ok", "RUNTIME_CRASHED"})
    BY <1>6 DEF EndsQuietly, Launching, At, Creates
  <2>2. CASE handler[c].method \notin {"runtime.launch", "runtime.stop", "runtime.release"}
    BY <1>e, <2>1, <2>2
  <2>3. CASE handler[c].method \in {"runtime.launch", "runtime.stop", "runtime.release"} /\ tool[c].pc = "asking"
    <3>1. PICK i \in Ids \cup {NoId} : handler[c].id = i /\ handler'[c].id = i
      BY <1>c, <2>1, <2>3 DEF Ends
    <3>2. handler[c].method = "runtime.release" /\ i \in Ids \ twice' => Over(i)'
      BY <1>c, <3>1 DEF StateMatches, Lasts
    <3>3. StateMatches(c)'
      BY <2>1, <2>3, <3>1, <3>2 DEF Ends, StateMatches, At
    <3> QED
      BY <1>q, <2>1, <3>3 DEF Ends
  <2>4. CASE tool[c].pc # "asking"
    BY <1>q, <2>1, <2>4, NoState DEF Ends
  <2> QED
    BY <2>2, <2>3, <2>4
<1>7. ASSUME NEW c \in Slots, GoesQuietly(c) PROVE StatesMatch'
  <2>1. /\ OthersStay(c) /\ handler'[c].pc \in {"creating", "detecting"}
        /\ handler'[c].method \in {"runtime.create", "scenario.run", "pool.acquire", "runtime.launch"}
    BY <1>7 DEF GoesQuietly, Goes, Creates, Launching, At
  <2>2. StateMatches(c)'
    BY <2>1 DEF StateMatches, At
  <2> QED
    BY <1>q, <2>1, <2>2
<1>8. ASSUME NEW c \in Slots, Registers(c) PROVE StatesMatch'
  <2>1. CASE handler[c].method = "pool.acquire" /\ Ends(c, "RUNTIME_NOT_FOUND")
    BY <1>e, <2>1
  <2>2. CASE handler'[c] = NoHandler
    BY <1>8, <1>q, <2>2, NoState DEF Registers
  <2>3. CASE handler'[c].pc \in {"created", "replied"} /\ handler'[c].method \in {"scenario.run", "runtime.create"}
    BY <1>8, <1>n, <2>3 DEF Registers
  <2> QED
    BY <1>8, <2>1, <2>2, <2>3 DEF Registers
<1>9. ASSUME NEW c \in Slots, Spawns(c) PROVE StatesMatch'
  <2>1. handler[c].id \in Ids /\ handler'[c].id = handler[c].id /\ handler'[c].pc = "gating" /\ OthersStay(c)
    BY <1>9, HasId DEF Spawns, Goes
  <2>2. state'[handler[c].id] = "STARTING"
    BY <1>9, <1>s, <2>1 DEF Spawns
  <2>3. handler'[c].method # "runtime.release"
    BY <1>9, <1>c DEF Spawns, Goes, CallMatches, Reaches
  <2>4. StateMatches(c)'
    BY <2>1, <2>2, <2>3 DEF StateMatches, At
  <2> QED
    BY <1>q, <2>1, <2>4
<1>10. ASSUME NEW c \in Slots, GateOpens(c) \/ GateCrashes(c) PROVE StatesMatch'
  <2>1. handler[c].id \in Ids /\ OthersStay(c)
    BY <1>10, HasId DEF GateOpens, GateCrashes, Ends, Goes
  <2>2. handler[c].method \in {"runtime.launch", "scenario.run", "pool.acquire"}
    BY <1>10, <1>c DEF GateOpens, GateCrashes, CallMatches, Reaches, Methods
  <2> PICK i \in Ids : handler[c].id = i
    BY <2>1
  <2>3. CASE GateCrashes(c)
    <3>1. state'[i] = "CRASHED"
      BY <1>s, <2>3 DEF GateCrashes
    <3>2. StateMatches(c)'
      BY <2>2, <2>3, <3>1, NoState DEF GateCrashes, Ends, StateMatches, At
    <3> QED
      BY <1>q, <2>1, <3>2
  <2>4. CASE GateOpens(c)
    <3>1. state'[i] = "READY"
      BY <1>s, <2>4 DEF GateOpens
    <3>2. i \in Ids \ twice' => Up(i)'
      <4>1. Gating(i)
        BY <2>4 DEF GateOpens, Gating
      <4>2. i \notin twice' => state[i] \in {"STARTING", "STOPPED"}
        BY <1>c, <2>4 DEF GateOpens, StateMatches
      <4> QED
        BY <1>i, <3>1, <4>1, <4>2 DEF Moves, Up, Ran
    <3>3. CASE handler[c].method = "scenario.run"
      <4>1. handler'[c].method = "scenario.run" /\ handler'[c].pc = "running" /\ handler'[c].id = i
        BY <2>4, <3>3 DEF GateOpens, Goes
      <4>2. StateMatches(c)'
        BY <3>1, <3>2, <4>1 DEF StateMatches, At
      <4> QED
        BY <1>q, <2>1, <4>2
    <3>4. CASE handler[c].method = "runtime.launch"
      <4>1. Ends(c, "ok")
        BY <2>4, <3>4 DEF GateOpens
      <4>2. StateMatches(c)'
        BY <3>2, <3>4, <4>1, NoState DEF Ends, StateMatches, At
      <4> QED
        BY <1>q, <2>1, <4>2
    <3>5. CASE handler[c].method = "pool.acquire"
      BY <1>e, <2>4, <3>5 DEF GateOpens
    <3> QED
      BY <2>2, <3>3, <3>4, <3>5
  <2> QED
    BY <1>10, <2>3, <2>4
<1>11. ASSUME NEW c \in Slots, ScenarioEnds(c) \/ Joins(c) \/ PutsBack(c) PROVE StatesMatch'
  BY <1>11, <1>e DEF ScenarioEnds, Joins, PutsBack, At
<1>12. ASSUME NEW c \in Slots, StopBegins(c) PROVE StatesMatch'
  <2>1. handler[c].id \in Ids /\ handler[c].method = "runtime.stop" /\ OthersStay(c)
    BY <1>12, HasId DEF StopBegins, At, Goes
  <2>2. state'[handler[c].id] = "STOPPING"
    BY <1>12, <1>s, <2>1 DEF StopBegins
  <2>3. handler[c].id \in Ids \ twice => handler[c].id \notin reaping'
    BY <1>12 DEF StopBegins, PoolStays, PoolsMatch, PoolMatches
  <2>4. StateMatches(c)'
    BY <1>12, <2>1, <2>2, <2>3 DEF StopBegins, Goes, StateMatches, At
  <2> QED
    BY <1>q, <2>1, <2>4
<1>13. ASSUME NEW c \in Slots, StopsStarting(c) PROVE StatesMatch'
  <2>1. StateMatches(c)' /\ OthersStay(c)
    BY <1>13, NoState DEF StopsStarting, Ends, StateMatches, At
  <2> QED
    BY <1>q, <2>1
<1>14. ASSUME NEW c \in Slots, StopEnds(c) PROVE StatesMatch'
  <2>1. handler[c].id \in Ids /\ handler[c].method = "runtime.stop" /\ OthersStay(c)
    BY <1>14, <1>c, HasId DEF StopEnds, CallMatches, Reaches, Methods, Ends
  <2> PICK i \in Ids : handler[c].id = i
    BY <2>1
  <2>2. state'[i] = "STOPPED"
    BY <1>14, <1>s DEF StopEnds
  <2>3. i \notin twice' => state[i] \in {"STOPPING", "RELEASED"}
    BY <1>14, <1>c DEF StopEnds, StateMatches
  <2>4. i \notin twice' => ~ Gating(i)
    BY <1>c, <2>3 DEF Gating, StateMatches
  <2>5. i \notin twice' => Over(i)'
    BY <1>i, <2>2, <2>3, <2>4 DEF Moves, Over
  <2>6. StateMatches(c)'
    BY <1>14, <2>1, <2>5, NoState DEF StopEnds, Ends, StateMatches, At
  <2> QED
    BY <1>q, <2>1, <2>6
<1>15. ASSUME NEW c \in Slots, Releases(c) PROVE StatesMatch'
  <2>1. handler[c].id \in Ids /\ handler[c].method = "runtime.release" /\ OthersStay(c)
    BY <1>15, HasId DEF Releases, At, Ends
  <2> PICK i \in Ids : handler[c].id = i
    BY <2>1
  <2>2. state'[i] = "RELEASED"
    BY <1>15, <1>s DEF Releases
  <2>3. i \notin twice' => Over(i)'
    BY <1>c, <1>i, <2>1 DEF StateMatches, Lasts
  <2>4. StateMatches(c)'
    BY <1>15, <2>1, <2>2, <2>3, NoState DEF Releases, Ends, StateMatches, At
  <2> QED
    BY <1>q, <2>1, <2>4
<1>16. CASE Listing \/ Nothing \/ \E i \in Ids : Expires(i) \/ ReapEnds(i) \/ Collected(i)
  <2>1. ASSUME NEW d \in Slots PROVE StateMatches(d)'
    BY <1>16, <1>c, StateStays DEF Listing, Nothing, Expires, ReapEnds, Collected
  <2> QED
    BY <2>1 DEF StatesMatch
<1> QED
  BY <1>1, <1>2, <1>3, <1>4, <1>5, <1>6, <1>7, <1>8, <1>9, <1>10, <1>11, <1>12, <1>13, <1>14, <1>15, <1>16
  DEF AnyStep

(* A runtime that is not launched yet stays as it was created, unless some *)
(* agent knows it.                                                         *)
LEMMA UntouchedKept ==
  ASSUME CallsMatch, OwnRuntimes, Untouched, ToolsTypeOK, ToolsTypeOK', AnyStep,
         known \subseteq known', twice' \subseteq known', \A j \in Ids \ twice' : Moves(j)
  PROVE  Untouched'
<1>c. ASSUME NEW c \in Slots
      PROVE  /\ CallMatches(c) /\ OwnRuntime(c)
             /\ handler[c] \in HandlerRecords /\ handler[c].id \in Ids \cup {NoId}
             /\ handler[c].id # NoId /\ Unlaunched(c) =>
                  state[handler[c].id] = "CREATED" \/ handler[c].id \in known
  BY DEF CallsMatch, OwnRuntimes, Untouched, ToolsTypeOK, HandlerRecords
<1> DEFINE Fine(c) == handler'[c].id # NoId /\ Unlaunched(c)' =>
                        state'[handler'[c].id] = "CREATED" \/ handler'[c].id \in known'
(* A slot whose handler does nothing.                                      *)
<1>d. ASSUME NEW d \in Slots, handler'[d] = handler[d] PROVE Fine(d)
  <2> SUFFICES ASSUME handler[d].id # NoId, Unlaunched(d), handler[d].id \notin known'
               PROVE  state'[handler[d].id] = "CREATED"
    BY <1>d DEF Unlaunched, At
  <2>1. PICK i \in Ids : handler[d].id = i
    BY <1>c
  <2>2. state[i] = "CREATED" /\ Moves(i)
    BY <1>c, <2>1
  <2>3. ASSUME NEW c \in Slots, handler[c].pc = "detecting", handler'[c].pc = "gating", handler[c].id = i
        PROVE  FALSE
    <3>1. c # d
      BY <1>d, <2>3
    <3>2. Launches(c)
      BY <1>c, <2>1, <2>3 DEF CallMatches, Reaches, Methods, Launches
    <3>3. Launches(d)
      BY <1>c, <2>1 DEF Unlaunched, At, CallMatches, Reaches, Methods, Launches
    <3> QED
      BY <2>1, <2>3, <3>1, <3>2, <3>3 DEF OwnRuntimes
  <2>4. state'[i] = "CREATED"
    BY <2>2, <2>3 DEF Moves
  <2> QED
    BY <2>1, <2>4
<1>q. ASSUME NEW c \in Slots, OthersStay(c), Fine(c) PROVE Untouched'
  <2>1. ASSUME NEW d \in Slots \ {c} PROVE Fine(d)
    BY <1>d, <1>q, <2>1 DEF OthersStay
  <2> QED
    BY <1>q, <2>1 DEF Untouched
<1>u. ASSUME NEW c \in Slots, OthersStay(c), ~ Unlaunched(c)' PROVE Untouched'
  BY <1>q, <1>u
<1>n. ASSUME NEW c \in Slots, OthersStay(c), handler'[c] = NoHandler PROVE Untouched'
  BY <1>n, <1>q, NoHandlerFields
<1>1. ASSUME NEW c \in Slots, Begins(c) PROVE Untouched'
  <2>1. PICK name \in Registered, i \in Ids \cup {NoId} :
          /\ IF name \in OfRuntime THEN i \in known ELSE i = NoId
          /\ handler'[c].method = FirstMethod(name) /\ handler'[c].pc = "sent" /\ handler'[c].id = i
    BY <1>1 DEF Begins
  <2>2. Fine(c)
    BY <2>1
  <2> QED
    BY <1>1, <1>q, <2>2 DEF Begins
<1>2. ASSUME NEW c \in Slots, RefusesAtOnce(c) \/ LaunchAnswered(c) \/ Answered(c) PROVE Untouched'
  BY <1>2, <1>n DEF RefusesAtOnce, LaunchAnswered, Answered
<1>3. ASSUME NEW c \in Slots, AsksAgain(c, "plugin_launch", "runtime.create", "runtime.launch")
      PROVE  Untouched'
  <2>1. Fine(c)
    BY <1>3, <1>c DEF AsksAgain, Replied, Unlaunched, Quietly
  <2> QED
    BY <1>3, <1>q, <2>1 DEF AsksAgain
<1>4. ASSUME NEW c \in Slots, AsksAgain(c, "operation_cancel", "runtime.stop", "runtime.release")
      PROVE  Untouched'
  BY <1>4, <1>u DEF AsksAgain, Unlaunched, At
<1>5. ASSUME NEW c \in Slots, GivenUp(c) \/ Returned(c) PROVE Untouched'
  BY <1>5, <1>d, <1>n, <1>q DEF GivenUp, Returned
<1>e. ASSUME NEW c \in Slots, NEW code, Ends(c, code), UNCHANGED state,
             handler[c].method = "runtime.launch" => Unlaunched(c) \/ code \in {"ok", "RUNTIME_CRASHED"},
             handler[c].method = "runtime.create" => handler[c].id = NoId
      PROVE  Untouched'
  <2>1. CASE tool[c].pc = "asking"
    <3>1. Fine(c)
      BY <1>c, <1>e, <2>1 DEF Ends, Unlaunched, At
    <3> QED
      BY <1>e, <1>q, <3>1 DEF Ends
  <2>2. CASE tool[c].pc # "asking"
    BY <1>e, <1>n, <2>2 DEF Ends
  <2> QED
    BY <2>1, <2>2
<1>6. ASSUME NEW c \in Slots, EndsQuietly(c) PROVE Untouched'
  <2>1. PICK code : Ends(c, code)
    BY <1>6 DEF EndsQuietly
  <2>2. handler[c].method = "runtime.launch" => Unlaunched(c)
    BY <1>6 DEF EndsQuietly, Launching, At, Creates, Unlaunched
  <2>3. handler[c].method = "runtime.create" => handler[c].id = NoId
    BY <1>6, <1>c DEF EndsQuietly, Launching, At, Creates, CallMatches, Reaches, OwnRuntime, Launches, HasNoRuntime
  <2> QED
    BY <1>6, <1>e, <2>1, <2>2, <2>3 DEF EndsQuietly, Quietly
<1>7. ASSUME NEW c \in Slots, GoesQuietly(c) PROVE Untouched'
  <2>1. OthersStay(c) /\ UNCHANGED state
    BY <1>7 DEF GoesQuietly, Goes, Quietly
  <2>2. CASE Creates(c) /\ handler[c].pc = "sent" /\ Goes(c, "creating")
    <3>1. handler'[c].id = NoId \/ ~ Unlaunched(c)'
      BY <1>c, <2>2 DEF Goes, Creates, Unlaunched, At, OwnRuntime, Launches, HasNoRuntime
    <3> QED
      BY <1>q, <2>1, <3>1
  <2>3. CASE state[handler[c].id] = "CREATED" /\ Goes(c, "detecting")
    BY <1>q, <2>1, <2>3 DEF Goes
  <2> QED
    BY <1>7, <2>2, <2>3 DEF GoesQuietly
<1>8. ASSUME NEW c \in Slots, Registers(c) PROVE Untouched'
  <2>1. PICK i \in Ids :
          /\ SetState(i, "CREATED")
          /\ \/ handler[c].method = "pool.acquire" /\ Ends(c, "RUNTIME_NOT_FOUND")
             \/ handler'[c].id = i
             \/ handler'[c] = NoHandler
    BY <1>8 DEF Registers
  <2>2. state'[i] = "CREATED" /\ OthersStay(c)
    BY <1>8, <2>1 DEF Registers, SetState, ToolsTypeOK
  <2>3. CASE handler'[c].id = i
    BY <1>q, <2>2, <2>3
  <2>4. CASE handler'[c] = NoHandler
    BY <1>n, <2>2, <2>4
  <2>5. CASE handler[c].method = "pool.acquire" /\ Ends(c, "RUNTIME_NOT_FOUND")
    <3>1. ~ Unlaunched(c)'
      BY <2>5, NoHandlerFields DEF Ends, Unlaunched, At, None
    <3> QED
      BY <1>u, <2>2, <3>1
  <2> QED
    BY <2>1, <2>3, <2>4, <2>5
<1>9. ASSUME NEW c \in Slots,
             \/ Spawns(c) \/ GateOpens(c) \/ GateCrashes(c) \/ ScenarioEnds(c) \/ StopBegins(c)
             \/ StopsStarting(c) \/ StopEnds(c) \/ Releases(c) \/ Joins(c) \/ PutsBack(c)
      PROVE  Untouched'
  <2>1. handler[c].method # "runtime.create"
    BY <1>9, <1>c
    DEF Spawns, GateOpens, GateCrashes, ScenarioEnds, StopBegins, StopsStarting, StopEnds, Releases, Joins,
        PutsBack, At, CallMatches, Reaches
  <2>2. \/ \E pc \in {"gating", "running", "stopping"} : Goes(c, pc)
        \/ \E code : Ends(c, code) /\ (handler[c].method = "runtime.launch" => code \in {"ok", "RUNTIME_CRASHED"})
    <3>1. ScenarioEnds(c) \/ StopsStarting(c) \/ StopEnds(c) \/ Releases(c) \/ Joins(c) \/ PutsBack(c) =>
            handler[c].method # "runtime.launch"
      BY <1>c DEF ScenarioEnds, StopsStarting, StopEnds, Releases, Joins, PutsBack, At, CallMatches, Reaches
    <3> QED
      BY <1>9, <3>1
      DEF Spawns, GateOpens, GateCrashes, ScenarioEnds, StopBegins, StopsStarting, StopEnds, Releases, Joins, PutsBack
  <2>3. OthersStay(c) /\ ~ Unlaunched(c)'
    BY <2>1, <2>2, NoHandlerFields DEF Ends, Goes, Unlaunched, At, None
  <2> QED
    BY <1>u, <2>3
<1>10. CASE Listing \/ Nothing \/ \E i \in Ids : Expires(i) \/ ReapEnds(i) \/ Collected(i)
  <2>1. ASSUME NEW d \in Slots PROVE Fine(d)
    BY <1>10, <1>d DEF Listing, Nothing, Expires, ReapEnds, Collected
  <2> QED
    BY <2>1 DEF Untouched
<1> QED
  BY <1>1, <1>2, <1>3, <1>4, <1>5, <1>6, <1>7, <1>8, <1>9, <1>10 DEF AnyStep

(* What has been told stays true; what is told is.                         *)
LEMMA StillTrue ==
  ASSUME ToolsTypeOK, twice \subseteq twice', \A j \in Ids \ twice' : Lasts(j), known \subseteq known',
         NEW c \in Slots, TellsTrue(c), tool'[c] = tool[c]
  PROVE  TellsTrue(c)'
<1>1. PICK i \in Ids \cup {NoId} : tool[c].id = i /\ tool'[c].id = i
  BY DEF ToolsTypeOK, ToolRecords
<1>2. i \in known => i \in Ids
  BY DEF ToolsTypeOK
<1>3. i \in Ids \ twice' => Lasts(i) /\ i \notin twice
  OBVIOUS
<1> QED
  BY <1>1, <1>2, <1>3, NoIdIsNone DEF TellsTrue, Told, Lasts

(* what has been told,                                                     *)
LEMMA ToldKept ==
  ASSUME CallsMatch, OwnRuntimes, StatesMatch, ToldHolds, ToolsTypeOK, ToolsTypeOK',
         AnyStep, twice \subseteq twice', \A j \in Ids \ twice' : Lasts(j)
  PROVE  ToldHolds'
<1>c. ASSUME NEW c \in Slots
      PROVE  /\ CallMatches(c) /\ OwnRuntime(c) /\ StateMatches(c) /\ TellsTrue(c)
             /\ tool[c] \in ToolRecords /\ handler[c] \in HandlerRecords
             /\ handler[c].id \in Ids \cup {NoId} /\ tool[c].id \in Ids \cup {NoId}
  BY DEF OwnRuntimes, CallsMatch, StatesMatch, ToldHolds, ToolsTypeOK, HandlerRecords, ToolRecords
<1>o. ASSUME NEW c \in Slots, OthersStay(c), known \subseteq known', TellsTrue(c)' PROVE ToldHolds'
  <2>1. ASSUME NEW d \in Slots \ {c} PROVE TellsTrue(d)'
    BY <1>c, <1>o, StillTrue DEF OthersStay
  <2> QED
    BY <1>o, <2>1 DEF ToldHolds
<1>n. ASSUME NEW c \in Slots, tool'[c].pc # "told" PROVE TellsTrue(c)'
  BY <1>n DEF TellsTrue, Told
<1>1. ASSUME NEW c \in Slots,
             \/ Begins(c) \/ Returned(c)
             \/ AsksAgain(c, "plugin_launch", "runtime.create", "runtime.launch")
             \/ AsksAgain(c, "operation_cancel", "runtime.stop", "runtime.release")
      PROVE  ToldHolds'
  <2>1. tool'[c].pc # "told"
    BY <1>1, NoToolFields DEF Begins, Returned, AsksAgain
  <2> QED
    BY <1>1, <1>n, <1>o, <2>1 DEF Begins, Returned, AsksAgain, Quietly
<1>2. ASSUME NEW c \in Slots, RefusesAtOnce(c) \/ GivenUp(c) PROVE ToldHolds'
  <2>1. tool'[c].answer \notin {"success", "RUNTIME_CRASHED", "RUNTIME_QUOTA_EXCEEDED"}
    BY <1>2 DEF RefusesAtOnce, GivenUp
  <2>2. TellsTrue(c)'
    BY <2>1 DEF TellsTrue, Told
  <2> QED
    BY <1>2, <1>o, <2>2 DEF RefusesAtOnce, GivenUp, Quietly
<1>3. ASSUME NEW c \in Slots, LaunchAnswered(c) PROVE ToldHolds'
  <2>1. PICK i \in Ids : handler[c].id = i
    BY <1>3, <1>c DEF LaunchAnswered, Replied, OwnRuntime, Launches
  <2>2. i \notin twice' => Up(i)'
    BY <1>3, <1>c, <2>1 DEF LaunchAnswered, Replied, StateMatches, Lasts
  <2>3. TellsTrue(c)'
    BY <1>3, <2>1, <2>2, NoIdIsNone DEF LaunchAnswered, TellsTrue, Told
  <2> QED
    BY <1>3, <1>o, <2>3 DEF LaunchAnswered
<1>4. ASSUME NEW c \in Slots, Answered(c) PROVE ToldHolds'
  <2> SUFFICES TellsTrue(c)'
    BY <1>4, <1>o DEF Answered, Quietly
  <2>1. PICK i \in Ids \cup {NoId} : tool[c].id = i /\ tool'[c].id = i
    BY <1>4, <1>c DEF Answered
  <2>2. tool'[c].pc = "told" /\ tool'[c].name = tool[c].name /\ UNCHANGED state
        /\ twice' = twice
    BY <1>4 DEF Answered, Quietly, PoolStays
  <2>3. CASE tool'[c].answer = "success"
    <3>1. handler[c].code = "ok" /\ <<tool[c].name, handler[c].method>> \in Successes
      BY <1>4, <2>3 DEF Answered
    <3>2. CASE tool[c].name = "scenario_run"
      BY <2>2, <2>3, <3>2 DEF TellsTrue, Told
    <3>3. CASE tool[c].name # "scenario_run"
      <4>1. /\ tool[c].name = "plugin_stop" => handler[c].method = "runtime.stop"
            /\ tool[c].name = "operation_cancel" => handler[c].method = "runtime.release"
            /\ tool[c].name \in {"plugin_stop", "operation_cancel", "operation_get"} \cup PoolTools
            /\ handler[c].method \in {"runtime.stop", "runtime.release", "runtime.get", "pool.acquire", "pool.release"}
        BY <3>1, <3>3 DEF Successes, PoolTools
      <4>2. handler[c].id = i /\ i \in Ids
        BY <1>4, <1>c, <2>1, <3>3, <4>1 DEF Answered, CallMatches, ToolsTypeOK
      <4>3. i \notin twice' => Lasts(i)
        BY <4>2
      <4>4. i \notin twice' =>
              /\ tool[c].name = "plugin_stop" => Over(i)'
              /\ tool[c].name = "operation_cancel" => Over(i)' /\ state'[i] # "STOPPED"
        BY <1>4, <1>c, <2>2, <3>1, <4>1, <4>2, <4>3, NoIdIsNone DEF Answered, StateMatches, Lasts
      <4> QED
        BY <2>1, <2>2, <2>3, <4>1, <4>2, <4>4, NoIdIsNone DEF TellsTrue, Told, PoolTools
    <3> QED
      BY <3>2, <3>3
  <2>4. CASE /\ tool[c].name = "plugin_launch" /\ tool'[c].answer # "success"
             /\ tool'[c].answer \in {"RUNTIME_CRASHED", "RUNTIME_QUOTA_EXCEEDED"}
    <3>1. handler[c].code = tool'[c].answer /\ handler[c].pc = "replied"
      BY <1>4, <2>4 DEF Answered
    <3>2. handler[c].method \in {"runtime.create", "runtime.launch"}
      BY <1>4, <1>c, <2>4 DEF Answered, CallMatches, Pairs
    <3>3. handler[c].code = "RUNTIME_CRASHED" => handler[c].method = "runtime.launch"
      BY <1>c, <3>1, <3>2 DEF CallMatches, RepliesOf
    <3>4. handler[c].code = "RUNTIME_QUOTA_EXCEEDED" => handler[c].method = "runtime.create"
      BY <1>c, <3>1, <3>2 DEF CallMatches, RepliesOf
    <3>5. handler[c].code = "RUNTIME_CRASHED" => i # NoId /\ (i \notin twice => state[i] = "CRASHED")
      BY <1>4, <1>c, <2>1, <2>4, <3>1, <3>3 DEF Answered, CallMatches, OwnRuntime, Launches, StateMatches, At
    <3>6. handler[c].code = "RUNTIME_QUOTA_EXCEEDED" => i = NoId
      BY <1>4, <1>c, <2>1, <2>4, <3>1, <3>4 DEF Answered, CallMatches
    <3> QED
      BY <2>1, <2>2, <2>4, <3>1, <3>5, <3>6 DEF TellsTrue, Told
  <2>5. CASE /\ tool'[c].answer # "success"
             /\ \/ tool[c].name # "plugin_launch"
                \/ tool'[c].answer \notin {"RUNTIME_CRASHED", "RUNTIME_QUOTA_EXCEEDED"}
    BY <2>2, <2>5 DEF TellsTrue, Told
  <2> QED
    BY <2>3, <2>4, <2>5
<1>5. ASSUME tool' = tool, known \subseteq known' PROVE ToldHolds'
  <2>1. ASSUME NEW d \in Slots PROVE TellsTrue(d)'
    BY <1>c, <1>5, StillTrue
  <2> QED
    BY <2>1 DEF ToldHolds
<1>6. ASSUME NEW c \in Slots,
             \/ EndsQuietly(c) \/ GoesQuietly(c) \/ Registers(c) \/ Spawns(c) \/ GateOpens(c)
             \/ GateCrashes(c) \/ ScenarioEnds(c) \/ StopBegins(c) \/ StopsStarting(c) \/ StopEnds(c)
             \/ Releases(c) \/ Joins(c) \/ PutsBack(c)
      PROVE  ToldHolds'
  <2>1. tool' = tool
    BY <1>6
    DEF EndsQuietly, GoesQuietly, Registers, Spawns, GateOpens, GateCrashes, ScenarioEnds,
        StopBegins, StopsStarting, StopEnds, Releases, Joins, PutsBack, Ends, Goes
  <2>2. known' = known
    BY <1>6
    DEF EndsQuietly, GoesQuietly, Registers, Spawns, GateOpens, GateCrashes, ScenarioEnds,
        StopBegins, StopsStarting, StopEnds, Releases, Joins, PutsBack, Reaps, Quietly, Enters
  <2> QED
    BY <1>5, <2>1, <2>2
<1>7. CASE Listing \/ Nothing \/ \E i \in Ids : Expires(i) \/ ReapEnds(i) \/ Collected(i)
  BY <1>5, <1>7 DEF Listing, Nothing, Quietly, Expires, Reaps, ReapEnds, Collected
<1> QED
  BY <1>1, <1>2, <1>3, <1>4, <1>6, <1>7 DEF AnyStep

(* and every running runtime in someone's hands.                           *)
LEMMA SomeoneKept ==
  ASSUME CallsMatch, OwnRuntimes, Untouched, StatesMatch, PoolsMatch, SomeoneHasIt, ToolsTypeOK, ToolsTypeOK',
         AnyStep,
         known \subseteq known', unheard \subseteq unheard', twice' \subseteq known',
         \A j \in Ids \ twice' : Moves(j), twice \subseteq twice'
  PROVE  SomeoneHasIt'
<1> DEFINE Busy == {"STARTING", "READY", "STOPPING", "STOPPED"}
<1> SUFFICES ASSUME NEW i \in Ids, state'[i] \in Busy, i \notin known \cup unheard, i \notin (known \cup unheard)'
             PROVE  i \in (known \cup unheard)' \/ \E c \in Slots : Has(c, i)'
  BY DEF SomeoneHasIt
<1>c. ASSUME NEW c \in Slots
      PROVE  /\ CallMatches(c) /\ OwnRuntime(c) /\ StateMatches(c)
             /\ handler[c] \in HandlerRecords /\ handler[c].id \in Ids \cup {NoId}
  BY DEF OwnRuntimes, CallsMatch, StatesMatch, ToolsTypeOK, HandlerRecords
<1>i. i # NoId /\ i \notin twice /\ i \notin twice' /\ Moves(i)
  BY NoIdIsNone
<1>v. ASSUME NEW c \in Slots, Unlaunched(c), handler[c].id = i PROVE state[i] = "CREATED"
  BY <1>v, <1>i DEF Untouched
(* A step of c: what it held, it holds or has handed over.                 *)
<1>o. ASSUME NEW c \in Slots, OthersStay(c), known \subseteq known', unheard \subseteq unheard',
             state[i] \in Busy, Has(c, i) => Has(c, i)' \/ i \in (known \cup unheard)'
      PROVE  i \in (known \cup unheard)' \/ \E d \in Slots : Has(d, i)'
  <2>1. CASE i \in known \cup unheard
    BY <1>o, <2>1
  <2>2. ASSUME NEW d \in Slots, Has(d, i) PROVE i \in (known \cup unheard)' \/ \E e \in Slots : Has(e, i)'
    <3>1. d # c => Has(d, i)'
      BY <1>o, <2>2 DEF OthersStay, Has
    <3> QED
      BY <1>o, <2>2, <3>1
  <2> QED
    BY <1>o, <2>1, <2>2 DEF SomeoneHasIt
<1>1. ASSUME NEW c \in Slots,
             \/ Begins(c) \/ RefusesAtOnce(c) \/ Returned(c)
             \/ AsksAgain(c, "plugin_launch", "runtime.create", "runtime.launch")
             \/ AsksAgain(c, "operation_cancel", "runtime.stop", "runtime.release")
      PROVE  i \in (known \cup unheard)' \/ \E d \in Slots : Has(d, i)'
  <2>1. OthersStay(c) /\ Quietly
    BY <1>1 DEF Begins, RefusesAtOnce, Returned, AsksAgain
  <2>2. ~ Has(c, i)
    BY <1>1, <1>i, NoHandlerFields DEF Begins, RefusesAtOnce, Returned, AsksAgain, Replied, Has
  <2> QED
    BY <1>o, <2>1, <2>2 DEF Quietly
<1>2. ASSUME NEW c \in Slots, LaunchAnswered(c)
      PROVE  i \in (known \cup unheard)' \/ \E d \in Slots : Has(d, i)'
  <2>1. Has(c, i) => i \in known'
    BY <1>2 DEF LaunchAnswered, Has
  <2> QED
    BY <1>2, <1>o, <2>1 DEF LaunchAnswered
<1>3. ASSUME NEW c \in Slots, Answered(c)
      PROVE  i \in (known \cup unheard)' \/ \E d \in Slots : Has(d, i)'
  <2>1. OthersStay(c) /\ Quietly /\ handler[c].pc = "replied"
    BY <1>3 DEF Answered
  <2>2. handler[c].method = "runtime.launch" => handler[c].code # "ok"
    BY <1>3, <1>c DEF Answered, CallMatches, Successes
  <2>3. ~ Has(c, i)
    BY <1>c, <1>i, <1>v, <2>1, <2>2 DEF Quietly, Has, StateMatches, Unlaunched, At
  <2> QED
    BY <1>o, <2>1, <2>3 DEF Quietly
<1>4. ASSUME NEW c \in Slots, GivenUp(c)
      PROVE  i \in (known \cup unheard)' \/ \E d \in Slots : Has(d, i)'
  <2>1. Has(c, i) => Has(c, i)' \/ i \in unheard'
    <3>1. CASE handler'[c] = handler[c]
      BY <3>1 DEF Has
    <3>2. CASE handler[c].pc \in {"sent", "replied"}
      BY <1>4, <1>i, <3>2 DEF GivenUp, Has
    <3> QED
      BY <1>4, <3>1, <3>2 DEF GivenUp
  <2>2. unheard \subseteq unheard'
    BY <1>4 DEF GivenUp
  <2> QED
    BY <1>4, <1>o, <2>1, <2>2 DEF GivenUp
<1>5. ASSUME NEW c \in Slots, EndsQuietly(c) \/ GoesQuietly(c)
      PROVE  i \in (known \cup unheard)' \/ \E d \in Slots : Has(d, i)'
  <2>1. OthersStay(c) /\ Quietly
    BY <1>5 DEF EndsQuietly, GoesQuietly, Ends, Goes
  <2>2. Has(c, i) => Has(c, i)'
    <3>1. CASE GoesQuietly(c)
      BY <1>c, <3>1 DEF GoesQuietly, Goes, Creates, Launching, At, Has
    <3>2. ASSUME EndsQuietly(c), Has(c, i) PROVE FALSE
      <4>1. handler[c].method = "runtime.launch" /\ handler[c].id = i
        BY <3>2 DEF EndsQuietly, Launching, Creates, At, Has
      <4>2. Unlaunched(c)
        BY <3>2, <4>1 DEF EndsQuietly, Launching, Creates, At, Unlaunched
      <4> QED
        BY <1>v, <2>1, <4>1, <4>2 DEF Quietly
    <3> QED
      BY <1>5, <3>1, <3>2
  <2> QED
    BY <1>o, <2>1, <2>2 DEF Quietly
<1>6. ASSUME NEW c \in Slots, Registers(c)
      PROVE  i \in (known \cup unheard)' \/ \E d \in Slots : Has(d, i)'
  <2>1. OthersStay(c) /\ known' = known /\ unheard \subseteq unheard'
    BY <1>6 DEF Registers
  <2>2. state[i] \in Busy
    BY <1>6 DEF Registers, SetState, ToolsTypeOK
  <2>3. ~ Has(c, i)
    BY <1>6 DEF Registers, Creates, Has
  <2> QED
    BY <1>o, <2>1, <2>2, <2>3
<1>7. ASSUME NEW c \in Slots, Spawns(c)
      PROVE  i \in (known \cup unheard)' \/ \E d \in Slots : Has(d, i)'
  <2>1. CASE handler[c].id = i
    BY <1>7, <2>1 DEF Spawns, Goes, Has
  <2>2. CASE handler[c].id # i
    BY <1>7, <1>o, <2>2 DEF Spawns, Goes, Enters, SetState, ToolsTypeOK, Has
  <2> QED
    BY <2>1, <2>2
<1>8. ASSUME NEW c \in Slots, GateOpens(c) \/ GateCrashes(c)
      PROVE  i \in (known \cup unheard)' \/ \E d \in Slots : Has(d, i)'
  <2>1. handler[c].method \in {"runtime.launch", "scenario.run", "pool.acquire"}
    BY <1>8, <1>c DEF GateOpens, GateCrashes, CallMatches, Reaches, Methods
  <2>2. OthersStay(c) /\ UNCHANGED <<known, unheard>>
    BY <1>8 DEF GateOpens, GateCrashes, Enters, Ends, Goes
  <2>3. CASE handler[c].id = i /\ GateOpens(c)
    <3>1. CASE handler[c].method = "scenario.run"
      BY <2>3, <3>1 DEF GateOpens, Goes, Has
    <3>2. CASE handler[c].method = "runtime.launch"
      BY <1>c, <2>2, <2>3, <3>2 DEF GateOpens, Ends, Has, OwnRuntime, Launches
    <3>3. handler[c].method # "pool.acquire"
      BY <1>c, <2>3 DEF CallMatches
    <3> QED
      BY <2>1, <3>1, <3>2, <3>3
  <2>4. CASE handler[c].id = i /\ GateCrashes(c)
    BY <2>4 DEF GateCrashes, Enters, SetState, ToolsTypeOK
  <2>5. CASE handler[c].id # i
    <3>1. state'[i] = state[i]
      BY <1>8, <2>5 DEF GateOpens, GateCrashes, Enters, SetState, ToolsTypeOK
    <3> QED
      BY <1>o, <2>2, <2>5, <3>1 DEF Has
  <2> QED
    BY <1>8, <2>3, <2>4, <2>5
<1>9. ASSUME NEW c \in Slots, ScenarioEnds(c)
      PROVE  i \in (known \cup unheard)' \/ \E d \in Slots : Has(d, i)'
  <2>1. OthersStay(c) /\ UNCHANGED <<known, unheard>>
    BY <1>9 DEF ScenarioEnds, Ends, Enters
  <2>2. CASE handler[c].id = i
    <3>1. state'[i] = "RELEASED" \/ (state'[i] = state[i] /\ state[i] \notin ActiveStates)
      BY <1>9, <2>2 DEF ScenarioEnds, Enters, SetState, ToolsTypeOK
    <3> QED
      BY <3>1 DEF ActiveStates
  <2>3. CASE handler[c].id # i
    <3>1. state'[i] = state[i]
      BY <1>9, <2>3 DEF ScenarioEnds, Enters, SetState, ToolsTypeOK
    <3> QED
      BY <1>o, <2>1, <2>3, <3>1 DEF Has
  <2> QED
    BY <2>2, <2>3
<1>10. ASSUME NEW c \in Slots,
             \/ StopBegins(c) \/ StopsStarting(c) \/ StopEnds(c) \/ Releases(c) \/ Joins(c) \/ PutsBack(c)
      PROVE  i \in (known \cup unheard)' \/ \E d \in Slots : Has(d, i)'
  <2>1. handler[c].id \in known
    BY <1>10, <1>c DEF StopBegins, StopsStarting, StopEnds, Releases, Joins, PutsBack, At, CallMatches, Reaches, Methods
  <2>2. OthersStay(c)
    BY <1>10 DEF StopBegins, StopsStarting, StopEnds, Releases, Joins, PutsBack, Ends, Goes
  <2>3. state'[i] = state[i]
    BY <1>10, <2>1
    DEF StopBegins, StopsStarting, StopEnds, Releases, Joins, PutsBack, Reaps, Enters, SetState, ToolsTypeOK
  <2> QED
    BY <1>o, <2>1, <2>2, <2>3 DEF Has
<1>11. ASSUME NEW j \in Ids, Expires(j) \/ ReapEnds(j) \/ Collected(j)
      PROVE  i \in (known \cup unheard)' \/ \E d \in Slots : Has(d, i)'
  <2>1. j \in known \/ Collected(j)
    BY <1>11 DEF Expires, Reaps, ReapEnds, PoolsMatch
  <2>2. state[i] \in Busy
    BY <1>11, <2>1 DEF Expires, Reaps, ReapEnds, Collected, SetState, ToolsTypeOK
  <2>3. UNCHANGED handler
    BY <1>11 DEF Expires, ReapEnds, Collected
  <2> QED
    BY <2>2, <2>3 DEF Has, SomeoneHasIt
<1>12. CASE Listing \/ Nothing
  BY <1>12 DEF Listing, Nothing, Quietly, Has, SomeoneHasIt
<1> QED
  BY <1>1, <1>2, <1>3, <1>4, <1>5, <1>6, <1>7, <1>8, <1>9, <1>10, <1>11, <1>12 DEF AnyStep

(* At the start there are no calls and no runtimes.                        *)
LEMMA ToolsStart == ToolsInit => ToolsIInv
<1> SUFFICES ASSUME ToolsInit PROVE ToolsIInv
  OBVIOUS
<1>1. ToolsTypeOK
  BY NoRecords DEF ToolsInit, ToolsTypeOK, States, ActiveStates
<1>2. ASSUME NEW c \in Slots
      PROVE  /\ handler[c] = NoHandler /\ handler[c].pc = "none" /\ handler[c].method = None
             /\ handler[c].id = NoId /\ handler[c].code = None
             /\ tool[c].pc = "idle" /\ tool[c].name = None /\ tool[c].id = NoId
  BY NoHandlerFields, NoToolFields DEF ToolsInit
<1>3. CallsMatch
  BY <1>2 DEF CallsMatch, CallMatches, None
<1>4. OwnRuntimes /\ OneAtATime /\ Untouched
  BY <1>2 DEF OwnRuntimes, OwnRuntime, Launches, OneAtATime, Untouched, None
<1>5. StatesMatch
  BY <1>2, NoIdIsNone DEF StatesMatch, StateMatches
<1>9. PoolsMatch
  BY DEF ToolsInit, PoolsMatch, PoolMatches
<1>6. IdsAreBorn
  BY <1>2, NoIdIsNone DEF IdsAreBorn, ToolsInit
<1>7. ToldHolds
  BY <1>2 DEF ToldHolds, TellsTrue, Told
<1>8. SomeoneHasIt
  BY DEF SomeoneHasIt, ToolsInit
<1> QED
  BY <1>1, <1>3, <1>4, <1>5, <1>6, <1>7, <1>8, <1>9 DEF ToolsIInv

(* The tools: what the calls under way, the states and the answers told    *)
(* have to do with each other holds at every moment (runtime.ts,           *)
(* operation.ts, registry.ts).                                             *)
THEOREM ToolsInductive == ToolsSpec => []ToolsIInv
<1>1. ASSUME ToolsIInv, [ToolsNext]_toolsVars PROVE ToolsIInv'
  <2>1. ToolsTypeOK' /\ AnyStep
    BY <1>1, ToolStep DEF ToolsIInv
  <2>2. CallsMatch'
    BY <1>1, <2>1, CallsKept DEF ToolsIInv
  <2>3. OwnRuntimes'
    BY <1>1, <2>1, <2>2, OwnersKept DEF ToolsIInv
  <2>4. /\ known \subseteq known' /\ unheard \subseteq unheard' /\ twice \subseteq twice'
        /\ (pooled \cup reaping \cup twice)' \subseteq known'
    BY <1>1, <2>1, KnownKept DEF ToolsIInv
  <2>5. \A j \in Ids \ twice' : Moves(j) /\ Lasts(j) /\ PoolMatches(j)'
    <3> TAKE j \in Ids \ twice'
    <3>1. Moves(j)
      BY <1>1, <2>1, <2>4, Moved DEF ToolsIInv
    <3> QED
      BY <1>1, <2>4, <3>1, Lasting DEF ToolsIInv, PoolsMatch
  <2>6. PoolsMatch'
    BY <2>4, <2>5 DEF PoolsMatch
  <2>7. OneAtATime' /\ IdsAreBorn'
    BY <1>1, <2>1, <2>4, OneKept, BornKept DEF ToolsIInv
  <2>8. StatesMatch' /\ Untouched'
    BY <1>1, <2>1, <2>4, <2>5, StatesKept, UntouchedKept DEF ToolsIInv
  <2>9. ToldHolds' /\ SomeoneHasIt'
    BY <1>1, <2>1, <2>4, <2>5, ToldKept, SomeoneKept DEF ToolsIInv
  <2> QED
    BY <2>1, <2>2, <2>3, <2>6, <2>7, <2>8, <2>9 DEF ToolsIInv
<1> QED
  BY <1>1, ToolsStart, PTL DEF ToolsSpec

(* The records of the calls and of the registry are what the handlers      *)
(* read, for any number of agents and runtimes.                            *)
THEOREM ToolsAreTyped == ToolsSpec => []ToolsTypeOK
  BY ToolsInductive, PTL DEF ToolsIInv

(* Every answer of a tool is true when it is given and stays so until the  *)
(* agent has it, whatever the other agents do to the same runtime, with    *)
(* the pool tools of the debug profile or without; only of a runtime that  *)
(* pool_acquire made be launched twice nothing is said of the state        *)
(* (runtime.ts, operation.ts, pool.ts).                                    *)
THEOREM ToolsAnswerTruly == ToolsSpec => []AnswersHoldTrue
<1>1. ToolsIInv => AnswersHoldTrue
  <2> SUFFICES ASSUME ToolsIInv, NEW c \in Slots
               PROVE  LET i == tool[c].id IN
                      /\ Told(c, "plugin_launch", "success") => i \in known
                      /\ Told(c, "plugin_launch", "RUNTIME_QUOTA_EXCEEDED") => i = NoId
                      /\ i \notin twice =>
                           /\ Told(c, "plugin_launch", "success") => state[i] \in Ran
                           /\ Told(c, "plugin_stop", "success") => state[i] \in Ran \ {"READY", "STOPPING"}
                           /\ Told(c, "operation_cancel", "success") => state[i] \in {"RELEASED", "DELETED"}
                           /\ Told(c, "plugin_launch", "RUNTIME_CRASHED") => state[i] = "CRASHED"
    BY DEF AnswersHoldTrue
  <2>1. PICK i \in Ids \cup {NoId} : tool[c].id = i
    BY DEF ToolsIInv, ToolsTypeOK, ToolRecords
  <2>2. /\ Told(c, "plugin_launch", "success") \/ Told(c, "plugin_stop", "success")
             \/ Told(c, "operation_cancel", "success") \/ Told(c, "plugin_launch", "RUNTIME_CRASHED") => i \in Ids
        /\ Told(c, "plugin_launch", "success") => i \in known
        /\ Told(c, "plugin_launch", "RUNTIME_QUOTA_EXCEEDED") => i = NoId
    BY <2>1 DEF ToolsIInv, ToldHolds, TellsTrue, Told
  <2>3. i \in Ids \ twice =>
          /\ Told(c, "plugin_launch", "success") => Up(i)
          /\ Told(c, "plugin_stop", "success") => Over(i)
          /\ Told(c, "operation_cancel", "success") => Over(i) /\ state[i] # "STOPPED"
          /\ Told(c, "plugin_launch", "RUNTIME_CRASHED") => state[i] = "CRASHED"
    BY <2>1 DEF ToolsIInv, ToldHolds, TellsTrue
  <2> QED
    BY <2>1, <2>2, <2>3 DEF Up, Over, Ran
<1> QED
  BY <1>1, ToolsInductive, PTL

(* A runtime that no call is about, that holds the quota and that nobody   *)
(* has been told of was never READY, or its launch was given up (runtime.ts, *)
(* scenario.ts).                                                           *)
THEOREM NoneMislaid == ToolsSpec => []NoneIsMislaid
<1>1. ToolsIInv => NoneIsMislaid
  <2> SUFFICES ASSUME ToolsIInv, NEW i \in Ids \ (known \cup unheard), AtRest(i), state[i] \in ActiveStates
               PROVE  state[i] \in {"CREATED", "CRASHED"}
    BY DEF NoneIsMislaid
  <2>1. ~ \E c \in Slots : Has(c, i)
    BY DEF AtRest, Has
  <2> QED
    BY <2>1 DEF ToolsIInv, SomeoneHasIt, ActiveStates
<1> QED
  BY <1>1, ToolsInductive, PTL
=============================================================================
