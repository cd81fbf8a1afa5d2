-------------------------------- MODULE Serve --------------------------------
(***************************************************************************)
(* `serve': the launcher that starts a Supervisor, waits until the control *)
(* file names it, starts the MCP server, and takes both down again, on top *)
(* of the line between the two (SupervisorIpc).                            *)
(*                                                                         *)
(* A session has a control directory of its own, unless it is given one    *)
(* that is shared; then the other Supervisors are those of other sessions. *)
(***************************************************************************)
EXTENDS SupervisorIpc

VARIABLES
  shared,     \* the control directory is another session's too
  own,        \* the Supervisor that this launcher has started
  launcher,   \* where runServe is
  mcp,        \* where the MCP server's process is
  term        \* the launcher has sent SIGTERM to its Supervisor

session == <<shared, own>>
parents == <<launcher, mcp, term>>
serveVars == <<vars, session, parents>>

McpRuns == mcp \in {"up", "draining", "drained", "stopping"}

\* Every variable has its type.
ServeTypeOK ==
  /\ TypeOK
  /\ shared \in BOOLEAN
  /\ own \in Supervisors
  /\ launcher \in {"waiting", "serving", "closing", "failed", "killed", "returned"}
  /\ mcp \in {"unborn", "up", "draining", "drained", "stopping", "gone"}
  /\ term \in BOOLEAN

\* runServe has spawned its Supervisor and waits for the control file.
ServeInit ==
  /\ Init
  /\ shared \in BOOLEAN
  /\ own \in Supervisors
  /\ shared \/ own = 1
  /\ launcher = "waiting"
  /\ mcp = "unborn"
  /\ term = FALSE

(***************************************************************************)
(* The launcher.                                                           *)
(***************************************************************************)
\* Mutant: any control file will do.
WaitForAnyFile ==
  /\ launcher = "waiting"
  /\ file \in Supervisors
  /\ launcher' = "serving"
  /\ mcp' = "up"
  /\ UNCHANGED <<term, session, vars>>

\* Mutant: the MCP server is started beside the Supervisor.
WaitForNothing ==
  /\ launcher = "waiting"
  /\ launcher' = "serving"
  /\ mcp' = "up"
  /\ UNCHANGED <<term, session, vars>>

\* waitForControlFile finds its Supervisor's pid, and the MCP server is started
\* in the same stretch.  The Supervisor may have ended since it wrote the file;
\* its exit is noticed only if it is reported after this.
WaitForControlFile ==
  /\ launcher = "waiting"
  /\ file = own
  /\ launcher' = "serving"
  /\ \/ mcp' = "up"
     \/ sup[own] = "gone" /\ mcp' = "stopping"
  /\ UNCHANGED <<term, session, vars>>

\* The time is up, though the Supervisor may have ended long before.
WaitTimeout ==
  /\ launcher = "waiting"
  /\ launcher' = "failed"
  /\ term' = TRUE
  /\ UNCHANGED <<mcp, session, vars>>

\* SIGINT or SIGTERM: the handlers are installed with the MCP server.
Interrupt ==
  /\ \/ launcher = "waiting" /\ launcher' = "killed" /\ UNCHANGED mcp
     \/ launcher = "serving" /\ McpRuns /\ mcp' = "stopping" /\ UNCHANGED launcher
  /\ UNCHANGED <<term, session, vars>>

\* The MCP server has exited: its Supervisor is told to end.
McpExited ==
  /\ launcher = "serving"
  /\ mcp = "gone"
  /\ launcher' = "closing"
  /\ term' = TRUE
  /\ UNCHANGED <<mcp, session, vars>>

\* Mutant: runServe waits for the Supervisor's exit, however long it takes.
ReturnInTime ==
  /\ launcher = "closing"
  /\ sup[own] = "gone"
  /\ launcher' = "returned"
  /\ UNCHANGED <<mcp, term, session, vars>>

\* Its exit, or SIGKILL after ten seconds.
ReturnFromServe ==
  /\ launcher = "closing"
  /\ launcher' = "returned"
  /\ IF sup[own] = "gone" THEN UNCHANGED vars ELSE Ended(own) /\ UNCHANGED file
  /\ UNCHANGED <<mcp, term, session>>

(***************************************************************************)
(* The MCP server's process.                                               *)
(***************************************************************************)
Waiting == {c \in Calls : call[c] \in {"looking", "linking", "pending"}}

\* stdin has ended: what is under way is waited for, and so is the lookup, which
\* is begun if no tool has asked for it.  Messages that were read before may
\* still be queued, and their tools called later.
StdinEnd ==
  /\ mcp = "up"
  /\ mcp' = "draining"
  /\ lookup' = IF lookup = Unasked THEN Reading ELSE lookup
  /\ UNCHANGED <<launcher, term, session, link, call, supervisors, server>>

\* No call is pending, or five seconds are over: the client's socket is closed.
\* A connection that is still being made is not, and a later call makes another.
DrainEnd ==
  /\ mcp = "draining"
  /\ lookup # Reading
  /\ mcp' = "drained"
  /\ IF link = "up"
     THEN HangUp /\ UNCHANGED <<lookup, executed, supervisors>>
     ELSE UNCHANGED vars
  /\ UNCHANGED <<launcher, term, session>>

\* The process is gone, and its end of the line.
McpGone ==
  /\ mcp' = "gone"
  /\ link' = "down"
  /\ call' = [c \in Calls |-> IF c \in Waiting THEN "unavailable" ELSE call[c]]
  /\ open' = FALSE
  /\ serve' = [c \in Calls |->
                 IF serve[c] \in {"answered", "refused"} THEN "none" ELSE serve[c]]
  /\ lost' = lost \cup {c \in Calls : serve[c] \in {"sent", "running"}}
  /\ UNCHANGED <<lookup, executed, supervisors, launcher, term, session>>

\* process.exit after SIGTERM, or nothing is left that holds the process.
McpExit ==
  /\ \/ mcp = "stopping"
     \/ mcp = "drained" /\ link = "down" /\ Waiting = {}
  /\ McpGone

McpCrash == McpRuns /\ McpGone

(***************************************************************************)
(* The Supervisors and the line.                                           *)
(***************************************************************************)
\* The Supervisor ends before it listens: a registry that cannot be read, no
\* socket, a signal.
FailToStart(s) ==
  /\ s = own
  /\ sup[s] = "unborn"
  /\ Ended(s)
  /\ UNCHANGED file

\* The launcher's listener for its Supervisor's exit.
Watched ==
  /\ mcp' = IF launcher = "serving" /\ McpRuns /\ sup[own] # "gone" /\ sup'[own] = "gone"
            THEN "stopping" ELSE mcp
  /\ UNCHANGED <<launcher, term, session>>

SupervisorStep(s) ==
  /\ s = own \/ shared
  /\ Supervisor(s) \/ FailToStart(s)
  /\ Watched

Ending(s) == Shutdown(s) \/ Crash(s) \/ FailToStart(s)

LineStep ==
  /\ \/ \E c \in Calls : McpRuns /\ Call(c)
     \/ \E c \in Calls : McpRuns /\ Settle(c)
     \/ McpRuns /\ (LookupEnd \/ Connected \/ ConnectFails \/ Closed \/ Overflow)
     \/ \E c \in Calls : Forget(c) \/ Handler(c)
  /\ UNCHANGED <<session, parents>>

Launcher == WaitForControlFile \/ WaitTimeout \/ McpExited \/ ReturnFromServe
McpProcess == StdinEnd \/ DrainEnd \/ McpExit \/ McpCrash

ServeNext ==
  \/ Launcher \/ Interrupt \/ McpProcess \/ LineStep
  \/ \E s \in Supervisors : SupervisorStep(s)

\* The steps of the MCP server's event loop; its processes stay as they are.
Looked == McpRuns /\ LookupEnd /\ UNCHANGED <<session, parents>>
Dialled == McpRuns /\ (Connected \/ ConnectFails) /\ UNCHANGED <<session, parents>>
Noticed == McpRuns /\ Closed /\ UNCHANGED <<session, parents>>
Settling(c) == McpRuns /\ Settle(c) /\ UNCHANGED <<session, parents>>
Signalled == term /\ Ending(own) /\ Watched

\* The event loops of the launcher and of the MCP server run; a signal that was
\* sent arrives.  A Supervisor may hang while it shuts down.
ServeSpec ==
  /\ ServeInit /\ [][ServeNext]_serveVars
  /\ WF_serveVars(Launcher)
  /\ WF_serveVars(DrainEnd)
  /\ WF_serveVars(McpExit)
  /\ WF_serveVars(Signalled)
  /\ WF_serveVars(Looked)
  /\ WF_serveVars(Dialled)
  /\ WF_serveVars(Noticed)
  /\ \A c \in Calls : WF_serveVars(Settling(c))

(***************************************************************************)
(* What the session promises.                                              *)
(***************************************************************************)
\* The MCP server runs only once the session's own Supervisor serves, whoever
\* else writes the control file; and so its only lookup, whose answer it keeps,
\* finds nobody in a directory of its own only when that Supervisor is ending
\* (runServe, waitForControlFile, connectSupervisor).
StartedInOrder ==
  /\ McpRuns => sup[own] \in {"serving", "closing", "gone"}
  /\ ~shared /\ lookup = Absent => sup[own] \in {"closing", "gone"}

\* The launcher returns after the MCP server has ended, however it ended, and
\* leaves no Supervisor of its own behind, even one that hangs (runServe).
SessionEnds == mcp = "gone" ~> launcher = "returned" /\ sup[own] = "gone"

\* The comment in runServe: a Supervisor that dies unexpectedly takes the MCP
\* server with it.
DeathEndsMcp == launcher = "serving" /\ sup[own] = "gone" ~> mcp = "gone"

\* What makes it inductive: what the control file says of the Supervisors.
FileTells ==
  /\ file \in Supervisors => sup[file] \in {"serving", "closing", "gone"}
  /\ ~shared /\ file = Absent => sup[own] \in {"unborn", "listening", "gone"}
  /\ ~shared /\ file = Torn => sup[own] \in {"publishing", "gone"}

ServeIInv == ServeTypeOK /\ LineInv /\ FileTells /\ StartedInOrder
=============================================================================
