------------------------------- MODULE CliAgent -------------------------------
(* An agent that is a command-line program (Claude Code, Codex, Gemini): the  *)
(* agent thread starts an MCP server for the tools, a LiteLLM proxy for the   *)
(* model and the program, and waits for it; the session thread answers the    *)
(* tool calls and closes the instance when the session is over.  Both threads *)
(* close: the session's close(), the finally clause of run_mcp_agent and the  *)
(* agent thread's own close() meet on the same three attributes, without a    *)
(* lock.  A tool call runs on the server's thread and blocks it.              *)
(*                                                                            *)
(* agents/cli/base.py, agents/cli/command_runner.py,                          *)
(* adapters/agents/mcp_agent.py, adapters/agents/mcp_server.py,               *)
(* integrations/litellm/proxy.py                                              *)
EXTENDS Naturals

CONSTANTS
  MaxCalls,        \* bound: tool calls answered in the session
  MaxModelCalls    \* bound: model calls of the program

ASSUME CallsAssumption == MaxCalls \in Nat /\ MaxModelCalls \in Nat

VARIABLES
  pc,          \* where the session's and the agent's thread are
  cliRef,      \* self._cli is set
  proxyRef,    \* self._proxy is set
  serverRef,   \* self._mcp_server is set
  cli,         \* the program's process
  proxy,       \* the proxy's process
  server,      \* the thread of the MCP server
  shouldExit,  \* uvicorn's should_exit
  call,        \* the tool call on the server's thread
  calls,       \* tool calls answered
  closed,      \* AgentCoordinator._closed
  failed,      \* an exception is leaving run_mcp_agent or run()
  unready,     \* the startup of the server or of the proxy failed
  asked,       \* model calls that were answered
  rows,        \* those with a row in the proxy's trace file
  ended,       \* what ended the session
  cost         \* rows the recorded cost of the session counts

refs  == <<cliRef, proxyRef, serverRef>>
procs == <<cli, proxy, server, shouldExit>>
tools == <<call, calls, closed>>
trace == <<asked, rows>>
notes == <<failed, unready, trace>>
end   == <<ended, cost>>
vars  == <<pc, refs, procs, tools, notes, end>>

Threads == {"session", "agent"}

Init ==
  /\ pc = [session |-> "run", agent |-> "start"]
  /\ cliRef = FALSE /\ proxyRef = FALSE /\ serverRef = FALSE
  /\ cli = "none" /\ proxy = "none" /\ server = "none" /\ shouldExit = FALSE
  /\ call = "none" /\ calls = 0 /\ closed = FALSE
  /\ failed = FALSE /\ unready = FALSE /\ asked = 0 /\ rows = 0
  /\ ended = "no" /\ cost = 0

GoTo(t, l) == pc' = [pc EXCEPT ![t] = l]

\* terminate(), or kill(), and wait for a process.
Kill(p) == IF p \in {"up", "ready"} THEN "dead" ELSE p

\* An exception out of close(): the session's thread has left the instance, and
\* the agent's thread dies of it.
OutOfClose(t) == IF t = "session" THEN "done" ELSE "dead"

------------------------------------------------------------------------------
(* close(), on either thread.                                               *)

\* if self._cli is not None
TestCli(t) ==
  /\ pc[t] = "testCli"
  /\ GoTo(t, IF cliRef THEN "closeCli" ELSE "testProxy")
  /\ UNCHANGED <<refs, procs, tools, notes, end>>

\* self._cli.close(): the attribute is read again.
CloseCli(t) ==
  /\ pc[t] = "closeCli"
  /\ IF cliRef
       THEN cli' = Kill(cli) /\ GoTo(t, "dropCli")
       ELSE UNCHANGED cli /\ GoTo(t, OutOfClose(t))
  /\ UNCHANGED <<refs, proxy, server, shouldExit, tools, notes, end>>

DropCli(t) ==
  /\ pc[t] = "dropCli"
  /\ cliRef' = FALSE
  /\ GoTo(t, "testProxy")
  /\ UNCHANGED <<proxyRef, serverRef, procs, tools, notes, end>>

TestProxy(t) ==
  /\ pc[t] = "testProxy"
  /\ GoTo(t, IF proxyRef THEN "closeProxy" ELSE "drain")
  /\ UNCHANGED <<refs, procs, tools, notes, end>>

CloseProxy(t) ==
  /\ pc[t] = "closeProxy"
  /\ IF proxyRef
       THEN proxy' = Kill(proxy) /\ GoTo(t, "dropProxy")
       ELSE UNCHANGED proxy /\ GoTo(t, OutOfClose(t))
  /\ UNCHANGED <<refs, cli, server, shouldExit, tools, notes, end>>

DropProxy(t) ==
  /\ pc[t] = "dropProxy"
  /\ proxyRef' = FALSE
  /\ GoTo(t, "drain")
  /\ UNCHANGED <<cliRef, serverRef, procs, tools, notes, end>>

\* The first half of MCPServer.stop(): nobody to tell before the server is built.
TellServer ==
  /\ shouldExit' = (shouldExit \/ (serverRef /\ server \in {"serving", "ended"}))
  /\ UNCHANGED <<cli, proxy, server>>

\* _drain_server(): stop() without an exception when the join times out.
Drain(t) ==
  /\ pc[t] = "drain"
  /\ TellServer
  /\ GoTo(t, IF serverRef THEN "drainJoin" ELSE "coordinator")
  /\ UNCHANGED <<refs, tools, notes, end>>

\* Mutant of JoinOrTimeout: the thread is polled until it has ended.
JoinOnly(t, from, to) ==
  /\ pc[t] = from
  /\ IF server \in {"none", "ended"} THEN GoTo(t, to) ELSE UNCHANGED pc
  /\ UNCHANGED <<refs, procs, tools, notes, end>>

\* join(timeout=60): the server's thread has ended, or time is up.
JoinOrTimeout(t, from, to) ==
  /\ pc[t] = from
  /\ GoTo(t, to)
  /\ UNCHANGED <<refs, procs, tools, notes, end>>

DrainJoin(t) == JoinOrTimeout(t, "drainJoin", "coordinator")

\* AgentCoordinator.close(): a waiting call wakes up; the session's thread joins
\* the agent's.
CloseCoordinator(t) ==
  /\ pc[t] = "coordinator"
  /\ closed' = TRUE
  /\ GoTo(t, IF t = "session" THEN "joinAgent" ELSE "stop")
  /\ UNCHANGED <<refs, procs, call, calls, notes, end>>

JoinAgent ==
  /\ pc["session"] = "joinAgent" /\ pc["agent"] = "dead"
  /\ GoTo("session", "stop")
  /\ UNCHANGED <<refs, procs, tools, notes, end>>

\* MCPAgentInstance.close(): the server is stopped once more.
Stop(t) ==
  /\ pc[t] = "stop"
  /\ TellServer
  /\ GoTo(t, IF serverRef THEN "stopJoin" ELSE OutOfClose(t))
  /\ UNCHANGED <<refs, tools, notes, end>>

StopJoin(t) == JoinOrTimeout(t, "stopJoin", OutOfClose(t))

CloseStep(t) ==
  \/ TestCli(t) \/ CloseCli(t) \/ DropCli(t)
  \/ TestProxy(t) \/ CloseProxy(t) \/ DropProxy(t)
  \/ Drain(t) \/ DrainJoin(t) \/ CloseCoordinator(t)
  \/ Stop(t) \/ StopJoin(t)

------------------------------------------------------------------------------
(* The session's thread.                                                    *)

\* react() returns an action, of a tool call that waits for its answer or of the
\* finish tool, which does not wait; the session steps.
TakesAction ==
  /\ pc["session"] = "run" /\ ~closed
  /\ call = "waiting" \/ (cli = "up" /\ server = "serving" /\ ~shouldExit)
  /\ GoTo("session", "step")
  /\ UNCHANGED <<refs, procs, tools, notes, end>>

\* The observation is published, and wakes the call.
AnswerCall ==
  /\ pc["session"] = "step" /\ ~closed /\ calls < MaxCalls
  /\ call' = "none" /\ calls' = calls + 1
  /\ GoTo("session", "run")
  /\ UNCHANGED <<refs, procs, closed, notes, end>>

\* The session is over: its results are recorded, with the cost the trace file
\* shows at that moment if the agent is asked for it, and the instance is closed
\* after that.
EndSession(why, amount) ==
  /\ ended' = why /\ cost' = amount
  /\ GoTo("session", "testCli")
  /\ UNCHANGED <<refs, procs, tools, notes>>

\* A limit or the end of the task, found by the step; or the step raises, and the
\* session is recorded without its agent: at no cost.
EndsAtCall == pc["session"] = "step" /\ \E amount \in {rows, 0} : EndSession("call", amount)

\* react() waits for an action and returns None: the agent's thread has closed.
EndsAtAgent == pc["session"] = "run" /\ closed /\ EndSession("agent", rows)

\* react() raises: it is called after the agent's thread has closed, or finds the
\* exception that thread died of.  on_session_error records without the agent.
ReactRaises ==
  /\ closed
  /\ pc["session"] = "step" \/ (pc["session"] = "run" /\ failed)
  /\ EndSession("error", 0)

\* Ctrl-C in the loop.
Interrupted == pc["session"] \in {"run", "step"} /\ EndSession("interrupt", 0)

------------------------------------------------------------------------------
(* The agent's thread.                                                      *)

\* run_code_agent: MCPServer.__init__, then start() up to the thread.
StartServer ==
  /\ pc["agent"] = "start"
  /\ serverRef' = TRUE /\ server' = "starting"
  /\ GoTo("agent", "waitServer")
  /\ UNCHANGED <<cliRef, proxyRef, cli, proxy, shouldExit, tools, notes, end>>

\* get_observation() returns None after close(): run() goes on all the same; a
\* tool that cannot be built, or a socket that cannot be bound, raises.
SetupFails ==
  /\ pc["agent"] = "start"
  /\ failed' = TRUE
  /\ GoTo("agent", "finish")
  /\ UNCHANGED <<refs, procs, tools, unready, trace, end>>

ServerReady ==
  /\ pc["agent"] = "waitServer" /\ server = "serving"
  /\ GoTo("agent", "makeProxy")
  /\ UNCHANGED <<refs, procs, tools, notes, end>>

\* No thread, no port or no ping in time: stop() and raise.
ServerUnready ==
  /\ pc["agent"] = "waitServer"
  /\ unready' = TRUE /\ failed' = TRUE
  /\ GoTo("agent", "exit")
  /\ UNCHANGED <<refs, procs, tools, trace, end>>

\* self._proxy = proxy, before start().
MakeProxy ==
  /\ pc["agent"] = "makeProxy"
  /\ proxyRef' = TRUE
  /\ GoTo("agent", "spawnProxy")
  /\ UNCHANGED <<cliRef, serverRef, procs, tools, notes, end>>

SpawnProxy ==
  /\ pc["agent"] = "spawnProxy"
  /\ proxy' = "up"
  /\ GoTo("agent", "waitProxy")
  /\ UNCHANGED <<refs, cli, server, shouldExit, tools, notes, end>>

ProxyReady ==
  /\ pc["agent"] = "waitProxy" /\ proxy = "up"
  /\ proxy' = "ready"
  /\ GoTo("agent", "buildCli")
  /\ UNCHANGED <<refs, cli, server, shouldExit, tools, notes, end>>

\* start() raises: exited early, or not ready within the timeout.  This is
\* before the try block whose finally clause closes the proxy.
ProxyUnready ==
  /\ pc["agent"] = "waitProxy"
  /\ unready' = TRUE /\ failed' = TRUE
  /\ GoTo("agent", "exit")
  /\ UNCHANGED <<refs, procs, tools, trace, end>>

BuildCli ==
  /\ pc["agent"] = "buildCli"
  /\ cliRef' = TRUE
  /\ GoTo("agent", "spawnCli")
  /\ UNCHANGED <<proxyRef, serverRef, procs, tools, notes, end>>

SpawnCli ==
  /\ pc["agent"] = "spawnCli"
  /\ \/ cli' = "up" /\ GoTo("agent", "communicate") /\ UNCHANGED failed
     \/ failed' = TRUE /\ GoTo("agent", "testCliAfter") /\ UNCHANGED cli
  /\ UNCHANGED <<refs, proxy, server, shouldExit, tools, unready, trace, end>>

\* Mutant of Communicate: a time limit, at which the end is announced before the
\* program is closed.
CommunicateTimesOut ==
  /\ pc["agent"] = "communicate"
  /\ failed' = TRUE /\ closed' = TRUE
  /\ GoTo("agent", "testCliAfter")
  /\ UNCHANGED <<refs, procs, call, calls, unready, trace, end>>

\* communicate() returns when the program has ended, with its exit code.
Communicate ==
  /\ pc["agent"] = "communicate" /\ cli = "dead"
  /\ failed' \in BOOLEAN
  /\ GoTo("agent", "testCliAfter")
  /\ UNCHANGED <<refs, procs, tools, unready, trace, end>>

\* The finally clause: if self._cli is not None, self._cli.close().
TestCliAfter ==
  /\ pc["agent"] = "testCliAfter"
  /\ GoTo("agent", IF cliRef THEN "closeCliAfter" ELSE "closeProxyAfter")
  /\ UNCHANGED <<refs, procs, tools, notes, end>>

CloseCliAfter ==
  /\ pc["agent"] = "closeCliAfter"
  /\ IF cliRef
       THEN /\ cli' = Kill(cli) /\ UNCHANGED failed
            /\ GoTo("agent", "dropCliAfter")
       ELSE failed' = TRUE /\ GoTo("agent", "exit") /\ UNCHANGED cli
  /\ UNCHANGED <<refs, proxy, server, shouldExit, tools, unready, trace, end>>

DropCliAfter ==
  /\ pc["agent"] = "dropCliAfter"
  /\ cliRef' = FALSE
  /\ GoTo("agent", "closeProxyAfter")
  /\ UNCHANGED <<proxyRef, serverRef, procs, tools, notes, end>>

\* Mutant of CloseProxyAfter: the attribute is closed, if it is still set.
CloseProxyRefAfter ==
  /\ pc["agent"] = "closeProxyAfter"
  /\ proxy' = (IF proxyRef THEN Kill(proxy) ELSE proxy)
  /\ GoTo("agent", "dropProxyAfter")
  /\ UNCHANGED <<refs, cli, server, shouldExit, tools, notes, end>>

\* proxy.close(), through the local variable.
CloseProxyAfter ==
  /\ pc["agent"] = "closeProxyAfter"
  /\ proxy' = Kill(proxy)
  /\ GoTo("agent", "dropProxyAfter")
  /\ UNCHANGED <<refs, cli, server, shouldExit, tools, notes, end>>

DropProxyAfter ==
  /\ pc["agent"] = "dropProxyAfter"
  /\ proxyRef' = FALSE
  /\ GoTo("agent", "drainAfter")
  /\ UNCHANGED <<cliRef, serverRef, procs, tools, notes, end>>

DrainAfter ==
  /\ pc["agent"] = "drainAfter"
  /\ TellServer
  /\ GoTo("agent", "drainJoinAfter")
  /\ UNCHANGED <<refs, tools, notes, end>>

DrainJoinAfter == JoinOrTimeout("agent", "drainJoinAfter", "exit")

\* MCPServer.__exit__, or the except clause of start().
ExitServer ==
  /\ pc["agent"] = "exit"
  /\ TellServer
  /\ GoTo("agent", "exitJoin")
  /\ UNCHANGED <<refs, tools, notes, end>>

\* A server that has not ended in time is an error of its own.
ExitJoin ==
  /\ pc["agent"] = "exitJoin"
  /\ failed' = (failed \/ server \notin {"none", "ended"})
  /\ GoTo("agent", "finish")
  /\ UNCHANGED <<refs, procs, tools, unready, trace, end>>

\* execute(None), or the except clause of _run_internal_agent; the thread then
\* closes the instance itself.
Finish ==
  /\ pc["agent"] = "finish"
  /\ closed' = TRUE
  /\ GoTo("agent", "testCli")
  /\ UNCHANGED <<refs, procs, call, calls, notes, end>>

AgentStep ==
  \/ StartServer \/ ServerReady \/ MakeProxy \/ SpawnProxy \/ ProxyReady
  \/ BuildCli \/ SpawnCli \/ Communicate
  \/ TestCliAfter \/ CloseCliAfter \/ DropCliAfter
  \/ CloseProxyAfter \/ DropProxyAfter \/ DrainAfter \/ DrainJoinAfter
  \/ ExitServer \/ ExitJoin \/ Finish
  \/ CloseStep("agent")

------------------------------------------------------------------------------
(* The server's thread and the program.                                     *)

\* _thread_entry builds the server and runs it.
ServerBuilt ==
  /\ server = "starting"
  /\ server' = "serving"
  /\ UNCHANGED <<pc, refs, cli, proxy, shouldExit, tools, notes, end>>

\* A thread that waits in execute() for an answer does not look at should_exit.
ServerExits ==
  /\ server = "serving" /\ shouldExit /\ call = "none"
  /\ server' = "ended"
  /\ UNCHANGED <<pc, refs, cli, proxy, shouldExit, tools, notes, end>>

\* execute() returns None, or raises, once the coordinator is closed.
CallAborted ==
  /\ call = "waiting" /\ closed
  /\ call' = "none"
  /\ UNCHANGED <<pc, refs, procs, calls, closed, notes, end>>

\* The program asks the model, through the proxy, and has its answer.
ModelCall ==
  /\ cli = "up" /\ proxy = "ready" /\ asked < MaxModelCalls
  /\ asked' = asked + 1
  /\ UNCHANGED <<pc, refs, procs, tools, failed, unready, rows, end>>

\* A callback of the proxy writes the row of a call, after the answer: a proxy that
\* ends before leaves the call without one.
WriteRow ==
  /\ proxy = "ready" /\ rows < asked
  /\ rows' = rows + 1
  /\ UNCHANGED <<pc, refs, procs, tools, failed, unready, asked, end>>

\* The program calls a tool: execute(action).
ToolCall ==
  /\ cli = "up" /\ server = "serving" /\ ~shouldExit
  /\ call = "none" /\ ~closed
  /\ call' = "waiting"
  /\ UNCHANGED <<pc, refs, procs, calls, closed, notes, end>>

\* The program or the proxy ends or dies by itself.
CliEnds ==
  /\ cli = "up"
  /\ cli' = "dead"
  /\ UNCHANGED <<pc, refs, proxy, server, shouldExit, tools, notes, end>>

ProxyDies ==
  /\ proxy \in {"up", "ready"}
  /\ proxy' = "dead"
  /\ UNCHANGED <<pc, refs, cli, server, shouldExit, tools, notes, end>>

Terminated == pc["session"] = "done" /\ pc["agent"] = "dead" /\ UNCHANGED vars

Next ==
  \/ CloseStep("session") \/ JoinAgent
  \/ TakesAction \/ AnswerCall \/ EndsAtCall \/ EndsAtAgent \/ ReactRaises \/ Interrupted
  \/ AgentStep \/ SetupFails \/ ServerUnready \/ ProxyUnready
  \/ ServerBuilt \/ ServerExits \/ CallAborted
  \/ ModelCall \/ WriteRow \/ ToolCall \/ CliEnds \/ ProxyDies
  \/ Terminated

Spec == Init /\ [][Next]_vars

\* Threads run; the waits for the server and the proxy are bounded; a session takes
\* a call that waits, answers it or ends over it, and ends when its agent has; a
\* program whose calls are answered ends (its turns are limited).
Fairness ==
  /\ WF_vars(CloseStep("session")) /\ WF_vars(JoinAgent)
  /\ WF_vars(call = "waiting" /\ TakesAction)
  /\ WF_vars(AnswerCall \/ EndsAtCall \/ ReactRaises) /\ WF_vars(EndsAtAgent \/ ReactRaises)
  /\ WF_vars(AgentStep \/ ServerUnready \/ ProxyUnready)
  /\ WF_vars(ServerBuilt) /\ WF_vars(ServerExits) /\ WF_vars(CallAborted)
  /\ WF_vars(call = "none" /\ CliEnds)

FairSpec == Spec /\ Fairness

------------------------------------------------------------------------------
(* Properties.                                                              *)

Places == {"run", "step", "testCli", "closeCli", "dropCli", "testProxy", "closeProxy",
           "dropProxy", "drain", "drainJoin", "coordinator", "joinAgent", "stop",
           "stopJoin", "done", "start", "waitServer", "makeProxy", "spawnProxy",
           "waitProxy", "buildCli", "spawnCli", "communicate", "testCliAfter",
           "closeCliAfter", "dropCliAfter", "closeProxyAfter", "dropProxyAfter",
           "drainAfter", "drainJoinAfter", "exit", "exitJoin", "finish", "dead"}

TypeOK ==
  /\ pc \in [Threads -> Places]
  /\ cliRef \in BOOLEAN /\ proxyRef \in BOOLEAN /\ serverRef \in BOOLEAN
  /\ cli \in {"none", "up", "dead"} /\ proxy \in {"none", "up", "ready", "dead"}
  /\ server \in {"none", "starting", "serving", "ended"} /\ shouldExit \in BOOLEAN
  /\ call \in {"none", "waiting"} /\ calls \in 0..MaxCalls /\ closed \in BOOLEAN
  /\ failed \in BOOLEAN /\ unready \in BOOLEAN 
  /\ asked \in 0..MaxModelCalls /\ rows \in 0..asked
  /\ ended \in {"no", "call", "agent", "error", "interrupt"} /\ cost \in 0..MaxModelCalls

Over == pc["session"] = "done" /\ pc["agent"] = "dead"

\* Whichever thread closes what, and although an attribute can be gone between
\* the test and the call: when both threads are through, the program has ended,
\* and the server has been told to and the proxy is gone, unless the startup of
\* one had failed (the proxy is started outside the try block and a server is
\* told to end only once it is built: an interrupted session leaves them behind).
NothingLeftRunning ==
  Over => /\ cli # "up"
          /\ \/ proxy \in {"none", "dead"} /\ (server = "serving" => shouldExit)
             \/ unready

\* When react() returned None because the agent's thread was through, the cost
\* recorded for the session counts every row that is ever in the trace, although
\* the rows are written behind the answers and by another process: the program and
\* the proxy are gone by then.  (What the proxy had not written when it was closed
\* is nowhere; a session that ends over a tool call records what the trace holds
\* while the program is still running.)
CostIsFinal == ended = "agent" => cost = rows

\* However the session ends, close() returns and the agent's thread ends:
\* although the server waits for a call, the call for the coordinator's close,
\* and close() first for the server.
Released == <>Over
=============================================================================
