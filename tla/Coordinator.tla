----------------------------- MODULE Coordinator -----------------------------
(***************************************************************************)
(* AgentCoordinator (adapters/agents/coordinator.py) with the agents that  *)
(* run inside it (code_agent.py, mcp_agent.py): one condition variable     *)
(* shared by the environment thread (react, close), the internal agent     *)
(* thread (_run_internal_agent: get_observation, run_code_agent,           *)
(* execute(None), close) and the threads of the agent's tool calls         *)
(* (execute, _submit_finish_action).                                       *)
(*                                                                         *)
(* Everything a method does between two waits happens under the condition's*)
(* lock, so each action below is one such stretch.  A thread in            *)
(* Condition.wait is in asleep until a notify_all (or, in the accumulate   *)
(* window, a timeout) takes it out; then it re-evaluates its loop.         *)
(***************************************************************************)
EXTENDS CoordinatorObservations

CONSTANTS
  Executors,          \* threads of the agent that call tools
  MaxCalls,           \* tool calls a thread makes at most (bound)
  MaxSteps,           \* session.step calls at most (the run's max_steps)
  Window,             \* is accumulate_window_seconds set?
  FinishNowait,       \* MCP agents: is_finish tools go through _submit_finish_action
  CallsOutliveRun     \* may run_code_agent raise with tool calls still in flight?

ASSUME CoordinatorAssumption ==
  /\ MaxCalls \in Nat \ {0}
  /\ MaxSteps \in Nat \ {0}
  /\ {Window, FinishNowait, CallsOutliveRun} \subseteq BOOLEAN

VARIABLES
  \* AgentCoordinator's fields
  turn, currentObservation, agentSeenTurn, pendingActions, lastActions,
  closed, agentError,
  \* the condition variable
  asleep,
  \* the environment thread (run_session): control, the observation it is
  \* about to deliver, the actions react returned, the steps made, the outcome
  envPc, envObs, stepActions, steps, outcome,
  \* the internal agent thread
  mainPc,
  \* the tool-call threads: control, current action and turn, calls made
  exPc, exTurn, calls,
  \* history: was an action ever queued out of turn?
  late,
  \* history: the actions the environment was given, in order, and the
  \* answers execute() returned
  executed, answers

fields == <<turn, currentObservation, agentSeenTurn, pendingActions,
            lastActions, closed, agentError>>
envVars == <<envPc, envObs, stepActions, steps, outcome>>
exVars  == <<exPc, exTurn, calls, late>>
vars == <<fields, asleep, envVars, mainPc, exVars, executed, answers>>

Env  == "env"
Main == "main"
NoObs == <<>>
NoneAction == <<"none", 0>>

Actions == Executors \X (1..MaxCalls)
\* The action a tool-call thread is working on: its calls[e]-th.
CurrentAction(e) == <<e, calls[e]>>

HasNone(acts) == NoneAction \in Elems(acts)

Init ==
  /\ turn = 0 /\ agentSeenTurn = -1
  /\ currentObservation = NoObs
  /\ pendingActions = <<>> /\ lastActions = <<>>
  /\ closed = FALSE /\ agentError = FALSE
  /\ asleep = {}
  /\ envPc = "start" /\ stepActions = <<>> /\ steps = 0
  /\ envObs = <<[inv |-> {}, ans |-> {}]>>
  /\ outcome = "running"
  /\ mainPc = "none"
  /\ exPc = [e \in Executors |-> "idle"]
  /\ exTurn = [e \in Executors |-> 0]
  /\ calls = [e \in Executors |-> 0] /\ late = FALSE
  /\ executed = <<>> /\ answers = {}

------------------------------------------------------------------------------
(* The environment thread.                                                 *)

\* start(): spawn the internal agent thread.
Start ==
  /\ envPc = "start"
  /\ envPc' = "ready" /\ mainPc' = "setup"
  /\ UNCHANGED <<fields, asleep, envObs, stepActions, steps, outcome, exVars,
                 executed, answers>>

\* The environment leaves the session loop with outcome o and calls close().
Leave(o) == envPc' = "close" /\ outcome' = o

\* react returns what _flush_actions and _remember_actions make of the
\* pending actions; None makes the session loop end as the agent's decision.
FlushActions(acts) ==
  /\ pendingActions' = <<>>
  /\ IF acts = <<>> \/ HasNone(acts)
       THEN /\ lastActions' = <<>>
            /\ closed' = (closed \/ HasNone(acts))
            /\ stepActions' = <<>>
            /\ executed' = executed
            /\ Leave("agent_done")
       ELSE /\ lastActions' = acts
            /\ closed' = closed
            /\ stepActions' = acts
            /\ executed' = executed \o acts
            /\ envPc' = "step" /\ outcome' = outcome

\* react(observation) on a coordinator that already failed or closed raises.
ReactRaise ==
  /\ envPc = "ready"
  /\ agentError \/ closed
  /\ Leave("agent_error")
  /\ UNCHANGED <<fields, asleep, envObs, stepActions, steps, mainPc, exVars,
                 executed, answers>>

\* Mutant of PublishedObservation: the field is read before it is assigned.
PublishedObservationStale == IF turn = 0 THEN envObs ELSE currentObservation

\* _publish_observation: what the agent will see.
PublishedObservation ==
  IF lastActions = <<>> THEN envObs ELSE RewireObservation(envObs, lastActions)

\* react(observation): publish, then wait for the agent's actions.  When some
\* are pending already (a late tool call) and there is no window, they are
\* flushed before the lock is released.
React ==
  /\ envPc = "ready" /\ ~agentError /\ ~closed
  /\ currentObservation' = PublishedObservation
  /\ turn' = turn + 1
  /\ \/ /\ pendingActions = <<>>
        /\ envPc' = "wait" /\ lastActions' = <<>>
        /\ asleep' = {Env}
        /\ UNCHANGED <<pendingActions, closed, stepActions, executed, outcome>>
     \/ /\ pendingActions # <<>> /\ Window
        /\ envPc' = "window" /\ lastActions' = <<>>
        /\ asleep' = {Env}
        /\ UNCHANGED <<pendingActions, closed, stepActions, executed, outcome>>
     \/ /\ pendingActions # <<>> /\ ~Window
        /\ asleep' = {}
        /\ FlushActions(pendingActions)
  /\ UNCHANGED <<agentSeenTurn, agentError, envObs, steps, mainPc, exVars,
                 answers>>

\* _wait_for_pending_actions re-evaluated after a wake-up.
WaitForPendingActions ==
  /\ envPc = "wait" /\ Env \notin asleep
  /\ \/ /\ ~closed /\ pendingActions = <<>>
        /\ asleep' = asleep \cup {Env}
        /\ UNCHANGED <<fields, envVars, executed>>
     \/ /\ agentError
        /\ Leave("agent_error")
        /\ UNCHANGED <<fields, asleep, envObs, stepActions, steps, executed>>
     \/ /\ closed /\ ~agentError
        /\ Leave("agent_done")
        /\ UNCHANGED <<fields, asleep, envObs, stepActions, steps, executed>>
     \/ /\ ~closed /\ ~agentError /\ pendingActions # <<>>
        /\ IF Window
             THEN /\ envPc' = "window" /\ asleep' = asleep \cup {Env}
                  /\ UNCHANGED <<pendingActions, lastActions, closed,
                                 stepActions, executed, outcome>>
             ELSE /\ FlushActions(pendingActions)
                  /\ UNCHANGED asleep
        /\ UNCHANGED <<turn, currentObservation, agentSeenTurn, agentError,
                       envObs, steps>>
  /\ UNCHANGED <<mainPc, exVars, answers>>

\* _accumulate_pending_actions: the loop goes back to sleep after a
\* notification while the window is open and nobody signalled the end ...
AccumulateMore ==
  /\ envPc = "window" /\ Env \notin asleep
  /\ ~closed /\ ~HasNone(pendingActions)
  /\ asleep' = asleep \cup {Env}
  /\ UNCHANGED <<fields, envVars, mainPc, exVars, executed, answers>>

\* ... and react flushes when it closes (deadline, None or close()).
AccumulateEnd ==
  /\ envPc = "window"
  /\ asleep' = asleep \ {Env}
  /\ FlushActions(pendingActions)
  /\ UNCHANGED <<turn, currentObservation, agentSeenTurn, agentError, envObs,
                 steps, mainPc, exVars, answers>>

\* What session.step may answer to the actions: one part for all of them, a
\* part for each in order, or a part for each in another order, named.
Results(acts) ==
  LET n == Len(acts)
  IN  { <<[inv |-> {}, ans |-> Elems(acts)]>>,
        [i \in 1..n |-> [inv |-> {}, ans |-> {acts[i]}]],
        [i \in 1..n |-> [inv |-> {acts[n+1-i]}, ans |-> {acts[n+1-i]}]] }

\* session.step(action) returns an observation and the loop goes on, unless
\* the session is done, a limit is reached or the step fails.
Step ==
  /\ envPc = "step"
  /\ steps' = steps + 1
  /\ \/ /\ steps + 1 < MaxSteps
        /\ envObs' \in Results(stepActions)
        /\ envPc' = "ready" /\ outcome' = outcome
     \/ /\ Leave("env_done") /\ envObs' = NoObs
  /\ stepActions' = <<>>
  /\ UNCHANGED <<fields, asleep, mainPc, exVars, executed, answers>>

\* Ctrl-C in the environment thread, wherever it is in the session loop.
Interrupt ==
  /\ envPc \in {"ready", "wait", "window", "step"}
  /\ Leave("interrupted")
  /\ asleep' = asleep \ {Env}
  /\ UNCHANGED <<fields, envObs, stepActions, steps, mainPc, exVars, executed,
                 answers>>

\* Mutant of CloseFields: notify() for notify_all(), which wakes the agent thread.
CloseFieldsNotifyOne ==
  /\ closed' = TRUE
  /\ IF closed
       THEN UNCHANGED <<turn, currentObservation, pendingActions, asleep>>
       ELSE /\ turn' = turn + 1 /\ currentObservation' = NoObs
            /\ pendingActions' = <<>> /\ asleep' = asleep \ {Main}

\* The locked part of close(), whichever thread calls it.
CloseFields ==
  /\ closed' = TRUE
  /\ IF closed
       THEN UNCHANGED <<turn, currentObservation, pendingActions, asleep>>
       ELSE /\ turn' = turn + 1 /\ currentObservation' = NoObs
            /\ pendingActions' = <<>> /\ asleep' = {}

\* close() by the environment: then join the agent thread.
Close ==
  /\ envPc = "close"
  /\ CloseFields
  /\ envPc' = "join"
  /\ UNCHANGED <<agentSeenTurn, lastActions, agentError, envObs, stepActions,
                 steps, outcome, mainPc, exVars, executed, answers>>

Join ==
  /\ envPc = "join" /\ mainPc = "dead"
  /\ envPc' = "done"
  /\ UNCHANGED <<fields, asleep, envObs, stepActions, steps, outcome, mainPc,
                 exVars, executed, answers>>

------------------------------------------------------------------------------
(* The internal agent thread.                                              *)

\* get_observation(): the first observation, or None when closed.
GetObservation ==
  /\ mainPc \in {"setup", "getObs"} /\ Main \notin asleep
  /\ \/ /\ ~closed /\ (turn <= agentSeenTurn \/ currentObservation = NoObs)
        /\ asleep' = asleep \cup {Main}
        /\ mainPc' = "getObs" /\ UNCHANGED agentSeenTurn
     \/ /\ ~closed /\ turn > agentSeenTurn /\ currentObservation # NoObs
        /\ agentSeenTurn' = turn
        /\ mainPc' = "run" /\ UNCHANGED asleep
     \/ /\ closed
        /\ mainPc' = "run" /\ UNCHANGED <<agentSeenTurn, asleep>>
  /\ UNCHANGED <<turn, currentObservation, pendingActions, lastActions, closed,
                 agentError, envVars, exVars, executed, answers>>

InFlight == {e \in Executors : exPc[e] # "idle"}

\* run_code_agent returns, or raises; then the finally clause runs.
RunReturns ==
  /\ mainPc = "run" /\ InFlight = {}
  /\ mainPc' = "finally"
  /\ UNCHANGED <<fields, asleep, envVars, exVars, executed, answers>>

RunRaises ==
  /\ mainPc = "run" /\ (InFlight = {} \/ CallsOutliveRun)
  /\ mainPc' = "finallyRaising"
  /\ UNCHANGED <<fields, asleep, envVars, exVars, executed, answers>>

\* run() raises before its try block (building the tool functions).
SetupRaises ==
  /\ mainPc = "setup"
  /\ mainPc' = "crashed"
  /\ UNCHANGED <<fields, asleep, envVars, exVars, executed, answers>>

\* Mutant of ExecuteNone: the end is recorded but nobody is notified.
ExecuteNoneSilently ==
  /\ mainPc \in {"finally", "finallyRaising"}
  /\ mainPc' = (IF mainPc = "finally" THEN "closing" ELSE "crashed")
  /\ closed' = TRUE
  /\ IF closed THEN UNCHANGED pendingActions
               ELSE pendingActions' = Append(pendingActions, NoneAction)
  /\ UNCHANGED <<turn, currentObservation, agentSeenTurn, lastActions, asleep,
                 agentError, envVars, exVars, executed, answers>>

\* execute(None) in the finally clause.
ExecuteNone ==
  /\ mainPc \in {"finally", "finallyRaising"}
  /\ mainPc' = (IF mainPc = "finally" THEN "closing" ELSE "crashed")
  /\ IF closed
       THEN UNCHANGED <<pendingActions, closed, asleep>>
       ELSE /\ pendingActions' = Append(pendingActions, NoneAction)
            /\ closed' = TRUE
            /\ asleep' = {}
  /\ UNCHANGED <<turn, currentObservation, agentSeenTurn, lastActions,
                 agentError, envVars, exVars, executed, answers>>

\* The except clause of _run_internal_agent.
RecordCrash ==
  /\ mainPc = "crashed"
  /\ agentError' = TRUE /\ closed' = TRUE
  /\ turn' = turn + 1 /\ currentObservation' = NoObs
  /\ pendingActions' = <<>> /\ asleep' = {}
  /\ mainPc' = "closing"
  /\ UNCHANGED <<agentSeenTurn, lastActions, envVars, exVars, executed, answers>>

\* close() by the agent thread itself, which does not join.
MainClose ==
  /\ mainPc = "closing"
  /\ CloseFields
  /\ mainPc' = "dead"
  /\ UNCHANGED <<agentSeenTurn, lastActions, agentError, envVars, exVars,
                 executed, answers>>

------------------------------------------------------------------------------
(* The tool-call threads.                                                  *)

\* Tools can be called while run_code_agent runs.
CanCall(e) == mainPc = "run" /\ exPc[e] = "idle" /\ calls[e] < MaxCalls

\* An action is queued out of turn when react() is not waiting for actions, or
\* when a call of an earlier turn has yet to wake up.
OutOfTurn ==
  \/ envPc \notin {"wait", "window"}
  \/ \E e \in Executors : exPc[e] = "wait" /\ exTurn[e] # turn

\* execute(action): publish the action and wait for the turn to change, or
\* raise when the coordinator is closed.
Execute(e) ==
  /\ CanCall(e)
  /\ calls' = [calls EXCEPT ![e] = @ + 1]
  /\ IF closed
       THEN UNCHANGED <<pendingActions, asleep, exPc, exTurn, late>>
       ELSE /\ pendingActions' = Append(pendingActions, <<e, calls[e] + 1>>)
            /\ late' = (late \/ OutOfTurn)
            /\ exPc' = [exPc EXCEPT ![e] = "wait"]
            /\ exTurn' = [exTurn EXCEPT ![e] = turn]
            /\ asleep' = {e}
  /\ UNCHANGED <<turn, currentObservation, agentSeenTurn, lastActions, closed,
                 agentError, envVars, mainPc, executed, answers>>

\* Mutant of SubmitFinishAction: the finish action overtakes the queue.
SubmitFinishActionFirst(e) ==
  /\ FinishNowait /\ CanCall(e) /\ ~closed
  /\ calls' = [calls EXCEPT ![e] = @ + 1]
  /\ pendingActions' = <<<<e, calls[e] + 1>>>> \o pendingActions
  /\ asleep' = {}
  /\ UNCHANGED <<turn, currentObservation, agentSeenTurn, lastActions, closed,
                 agentError, envVars, mainPc, exPc, exTurn, late, executed, answers>>

\* _submit_finish_action(action): publish without waiting.
SubmitFinishAction(e) ==
  /\ FinishNowait /\ CanCall(e)
  /\ calls' = [calls EXCEPT ![e] = @ + 1]
  /\ IF closed
       THEN UNCHANGED <<pendingActions, asleep, late>>
       ELSE /\ pendingActions' = Append(pendingActions, <<e, calls[e] + 1>>)
            /\ late' = (late \/ OutOfTurn)
            /\ asleep' = {}
  /\ UNCHANGED <<turn, currentObservation, agentSeenTurn, lastActions, closed,
                 agentError, envVars, mainPc, exPc, exTurn, executed, answers>>

\* What a tool call reads off the current observation: got, the actions the
\* selected parts answer, and whether its own action was answered there at all.
Reported(parts) == UNION {p.ans : p \in parts}
Answer(e) ==
  [act       |-> CurrentAction(e),
   got       |-> Reported(SelectObservation(CurrentAction(e), currentObservation)),
   available |-> CurrentAction(e) \in Reported(Elems(currentObservation))]

\* A waiting execute() wakes up: back to sleep, None (closed), or an answer.
\* An error of the agent is raised to the caller, who gets no answer either.
ExecuteWakes(e) ==
  /\ exPc[e] = "wait" /\ e \notin asleep
  /\ \/ /\ ~closed /\ turn = exTurn[e]
        /\ asleep' = asleep \cup {e}
        /\ UNCHANGED <<agentSeenTurn, exPc, answers>>
     \/ /\ closed
        /\ exPc' = [exPc EXCEPT ![e] = "idle"]
        /\ UNCHANGED <<agentSeenTurn, asleep, answers>>
     \/ /\ ~closed /\ turn # exTurn[e]
        /\ agentSeenTurn' = turn
        /\ exPc' = [exPc EXCEPT ![e] = "idle"]
        /\ answers' = answers \cup {Answer(e)}
        /\ UNCHANGED asleep
  /\ UNCHANGED <<turn, currentObservation, pendingActions, lastActions, closed,
                 agentError, envVars, mainPc, exTurn, calls, late, executed>>

------------------------------------------------------------------------------
EnvStep  == \/ Start \/ ReactRaise \/ React \/ WaitForPendingActions
            \/ AccumulateMore \/ AccumulateEnd \/ Step \/ Close \/ Join
MainStep == \/ GetObservation \/ RunReturns \/ ExecuteNone \/ RecordCrash
            \/ MainClose

\* Both threads have ended; what becomes of the tool-call threads CallsReturn says.
Terminated ==
  /\ envPc = "done"
  /\ UNCHANGED vars

Next ==
  \/ EnvStep \/ Interrupt
  \/ MainStep \/ SetupRaises \/ RunRaises
  \/ \E e \in Executors : Execute(e) \/ SubmitFinishAction(e) \/ ExecuteWakes(e)
  \/ Terminated

Spec == Init /\ [][Next]_vars

\* The scheduler runs every thread that can run; session.step returns, and
\* run_code_agent does once its tool calls have; the accumulate window expires.
\* Nothing makes run_code_agent raise while a call of its tools is waiting.
Fairness ==
  /\ WF_vars(EnvStep) /\ WF_vars(MainStep)
  /\ \A e \in Executors : WF_vars(ExecuteWakes(e))

FairSpec == Spec /\ Fairness

------------------------------------------------------------------------------
(* Properties.                                                             *)

Part == [inv : SUBSET Actions, ans : SUBSET Actions]
Outcomes == {"running", "agent_done", "agent_error", "env_done", "interrupted"}

\* Every variable keeps its type: the fields hold what coordinator.py stores.
TypeOK ==
  /\ turn \in Nat /\ agentSeenTurn \in Int
  /\ currentObservation \in Seq(Part) /\ envObs \in Seq(Part)
  /\ pendingActions \in Seq(Actions \cup {NoneAction})
  /\ lastActions \in Seq(Actions) /\ stepActions \in Seq(Actions)
  /\ closed \in BOOLEAN /\ agentError \in BOOLEAN
  /\ asleep \subseteq Executors \cup {Env, Main}
  /\ envPc \in {"start", "ready", "wait", "window", "step", "close", "join", "done"}
  /\ steps \in 0..MaxSteps /\ outcome \in Outcomes
  /\ mainPc \in {"none", "setup", "getObs", "run", "finally", "finallyRaising",
                 "crashed", "closing", "dead"}
  /\ exPc \in [Executors -> {"idle", "wait"}]
  /\ exTurn \in [Executors -> Nat] /\ calls \in [Executors -> 0..MaxCalls]
  /\ executed \in Seq(Actions)
  /\ late \in BOOLEAN
  /\ answers \subseteq [act : Actions, got : SUBSET Actions, available : BOOLEAN]

\* "When the AgentCordinator receives the coressponding observation, it places
\* it in the result future" (code_agent.py:28-29): the observation execute()
\* returns for an action reports the effect of that action.
AnswersCorrespond == \A r \in answers : r.act \in r.got

\* It does as long as the calls come in rounds, made while react() waits for
\* the agent and all answered before the next round: of several tool calls in a
\* round each gets the part that answers it, however the benchmark orders and
\* groups its answers.
RoundsAreAnswered == late \/ AnswersCorrespond

\* Rewiring and selection never hide an answer: a tool call that wakes while
\* the observation reporting its action is the current one gets it.
SelectionKeepsAnswer == \A r \in answers : r.available => r.act \in r.got

\* The benchmark is given the calls of each tool-call thread in the order made,
\* none of them twice, and never again while it is still queued, whatever the
\* interleaving of flushes and late calls.
InOrder(acts) ==
  \A i, j \in DOMAIN acts :
    (/\ i < j /\ acts[i] # NoneAction /\ acts[j] # NoneAction
     /\ acts[i][1] = acts[j][1])
    => acts[i][2] < acts[j][2]
GivenInOrder == InOrder(executed \o pendingActions)

\* The session ends as the agent's decision (and is scored) only when the
\* agent's run is over: never because react() woke up without an action.
DoneMeansEnded ==
  outcome = "agent_done" => mainPc \in {"crashed", "closing", "dead"}

\* Once closed, by either side, no further action reaches the benchmark.
NothingGivenAfterClose == [][closed => executed' = executed]_vars

\* A crash of the agent's code is reported as an error: react() raises
\* (test_api_errors.py test_agent_exception_marks_error expects ERROR).
CrashIsReported == agentError => outcome # "agent_done"

\* Every execute() call returns, whatever ends the session: no notification
\* is lost.
CallsReturn == \A e \in Executors : exPc[e] = "wait" ~> exPc[e] = "idle"

\* The environment gets out of react() and of the join in close().
SessionEnds == <>(envPc = "done")
=============================================================================
