----------------------------- MODULE Dialogue ------------------------------
(***************************************************************************)
(* One session from the agent's first reaction to the closed session: the  *)
(* LiteLLM tool-calling agent and a benchmark's session take turns, the    *)
(* controllers may stop them, and what came of it is scored, recorded and  *)
(* shown.  Nothing here runs at the same time as anything else; what is    *)
(* hard is the number of ways in which a dialogue may end.                 *)
(***************************************************************************)
EXTENDS BenchmarkSessions, ToolCallingAgent

CONSTANTS MaxSteps, MaxActions   \* limits of a session

ASSUME LimitsAssumption == MaxSteps \in Nat \ {0} /\ MaxActions \in Nat \ {0}

VARIABLES
  at,        \* where run_session is
  steps,     \* LimitController._counts
  acts,
  error,     \* error the session ended with, or "none"
  limited,   \* the score says limit_reached
  success,   \* of the recorded score
  finished,  \* is_finished of the recorded score
  status     \* status in results.json, or "none"

control == <<at, steps, acts>>
record  == <<error, limited, success, finished, status>>
dialogueVars == <<bench, agent, control, record>>

DialogueInit ==
  /\ BenchInit /\ AgentInit
  /\ at = "react" /\ steps = 0 /\ acts = 0
  /\ error = "none" /\ limited = FALSE /\ success = FALSE
  /\ finished = FALSE /\ status = "none"

-----------------------------------------------------------------------------
(* The loop of run_session                                                 *)

\* The session is done, and the loop ends.
LoopEnds ==
  /\ at = "react" /\ over
  /\ at' = "score"
  /\ UNCHANGED <<bench, agent, steps, acts, record>>

\* react() returns no action: the core controller ends the session.
NoAction ==
  /\ at = "react" /\ ~over
  /\ \/ GivesUp
     \/ Asks(observation, <<>>)
  /\ at' = "score"
  /\ UNCHANGED <<bench, steps, acts, record>>

\* react() returns an action, which the limit controller counts.
React ==
  /\ at = "react" /\ ~over
  /\ \E reply \in Replies \ {<<>>} : Asks(observation, reply)
  /\ at' = "step"
  /\ steps' = steps + 1 /\ acts' = acts + Len(action')
  /\ UNCHANGED <<bench, record>>

\* error_source and the status an error is recorded with.
Fail(e) ==
  /\ error' = e
  /\ status' = IF e = "cancelled" THEN "cancelled" ELSE "error"
  /\ UNCHANGED <<limited, success, finished>>

ReactFails ==
  /\ at = "react" /\ ~over
  /\ CompletionFails(observation)
  /\ Fail("agent") /\ at' = "close"
  /\ UNCHANGED <<bench, steps, acts>>

LimitReached == steps >= MaxSteps \/ acts >= MaxActions

\* The limit controller looks before the core controller, and before the loop
\* asks the session whether it is done.
Step ==
  /\ at = "step"
  /\ BenchStep(action)
  /\ at' = CASE observation' = None                  -> "score"
             [] observation' # None /\ LimitReached  -> "limit"
             [] observation' # None /\ ~LimitReached -> "react"
  /\ UNCHANGED <<agent, steps, acts, record>>

\* Only the agent is closed, and nothing of the session is written.
StepFails ==
  /\ at = "step"
  /\ Fail("benchmark") /\ at' = "closed"
  /\ UNCHANGED <<bench, agent, steps, acts>>

Interrupt ==
  /\ at \in {"react", "step"}
  /\ Fail("cancelled") /\ at' = "close"
  /\ UNCHANGED <<bench, agent, steps, acts>>

-----------------------------------------------------------------------------
(* Scoring, recording and closing                                          *)

\* ResultsObserver._resolve_session_status for a session that has a score.
StatusOf(g, isFinished, isLimited) ==
  CASE isLimited                               -> "limit_reached"
    [] ~isLimited /\ kind = "bfcl" /\ g = "failed" -> "error"
    [] ~isLimited /\ ~(kind = "bfcl" /\ g = "failed") /\ ~isFinished -> "unfinished"
    [] OTHER -> IF g = "right" THEN "success" ELSE "unsuccessful"

Record(g, isFinished) ==
  /\ success' = (g = "right")
  /\ finished' = isFinished
  /\ limited' = (at = "limit")
  /\ status' = StatusOf(g, isFinished, at = "limit")
  /\ UNCHANGED error

ScoreAndRecord ==
  /\ at \in {"score", "limit"}
  /\ \E g \in Grades \ {"raised"} :
       /\ Score(g)
       /\ \E f \in IF at = "limit" THEN {FALSE} ELSE Finishes(g) : Record(g, f)
  /\ at' = "close"
  /\ UNCHANGED <<agent, steps, acts>>

\* The judge's exception leaves run_session: nothing is recorded or closed.
ScoreRaises ==
  /\ at \in {"score", "limit"} /\ Raises
  /\ at' = "raised"
  /\ UNCHANGED <<bench, agent, steps, acts, record>>

Close ==
  /\ at = "close"
  /\ \E g \in Grades : CloseSession(g)
  /\ at' = "closed"
  /\ UNCHANGED <<agent, steps, acts, record>>

CloseRaises ==
  /\ at = "close" /\ Raises
  /\ at' = "raised"
  /\ UNCHANGED <<bench, agent, steps, acts, record>>

DialogueNext == \/ LoopEnds \/ NoAction \/ React \/ ReactFails
        \/ Step \/ StepFails \/ Interrupt
        \/ ScoreAndRecord \/ ScoreRaises \/ Close \/ CloseRaises

DialogueSpec == DialogueInit /\ [][DialogueNext]_dialogueVars

-----------------------------------------------------------------------------
(* Properties                                                              *)

DialogueTypeOK ==
  /\ kind \in Benchmarks /\ over \in BOOLEAN
  /\ answer \in {"none", "right", "wrong", "given"}
  /\ executed \in Nat /\ turn \in 1 .. LastTurn
  /\ grade \in {"none", "right", "wrong", "failed"} /\ saved \in {"none", "right", "wrong"}
  /\ observation \in Seq(Nat)
  /\ chat \in Seq(Messages)
  /\ reacts \in Nat /\ action \in Replies
  /\ at \in {"react", "step", "score", "limit", "close", "closed", "raised"}
  /\ steps \in Nat /\ acts \in Nat
  /\ error \in {"none", "agent", "benchmark", "cancelled"}
  /\ limited \in BOOLEAN /\ success \in BOOLEAN /\ finished \in BOOLEAN
  /\ status \in {"none", "success", "unsuccessful", "unfinished", "limit_reached", "error", "cancelled"}

\* The calls nobody answers: a call named message, whose answer is said by the
\* user; bad arguments of SWE-bench's actions; a silent tool of HotpotQA; and a
\* finish action of BFCL that another one of the same message follows.
LeftOpen(calls, i) ==
  \/ calls[i].name = "message"
  \/ kind = "swebench" /\ calls[i].name \in Handlers /\ ~calls[i].valid
  \/ kind = "hotpotqa" /\ calls[i].name = "tool" /\ calls[i].valid
  \/ kind = "bfcl" /\ IsFinish(calls[i]) /\ \E j \in DOMAIN calls : j > i /\ IsFinish(calls[j])

\* The chat the model is asked with holds exactly one tool message for every
\* tool call of the assistant messages before, and at most one for the calls
\* that are left open: "every tool_call_id in the assistant message has a
\* matching tool response" (bfcl_eval.py:203).  It takes the handlers, the
\* merging of observations and the agent's _observe together.
CallsAreAnswered ==
  \A t \in 1 .. Len(chat) - 1 : \A i \in DOMAIN chat[t].calls :
     \/ chat[t].answers[i] = 1
     \/ chat[t].answers[i] = 0 /\ LeftOpen(chat[t].calls, i)

Recorded == status # "none" /\ error = "none"

\* is_finished says whether the agent submitted: a session that timed out, ran
\* into a limit or fell silent is not finished, and one that submitted is,
\* unless the step that submitted also reached a limit, BFCL's checker failed or
\* AppWorld's world was closed by its evaluation.
FinishIsHonest ==
  Recorded => /\ finished => answer # "none"
              /\ answer # "none" => finished \/ limited \/ kind = "appworld" \/ grade = "failed"

\* The score the benchmark writes when the session is closed, which the run's
\* aggregate is computed from, is the score that was recorded, unless a judge was
\* asked twice: BrowseComp's always, HLE's if it failed the first time.
SavedAsRecorded ==
  at = "closed" /\ Recorded =>
    \/ saved = IF success THEN "right" ELSE "wrong"
    \/ answer # "none" /\ kind = "browsecomp"
    \/ answer # "none" /\ kind = "hle" /\ ~success
=============================================================================
