--------------------------- MODULE EvaluationRun ---------------------------
(***************************************************************************)
(* One evaluation (core_run) over the sessions its plan says to run: the   *)
(* main thread hands sessions to workers, every worker runs the session    *)
(* loop, and all of them share the tracker, that is the limit controller   *)
(* and the list of results.  An exception that leaves _run_task_with_lock  *)
(* is an outcome the main thread collects; serial execution (one worker)   *)
(* retries the transient ones.  The session directory and its lock are the *)
(* subject of SessionExecution; here a session is at most found locked.    *)
(***************************************************************************)
EXTENDS Naturals, Sequences, FiniteSets

CONSTANTS Sessions,     \* the sessions to run
          Workers,      \* the values of max_workers
          MaxSteps,     \* limits of one session
          MaxActions,
          BatchSizes,   \* the numbers of single actions in one action
          MaxRetries    \* _MAX_SESSION_RETRIES

ASSUME SessionsAssumption == IsFiniteSet(Sessions)
ASSUME LimitsAssumption == MaxSteps \in Nat \ {0} /\ MaxActions \in Nat \ {0}
ASSUME WorkersAssumption == Workers \subseteq Nat \ {0}
ASSUME BatchAssumption == BatchSizes \subseteq Nat
ASSUME RetriesAssumption == MaxRetries \in Nat

VARIABLES
  maxWorkers,
  main,       \* what the thread of core_run is doing
  hadError,   \* had_error of execute_sessions
  runState,   \* Tracker._run_state
  summary,    \* the listed entries when the run's results were computed
  listed,     \* per session, its entries in ResultsObserver._session_results
  file,       \* status in the session's results.json
  pc,         \* where the session is
  attempt,    \* number of retries
  taken,      \* steps of this attempt
  steps,      \* LimitController._counts
  acts,
  cause,      \* what ended the session loop
  open,       \* what the attempt has opened and not closed
  outcome     \* how the task of the session ended

run  == <<maxWorkers, main, hadError, runState, summary>>
book == <<listed, file>>
loop == <<taken, steps, acts>>
vars == <<run, book, loop, pc, attempt, cause, open, outcome>>

Serial == maxWorkers = 1
Parts  == {"session", "agent"}

\* What can end the session loop, and the status recorded for it.
Reasons == {"finished", "limit", "agent_error", "bench_error", "session_cancel",
            "run_cancel"}
Status == [finished |-> "scored", limit |-> "limit_reached",
           agent_error |-> "error", bench_error |-> "error",
           session_cancel |-> "cancelled", run_cancel |-> "cancelled"]
Recorded == {"scored", "limit_reached", "error", "cancelled"}
Rerun    == {"none", "error", "cancelled"}   \* not COMPLETED when sampled

InFlight == {s \in Sessions : pc[s] \notin {"pending", "collected", "dropped"}}
Idle(s)  == pc[s] \in {"pending", "returned", "collected", "dropped"}

Init ==
  /\ maxWorkers \in Workers
  /\ main = "executing" /\ hadError = FALSE
  /\ runState = "none"
  /\ listed = [s \in Sessions |-> <<>>] /\ summary = listed
  /\ file = [s \in Sessions |-> "none"]
  /\ pc = [s \in Sessions |-> "pending"]
  /\ attempt = [s \in Sessions |-> 0]
  /\ taken = [s \in Sessions |-> 0]
  /\ steps = [s \in Sessions |-> 0]
  /\ acts = [s \in Sessions |-> 0]
  /\ cause = [s \in Sessions |-> "none"]
  /\ open = [s \in Sessions |-> {}]
  /\ outcome = [s \in Sessions |-> "none"]

GoTo(s, l) == pc' = [pc EXCEPT ![s] = l]

\* The task of s ends with result o.
Return(s, o) ==
  /\ GoTo(s, "returned")
  /\ outcome' = [outcome EXCEPT ![s] = o]

\* An exception no handler catches leaves the task; in serial execution its
\* message decides whether _is_transient_error recognises it.
Fail(s) == Return(s, "error") \/ (Serial /\ Return(s, "transient"))

\* The session loop of s ends for reason c and goes on at l.
EndLoop(s, c, l) ==
  /\ cause' = [cause EXCEPT ![s] = c]
  /\ GoTo(s, l)

------------------------------------------------------------------------------
(* _run_task_with_lock and the start of run_session.                        *)

SkipLocked(s) ==
  /\ pc[s] = "submitted"
  /\ cause' = [cause EXCEPT ![s] = "skipped"]
  /\ Return(s, "ok")
  /\ UNCHANGED <<run, book, loop, attempt, open>>

\* A retry finds the results that its failed attempt had already recorded.
Reuse(s) ==
  /\ pc[s] = "submitted" /\ file[s] \notin Rerun
  /\ listed' = [listed EXCEPT ![s] = Append(@, file[s])]
  /\ cause' = [cause EXCEPT ![s] = "reused"]
  /\ Return(s, "ok")
  /\ UNCHANGED <<run, file, loop, attempt, open>>

\* _cleanup_session_dir, then a fresh benchmark, agent and session.
Begin(s) ==
  /\ pc[s] = "submitted" /\ file[s] \in Rerun
  /\ file' = [file EXCEPT ![s] = "none"]
  /\ taken' = [taken EXCEPT ![s] = 0]
  /\ cause' = [cause EXCEPT ![s] = "none"]
  /\ open' = [open EXCEPT ![s] = {}]
  /\ GoTo(s, "starting")
  /\ UNCHANGED <<run, listed, steps, acts, attempt, outcome>>

\* get_instance, session.start, agent_instance.start, on_session_start.
Start(s) ==
  /\ pc[s] = "starting"
  /\ \/ /\ open' = [open EXCEPT ![s] = Parts]
        /\ GoTo(s, "loop") /\ UNCHANGED outcome
     \/ /\ \E made \in {{}, {"session"}, Parts} : open' = [open EXCEPT ![s] = made]
        /\ Fail(s)
  /\ UNCHANGED <<run, book, loop, attempt, cause>>

------------------------------------------------------------------------------
(* The loop of run_session.                                                 *)

\* session.done() at the head of the loop, or start returned no observation.
LoopEnds(s) ==
  /\ pc[s] = "loop"
  /\ EndLoop(s, "finished", "score")
  /\ UNCHANGED <<run, book, loop, attempt, open, outcome>>

\* A registered controller may cancel the session or the run, or raise an
\* exception of its own, which run_session does not handle.
ControllerStops(s) ==
  /\ \/ /\ \E c \in {"session_cancel", "run_cancel"} : EndLoop(s, c, "record")
        /\ UNCHANGED outcome
     \/ /\ cause' = [cause EXCEPT ![s] = "controller"]
        /\ Fail(s)

\* react raises, returns None (the benchmark is done) or something that is no
\* action; the registered controllers see what it returned before the core one.
NoAction(s) ==
  /\ pc[s] = "loop"
  /\ \/ EndLoop(s, "finished", "score") /\ UNCHANGED outcome
     \/ EndLoop(s, "agent_error", "record") /\ UNCHANGED outcome
     \/ ControllerStops(s)
  /\ UNCHANGED <<run, book, loop, attempt, open>>

\* An action of k single actions: the limit controller counts it, then the
\* registered controllers see it.
React(s) ==
  /\ pc[s] = "loop"
  /\ steps' = [steps EXCEPT ![s] = @ + 1]
  /\ \E k \in BatchSizes : acts' = [acts EXCEPT ![s] = @ + k]
  /\ \/ GoTo(s, "step") /\ UNCHANGED <<cause, outcome>>
     \/ ControllerStops(s)
  /\ UNCHANGED <<run, book, taken, attempt, open>>

LimitReached(s) == steps[s] >= MaxSteps \/ acts[s] >= MaxActions

\* session.step raises, or the observation is not one and no limit is reached.
StepFails(s) ==
  /\ pc[s] = "step"
  /\ EndLoop(s, "bench_error", "record")
  /\ taken' = [taken EXCEPT ![s] = @ + 1]
  /\ UNCHANGED <<run, book, steps, acts, attempt, open, outcome>>

\* A step that returned: None ends the session and is not checked against the
\* limits; anything else is, and goes back to the agent.
Step(s) ==
  /\ pc[s] = "step"
  /\ taken' = [taken EXCEPT ![s] = @ + 1]
  /\ \/ EndLoop(s, "finished", "score") /\ UNCHANGED outcome
     \/ LimitReached(s) /\ EndLoop(s, "limit", "score") /\ UNCHANGED outcome
     \/ ~LimitReached(s) /\ GoTo(s, "loop") /\ UNCHANGED <<cause, outcome>>
     \/ ControllerStops(s)
  /\ UNCHANGED <<run, book, steps, acts, attempt, open>>

\* session.done() raises outside of the try around react and step.
LoopFails(s) ==
  /\ pc[s] = "loop"
  /\ Fail(s)
  /\ UNCHANGED <<run, book, loop, attempt, cause, open>>

------------------------------------------------------------------------------
(* The handlers of run_session.                                             *)

\* session.score() and the training feedback; either may raise.
Score(s) ==
  /\ pc[s] = "score"
  /\ \/ GoTo(s, "record") /\ UNCHANGED outcome
     \/ Fail(s)
  /\ UNCHANGED <<run, book, loop, attempt, cause, open>>

\* Mutant of StatusOf: a session the benchmark broke is not recorded.
StatusOfNoBench(s) == IF cause[s] = "bench_error" THEN "none" ELSE Status[cause[s]]

StatusOf(s) == Status[cause[s]]

List(s, status) ==
  listed' = [listed EXCEPT ![s] = IF status = "none" THEN @ ELSE Append(@, status)]

Write(s, status) == file' = [file EXCEPT ![s] = status]

\* The recording is broken off: before the result was listed, before it was
\* written, or in the observers that come after.
RecordPart(s) ==
  \/ UNCHANGED book
  \/ List(s, StatusOf(s)) /\ UNCHANGED file
  \/ List(s, StatusOf(s)) /\ Write(s, StatusOf(s))

\* on_session_success or on_session_error: the results observer asks for the
\* costs, lists the result, then writes it; each of these may raise.
Record(s) ==
  /\ pc[s] = "record"
  /\ \/ /\ List(s, StatusOf(s)) /\ Write(s, StatusOf(s))
        /\ GoTo(s, "close") /\ UNCHANGED outcome
     \/ RecordPart(s) /\ Fail(s)
  /\ UNCHANGED <<run, loop, attempt, cause, open>>

\* What the handler closes: a broken benchmark's session is left alone.
ToClose(s) == IF cause[s] = "bench_error" THEN {"agent"} ELSE Parts

\* The session is closed before the agent; it is broken off on the way.
ClosePart(s) ==
  \E closed \in {{}, ToClose(s) \ {"agent"}, ToClose(s)} :
    open' = [open EXCEPT ![s] = @ \ closed]

\* Both are closed, then the task releases what it made; any of these may raise.
Close(s) ==
  /\ pc[s] = "close"
  /\ \/ /\ open' = [open EXCEPT ![s] = @ \ ToClose(s)]
        /\ Return(s, IF cause[s] = "run_cancel" THEN "run_cancel" ELSE "ok")
     \/ ClosePart(s) /\ Fail(s)
  /\ UNCHANGED <<run, book, loop, attempt, cause>>

\* KeyboardInterrupt in the thread that executes the session: inside the try of
\* run_session it is recorded, ...
InterruptLoop(s) ==
  /\ Serial /\ pc[s] \in {"loop", "step"}
  /\ EndLoop(s, "run_cancel", "record")
  /\ UNCHANGED <<run, book, loop, attempt, open, outcome>>

\* ... and before it and in the handlers it breaks off what they are doing.
Interrupt(s) ==
  /\ Serial
  /\ \/ pc[s] \in {"submitted", "score"} /\ UNCHANGED <<book, open>>
     \/ /\ pc[s] = "starting" /\ UNCHANGED book
        /\ \E made \in {{}, {"session"}, Parts} : open' = [open EXCEPT ![s] = made]
     \/ pc[s] = "record" /\ RecordPart(s) /\ UNCHANGED open
     \/ pc[s] = "close" /\ ClosePart(s) /\ UNCHANGED book
  /\ cause' = [cause EXCEPT ![s] = "interrupted"]
  /\ Return(s, "run_cancel")
  /\ UNCHANGED <<run, loop, attempt>>

------------------------------------------------------------------------------
(* _execute_sessions_serial and _execute_sessions_parallel.                 *)

CanSubmit ==
  /\ \E s \in Sessions : pc[s] = "pending"
  /\ Cardinality(InFlight) < maxWorkers

Submit(s) ==
  /\ main = "executing" /\ pc[s] = "pending" /\ CanSubmit
  /\ GoTo(s, "submitted")
  /\ UNCHANGED <<run, book, loop, attempt, cause, open, outcome>>

\* _mark_run_final, and _write_run_results if it is the first to be called.
MarkRunFinal(state) ==
  IF runState = "none"
    THEN runState' = state /\ summary' = listed
    ELSE UNCHANGED <<runState, summary>>

\* Mutant of CollectOk: the future is not taken out of the futures.
CollectOkKept(s) == outcome[s] = "ok" /\ UNCHANGED <<run, pc, attempt>>

\* A task that returned.
CollectOk(s) ==
  /\ outcome[s] = "ok"
  /\ GoTo(s, "collected")
  /\ UNCHANGED <<run, attempt>>

Transient(s) == outcome[s] = "transient" /\ attempt[s] < MaxRetries

Retry(s) ==
  /\ Serial /\ Transient(s)
  /\ attempt' = [attempt EXCEPT ![s] = @ + 1]
  /\ GoTo(s, "submitted")
  /\ UNCHANGED run

\* Mutant of OnTaskError: serial execution tells it as well, and goes on.
OnTaskErrorAlways == MarkRunFinal("error")

\* Only parallel execution tells the tracker of a failed task.
OnTaskError == IF Serial THEN UNCHANGED <<runState, summary>> ELSE MarkRunFinal("error")

CollectError(s) ==
  /\ outcome[s] \in {"error", "transient"}
  /\ Serial => ~Transient(s)
  /\ hadError' = TRUE
  /\ OnTaskError
  /\ GoTo(s, "collected")
  /\ UNCHANGED <<maxWorkers, main, attempt>>

\* Mutant of AfterCancel: a cancelled task is one more failed task.
AfterCancelGoesOn == "executing"

\* Where the main thread goes on after a cancellation.
AfterCancel == IF Serial THEN "reporting" ELSE "cancelling"

CollectCancel(s) ==
  /\ outcome[s] = "run_cancel"
  /\ hadError' = TRUE
  /\ MarkRunFinal("error")
  /\ main' = AfterCancel
  /\ GoTo(s, "collected")
  /\ UNCHANGED <<maxWorkers, attempt>>

\* A result is looked at once every worker has been given a session.
Collect(s) ==
  /\ main = "executing" /\ pc[s] = "returned" /\ ~CanSubmit
  /\ CollectOk(s) \/ Retry(s) \/ CollectError(s) \/ CollectCancel(s)
  /\ UNCHANGED <<book, loop, cause, open, outcome>>

\* KeyboardInterrupt in the main thread while workers execute the sessions, or
\* between two sessions that it executes itself, ...
InterruptMain ==
  /\ main = "executing" /\ (Serial => InFlight = {})
  /\ hadError' = TRUE
  /\ MarkRunFinal("error")
  /\ main' = AfterCancel
  /\ UNCHANGED <<maxWorkers, book, loop, pc, attempt, cause, open, outcome>>

\* ... or later, when nothing handles it: workers may still be at work.
InterruptReport ==
  /\ main \in {"cancelling", "reporting"}
  /\ main' = "raised"
  /\ UNCHANGED <<maxWorkers, hadError, runState, summary, book, loop, pc,
                 attempt, cause, open, outcome>>

\* future.cancel() drops a task that no worker has begun.
CancelFuture(s) ==
  /\ main = "cancelling" /\ pc[s] = "submitted"
  /\ GoTo(s, "dropped")
  /\ UNCHANGED <<run, book, loop, attempt, cause, open, outcome>>

\* Every task has been collected, or the executor has waited for the others.
Executed ==
  /\ \/ main = "executing" /\ \A s \in Sessions : pc[s] = "collected"
     \/ main = "cancelling" /\ \A s \in Sessions : Idle(s)
  /\ main' = "reporting"
  /\ UNCHANGED <<maxWorkers, hadError, runState, summary, book, loop, pc,
                 attempt, cause, open, outcome>>

------------------------------------------------------------------------------
(* The rest of core_run.                                                    *)

\* After an error the results are those the tracker has, if it has any.
ReportError ==
  /\ main = "reporting" /\ hadError
  /\ main' = IF runState = "none" THEN "no_results" ELSE "returned"
  /\ UNCHANGED <<maxWorkers, hadError, runState, summary, book, loop, pc,
                 attempt, cause, open, outcome>>

\* The benchmark's aggregation may raise; otherwise on_run_success.
ReportSuccess ==
  /\ main = "reporting" /\ ~hadError
  /\ \/ MarkRunFinal("success") /\ main' = "returned"
     \/ main' = "raised" /\ UNCHANGED <<runState, summary>>
  /\ UNCHANGED <<maxWorkers, hadError, book, loop, pc, attempt, cause, open,
                 outcome>>

Ends == {"returned", "no_results", "raised"}

Ended == main \in Ends /\ UNCHANGED vars

SessionStep(s) ==
  \/ Reuse(s) \/ Begin(s) \/ Start(s) \/ LoopEnds(s) \/ NoAction(s) \/ React(s)
  \/ StepFails(s) \/ Step(s) \/ LoopFails(s) \/ Score(s) \/ Record(s) \/ Close(s)

MainStep ==
  \/ \E s \in Sessions : Submit(s) \/ Collect(s) \/ CancelFuture(s)
  \/ Executed \/ ReportError \/ ReportSuccess

Next ==
  \/ \E s \in Sessions : SessionStep(s) \/ SkipLocked(s)
                          \/ InterruptLoop(s) \/ Interrupt(s)
  \/ MainStep \/ InterruptMain \/ InterruptReport
  \/ Ended

\* Calls of the agent and the benchmark return, and threads are scheduled;
\* nobody has to interrupt the run or to hold a session's lock.
Fairness ==
  /\ WF_vars(MainStep)
  /\ \A s \in Sessions : WF_vars(SessionStep(s))

Spec == Init /\ [][Next]_vars /\ Fairness

------------------------------------------------------------------------------
(* Properties.                                                              *)

Places == {"pending", "submitted", "starting", "loop", "step", "score", "record",
           "close", "returned", "collected", "dropped"}
Causes == Reasons \cup {"none", "skipped", "reused", "interrupted", "controller"}
Outcomes == {"none", "ok", "error", "transient", "run_cancel"}

TypeOK ==
  /\ maxWorkers \in Workers
  /\ main \in {"executing", "cancelling", "reporting"} \cup Ends
  /\ hadError \in BOOLEAN
  /\ runState \in {"none", "success", "error"}
  /\ summary \in [Sessions -> Seq(Recorded)]
  /\ listed \in [Sessions -> Seq(Recorded)]
  /\ file \in [Sessions -> Recorded \cup {"none"}]
  /\ pc \in [Sessions -> Places]
  /\ attempt \in [Sessions -> 0..MaxRetries]
  /\ taken \in [Sessions -> Nat] /\ steps \in [Sessions -> Nat]
  /\ acts \in [Sessions -> Nat]
  /\ cause \in [Sessions -> Causes]
  /\ open \in [Sessions -> SUBSET Parts]
  /\ outcome \in [Sessions -> Outcomes]

\* No attempt takes more steps than max_steps, and the agent is asked for an
\* action only while max_actions is not used up, unless the session is retried:
\* the counts of the limit controller then start where the last attempt left
\* them, and a retried session may be stopped after its first step.
WithinLimits ==
  \A s \in Sessions :
    /\ taken[s] <= MaxSteps
    /\ attempt[s] = 0 =>
         /\ pc[s] = "loop" => taken[s] < MaxSteps /\ acts[s] < MaxActions
         /\ cause[s] = "limit" => taken[s] = MaxSteps \/ acts[s] >= MaxActions

\* The last entry of s is in its results.json, if its task came to its end.
Kept(s) ==
  outcome[s] \in {"ok", "run_cancel"} /\ cause[s] \in Reasons \cup {"reused"} =>
    listed[s] # <<>> /\ listed[s][Len(listed[s])] = file[s]

\* A run that ends without an error reports every session it was to run, each
\* with the outcome that is in its results.json, except those that another
\* process was running.
SuccessReportsEverySession ==
  runState = "success" =>
    \A s \in Sessions :
      \/ cause[s] = "skipped"
      \/ /\ summary[s] # <<>>
         /\ summary[s][Len(summary[s])] = file[s]

\* With several workers, core_run gets results from the tracker whatever
\* fails; a serial run whose session raised gets a RuntimeError.
ParallelRunsHaveResults == main = "no_results" => Serial

\* What core_run returns is what was recorded: what the results say of a
\* session is in its results.json, unless its task failed or was broken off,
\* and whatever is missing in them was recorded on another worker after the
\* first failure.
ReportedIsRecorded ==
  main = "returned" =>
    /\ Serial => summary = listed
    /\ \A s \in Sessions :
         summary[s] = <<>> \/ (summary[s] = listed[s] /\ Kept(s))
    /\ summary = listed \/ runState = "error"

\* Once the main thread has seen a cancellation, no session is handed out or
\* retried, and the run has failed; sessions that workers have go on.
CancelStopsTheRun ==
  [][(\E c \in Sessions : pc[c] = "collected" /\ outcome[c] = "run_cancel") =>
       /\ runState' = "error"
       /\ \A s \in Sessions : pc[s] # "submitted" => pc'[s] # "submitted"]_vars

\* A task that was not broken off, by Ctrl-C or an exception of a handler, leaves
\* neither the session nor the agent open when it returns or cancels the run,
\* except that it leaves the session of a broken benchmark.
ReturnsClosed ==
  \A s \in Sessions :
    outcome[s] \in {"ok", "run_cancel"} /\ cause[s] \in Reasons
      /\ pc[s] \in {"returned", "collected"}
    => open[s] = IF cause[s] = "bench_error" THEN {"session"} ELSE {}

\* The run ends.
RunEnds == <>(main \in Ends)
=============================================================================
