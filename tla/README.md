# Exgentic in TLA+: verification of the session machinery

This directory models the parts of Exgentic in which several actors touch the same
state, or in which one session can end in many ways: the orchestrator that runs
(agent, benchmark) sessions in parallel, possibly from several processes over one
output directory; the coordinator that lets an agent thread and the session loop
take turns; the dialogue of an agent with a benchmark; the runners that move an
object into a thread, a process or a service, and the environments they install;
the stores the continual-learning agents share; the experiments that are launched
again after a crash; the command-line agents with their server and proxy; and the
dashboard and the traces that show what happened. Paths below are relative to the
repository's package `src/exgentic/` unless they start with `docs/` or `tests/`.

## 1. Inventory

### 1.1 Orchestrator (`core/orchestrator/`, `core/types/`, `utils/paths.py`)

| part | state | operations | correct when |
|---|---|---|---|
| status and plan (`types/session.py`, `types/run.py`) | none; reads the session directory, its `results.json` and `session.lock` | `SessionStatus.from_config`, `RunStatus`, `RunPlan` | a session that has a usable result is reused and not run again; every other session is run |
| session execution (`execution.py`) | the session directory, the file lock inside it | `_run_task_with_lock`: sample, lock, re-sample, reuse / clean up / run, release | at most one process runs a session; a finished session's files survive |
| session loop (`session.py`) | the live session and agent instance | `run_session`: start, react, step, score, close | every session that starts is closed and has one recorded outcome |
| tracker, controllers (`tracker.py`, `controller.py`) | one-shot final flag, per-session counts | `on_*` fan-out; limit, core and cleanup controllers | limits stop a session exactly at the bound; a run is finalised once |
| results (`observers/handlers/results.py`, `session_ledger.py`) | open sessions, list of results, summary file | `on_session_*`, `on_run_*`, `results()` | one result per session, and the summary counts all of them |
| run (`run.py`) | none | `core_run`: status, plan, reuse, execute, aggregate | a run that failed still returns results |

Several processes (`exgentic batch execute`) and several threads
(`max_workers`) run these operations at once over one output directory.

### 1.2 Agents inside the session loop (`adapters/agents/`)

`AgentCoordinator` holds a condition variable, a turn counter, the current
observation, a queue of pending actions and a closed flag. The session loop
calls `react(observation)` and `close()`; the agent's own thread calls
`get_observation()` and, when its code ends, `execute(None)`; the threads of its
tool calls call `execute(action)`, or `_submit_finish_action(action)` in MCP
agents. Correct when every tool call gets the observation of its own action, no
action is lost, duplicated or reordered, and nobody waits forever.

The tool-calling agent (`agents/litellm_tool_calling`) has no thread of its own:
`react` appends to a chat, asks a model and turns its tool calls into an action.
Correct when every tool call of the chat is answered, since a provider refuses
the next request otherwise.

The command-line agents (`agents/cli`) are programs: the agent's thread starts a
server for the tools (`adapters/agents/mcp_server.py`), a proxy for the model
(`integrations/litellm/proxy.py`) and the program, and both it and the session
loop close them. Correct when nothing that was started is left running and the
recorded cost counts every call.

### 1.3 Runners (`adapters/runners/`, `adapters/executors/`)

`ObjectHost`/`ObjectProxy` carry calls over a transport: in place, a thread and
two queues (`thread.py`), a process and two queues (`process.py`), HTTP to a
service (`service.py`, `venv.py`, `docker.py`). `executors/proxy.py` turns a
benchmark's own agent callback into the session interface with two queues and a
DONE sentinel, and pairs a session with the benchmark's environment through a
process-wide semaphore. Correct when an answer belongs to its call, a dead
worker is noticed, and close ends the worker.

### 1.4 Environments (`environment/`)

`EnvironmentManager` keeps a `.installed` JSON marker per benchmark or agent and
calls the venv, docker or local backend. Correct when the marker says what is
really installed, also after a failed or concurrent install.

### 1.5 Continual-learning agents (`agents/ace`, `harness`, `autoskill`, `reasoning_bank`, `a_mem`)

Each keeps one shared store per run (playbook; prompts, memory and skills; skill
bank; reasoning bank; linked notes) that sessions running in parallel read at
the start and update at the end, around calls to a language model. Correct when
what one session learned is not overwritten by another, identifiers stay unique
and index structures agree with the list they index.

### 1.6 Continual-learning experiments (`scripts/*/run_experiment.py`, `agents/ace/playbook_store.py`)

A script evaluates the tasks of one or more benchmarks in order (`--mode
isolated`, `sequential` or `interleaved`) by calling `evaluate()` per benchmark
or per task. Its state is the agent's store in memory, counting the sessions it
has learned from; on disk there are one checkpoint file per store, written after
an evaluation, `online_metrics.jsonl` with one line per reported task, and the
session directories of the orchestrator. It can be launched again after it died:
it restores the stores, cuts the metrics file, decides from the session count
and the lines which tasks or benchmarks to skip, and the orchestrator reuses
every complete session of the others. Correct when what is skipped was done,
every task is reported once with its own result, and the store a task starts
with knows the tasks before it.

### 1.7 Benchmarks, traces, dashboard (`benchmarks/`, `integrations/litellm/`, `interfaces/dashboard/`)

A benchmark's session keeps whether it is done, what was submitted and the score,
and answers the single actions of an action (`step`, `done`, `score`, `close`).
Correct when every action is answered and the score, the finish flag and the
benchmark's own file tell the same story. Tau2 runs a simulation of its own in a
second thread (1.3).

`trace_logger.py` writes each message of a request once and later refers to it;
several loggers of a process append to a session's trace. Correct when a request
can be put together again. The dashboard's observer hands the events of the
run's threads to a bounded queue, and a timer shows them; correct when what is
shown is what happened.

The rest: `utils/sync.py` (one event loop for all synchronous callers), the
response cache and health probes of `integrations/litellm`, log files and
telemetry, `utils/cost.py`, the command line and the library functions.

### 1.8 What is hard here

Interleavings of processes over the session directory and its lock; state
sampled before the lock and used after it; the three kinds of threads of the
coordinator; a crash of the agent racing the session loop; results recorded from
several workers while the run is being finalised; an experiment resumed from three
records of its progress that were written at different times; a marker or a store
read, edited during a slow call and written back; a worker that dies with a call
in flight; two threads that close the same server; a session that ends over an
unanswered tool call; a file that is removed under a writer. `PROJECT.json` lists
each with its line.

## 2. Plan

The order is that of what the whole system rests on: first the machinery every
evaluation goes through, then the loop around it, then the parts that only some
evaluations use.

| step | modules | question |
|---|---|---|
| 1 | `CoordinatorObservations`, `Coordinator` | do tool calls get their answers, is nothing lost, does nobody hang? |
| 2 | `SessionRecord` (abstract), `SessionExecution` | what do processes over one session directory do to each other? |
| 3 | `EvaluationRun` | what do the results of a run contain when sessions fail, are retried, cancelled or interrupted? |
| 4 | `LearningExperiment` | what does an experiment that is launched again skip, repeat, report and know? |
| 5 | `AgentSessions`, `AceAgent`, `HarnessAgent`, `AutoskillAgent`, `ReasoningBankAgent`, `AmemAgent`, `LearningAgents` | what do sessions that learn at the same time do to the store they share? |
| 6 | `Environment`, `Runner` | does an answer belong to its call, is a dead worker noticed, does the marker say what is installed? |
| 7 | `PairedSession` | is a Tau2 session played by its own agent, and does neither thread wait for good? |
| 8 | `BenchmarkSessions`, `ToolCallingAgent`, `Dialogue` | in every way a dialogue may end, do chat, score and files agree? |
| 9 | `Dashboard` | is what is shown what happened? |
| 10 | `CliAgent` | does anything of a command-line agent survive its session? |
| 11 | `TraceLog` | can the requests of a trace be restored? |

All steps are done. The components meet in the session. `EvaluationRun` treats a
session's agent as an environment that returns an action, none, or an exception,
which is what `Coordinator`, `Dialogue` and `CliAgent` decide; it treats the
session directory as free or locked by somebody else, which is what
`SessionExecution` decides; `LearningExperiment` treats a session as its three
steps that the store and the files see, and `LearningAgents` looks into these.
Each module keeps the other one's part as a nondeterministic choice over
everything it can do, so that a property of the one does not rest on an
assumption about the other. Where components share state they are composed:
`LearningAgents` is the session loop with each agent's store, `Runner` starts
from what `Environment` has installed and can be killed with it, and `Dialogue`
is the loop with a benchmark's session and the tool-calling agent.
`SessionRecord` is the abstract promise of the session directory, and
`SessionExecution` is shown to implement it for runs that do not overlap.

## 3. Modules

Every module names the source files it models; `PROJECT.json` maps each
definition to its lines.

### 3.1 `CoordinatorObservations`, `Coordinator` (`adapters/agents/coordinator.py`, `code_agent.py`, `mcp_agent.py`)

The condition variable is the set `asleep` of waiting threads: `notify_all`
empties it, a wait puts the thread in and re-evaluates its loop afterwards, and
a timeout of the accumulate window takes the environment thread out. What a
method does between two waits is one action, because the lock is held. The
fields of `AgentCoordinator` have the names of the code; `envPc`, `mainPc` and
`exPc` are the places of the session loop, of the agent's thread and of the
threads of its tool calls.

| actions | code |
|---|---|
| `Start`, `React`, `ReactRaise`, `WaitForPendingActions`, `AccumulateMore`, `AccumulateEnd` | `start`, `react` with `_publish_observation`, `_wait_for_pending_actions`, `_flush_actions`, `_remember_actions` |
| `Step`, `Interrupt`, `Close`, `Join` | the session loop around them and `close` |
| `GetObservation`, `RunReturns`, `RunRaises`, `SetupRaises`, `ExecuteNone`, `RecordCrash`, `MainClose` | `_run_internal_agent` and the agents' `run` with its `finally` |
| `Execute`, `ExecuteWakes`, `SubmitFinishAction` | a tool call, and a finish tool of an MCP agent |

`CoordinatorObservations` has the two functions that attach observations to
actions. A part of an observation carries the actions it names (`inv`), which the
code reads and fills in, and the actions it really reports (`ans`), which only
the properties look at. `Step` lets the benchmark answer in one part for all
actions, in one per action that names none, or in one per action that names it, in
reverse order.

### 3.2 `SessionRecord`, `SessionExecution` (`core/orchestrator/execution.py`, `run.py`, `core/types/session.py`, `core/types/run.py`, `observers/handlers/results.py`)

One session directory and the processes that evaluate it. Processes interleave
between system calls. A file is an inode, so that a lock or a write goes to the
file that was opened even if another process has unlinked it. `Begin`,
`SampleFiles`, `ProbeLock`, `ReleaseProbe`, `ReadStatus`, `Plan`, `LoadReused`
are `SessionStatus.from_config`, `RunPlan` and `execute_sessions` up to the
task; `MakeDir`, `AcquireLock`, `Refresh`, `TryReuse`, `Cleanup`, `RemoveDir`,
`WriteConfig` are `_run_task_with_lock`; `OpenResults`, `WriteResults` are the
results observer; `TaskRaises` is an exception at any of these, with the retry
of a transient one; `Crash` ends a process anywhere. A process is an evaluation
(`Runs`) or a status query (`Samplers`), which samples and goes: the lock is
tested by taking it, so a query holds it for a moment. `misled` is history: an
evaluation saw the lock of a query.

`SessionRecord` has two variables, the record of the session's outcome and
whether an attempt is under way. The refinement maps `results` and the
processes' places onto them.

### 3.3 `EvaluationRun` (`core/orchestrator/run.py`, `execution.py`, `session.py`, `tracker.py`, `controller.py`, `observers/handlers/results.py`)

The main thread (`Submit`, `Collect`, `CancelFuture`, `Executed`, `ReportError`,
`ReportSuccess`), the workers (`Begin`, `Start`, `React`, `NoAction`, `Step`,
`Score`, `Record`, `Close` and the ways each fails) and the tracker that all
share: `steps` and `acts` are the counts of the limit controller, which are kept
when a session is retried, and `listed` the list of results. Serial execution
(`max_workers` 1) is the same module with one worker: it retries transient
errors and does not report a failed task to `on_run_error`. Ctrl-C reaches a
serial session anywhere: in its loop it is handled there, and while the session
is created, scored, recorded or closed it leaves what was done so far. On several
workers it reaches the main thread. `summary` is what the results of the run say,
computed when the run is finalised; `listed` and `file` may be ahead of it.

### 3.4 `LearningExperiment` (`scripts/ace/run_experiment.py`, `agents/ace/playbook_store.py`, `agents/ace/ace_instance.py`)

The script's process (`pc`, `skip`, `finished`, `at`), one evaluation of it
(`reuse`, `todo`, `results`), the store in memory (`mem`) and the files
(`ckpt`, `torn`, `metrics`, `file`, `lessons`). `Launch` is the part before the
loop; `SkipGroup`, `Evaluate`, `EndExperiment` the loop; `ListReused`,
`RetryReuses`, `Start`, `Record`, `Close`, `Raise`, `RaiseTransient`,
`Interrupt` the evaluation as seen from the files and the store; `ReportTask`,
`ReportGroup`, `OpenCheckpoint`, `WriteCheckpoint`, `ReportResult`, `EndGroup`
what follows it; `NoResults` and `Crash` end the process, which forgets its
variables, and `Launch` may come again. The scripts of the other learning agents
have the same loop.

### 3.5 `AgentSessions`, `LearningAgents` and the five stores (`agents/ace`, `harness`, `autoskill`, `reasoning_bank`, `a_mem`)

`AgentSessions` has what the agents have in common: a session starts, reacts,
may get training feedback and closes, on up to `max_workers` threads of one
process. `met` remembers which sessions ran at the same time. Each agent's module
adds its store and what `start` and `close` do to it, one step per access of the
store or call of a model; `LearningAgents` chooses the agent of the evaluation.

- `AceAgent`: `close` reflects, curates every `curator_frequency` sessions, may
  merge similar bullets, records and saves. Each of the first three reads the
  whole playbook, calls a model and writes the whole playbook back; the store's
  lock covers the single read and the single write (`copy` is what lies between).
  The next identifier is written in a step of its own. `gone` and `renamed` are
  history: whose write removed what it had not read, which merge renamed a bullet.
- `HarnessAgent`: `start` embeds the skills that have no embedding; `close` edits
  prompt, memory and skills tool call by tool call, restores the snapshot of its
  beginning when a tool raises, and commits a version otherwise.
- `AutoskillAgent`: extract a candidate, find the most similar skill, judge, add,
  merge or discard; a merge is computed from the skill as it was found.
- `ReasoningBankAgent`: `start` reads the store three times to select a memory;
  `close` appends to the list of memories and to that of their embeddings.
- `AmemAgent`: a note is added, evolved and indexed under the store's lock, the
  calls of the model included; `index` has the embeddings by position, `corpus`
  the documents they belong to.

### 3.6 `Environment`, `Runner` (`environment/`, `adapters/runners/`)

`Environment` is one environment directory: `install` and `uninstall` build or
remove a venv or an image step by step, and edit the marker by reading it,
changing the copy and writing it in place. An actor can be killed at every step.
`Runner` is a caller of `with_runner`: it installs what its runner needs, starts
the worker, makes calls, and closes. Calls are numbered; `reqs` and `resps` are
the two queues of the thread and process runners; a service handles several
requests at once, and its answer reaches the caller only while it still waits for
that call. `Dies` ends a worker, `CallTimesOut` and `Interrupt` a wait.

### 3.7 `PairedSession` (`adapters/executors/proxy.py`, `benchmarks/tau2/tau2_eval.py`)

Two threads per session: the host, which is `run_session`, and the runner thread
in which Tau2 calls the proxy agent. A session takes the semaphore, stages itself
in `_CURRENT_SESSION`, starts its runner and is adopted there; then actions and
observations go through `toAgent` and `fromAgent`, with None and DONE as
sentinels. `print` is `builtins.print`, which each runner replaces and puts back.
A runner that ends without adopting tests `waiting_for_pairing` without the lock
(`Unstage`), then takes the lock, asserts that the staged session is its own and
clears it (`ClearPlace`), and releases the semaphore after that (`ReleaseSlot`):
three steps, with the failing assertion as a place of its own.

### 3.8 `BenchmarkSessions`, `ToolCallingAgent`, `Dialogue` (`benchmarks/*`, `agents/litellm_tool_calling/instance.py`, `core/orchestrator/session.py`)

One session of one of seven benchmarks. An action is the sequence of its single
actions; an observation is the sequence of the single actions it answers, with 0
for a text that answers none. `BenchmarkSessions` has `step`, `score` and `close`
of each benchmark; `ToolCallingAgent` the chat, in which an assistant message is
kept with the number of tool messages that answer each of its calls; `Dialogue`
the loop with its limits, its exceptions and what is recorded.

### 3.9 `Dashboard` (`observers/handlers/dashboard.py`, `interfaces/dashboard/`)

The threads of a run put events into a bounded queue: some at once, step events
gathered under a lock and moved in batches. `out` and `tries` are the event a
thread is putting and how far it is (full queue, drop the oldest, try again).
`Tick` is the timer: it takes up to `TickSize` events, shows them one after the
other (`Played`) and, when the run's thread is over, brings back the start button.
`truth` is what became of a session, "raised" for one that raised while it was
scored or recorded, of which no observer is told; `AsTold` is what the observers
could know of it.

### 3.10 `CliAgent` (`agents/cli/`, `adapters/agents/mcp_agent.py`, `mcp_server.py`, `integrations/litellm/proxy.py`)

The session's thread and the agent's thread, with the program, the proxy and the
server's thread beside them. `cliRef`, `proxyRef` and `serverRef` are the three
attributes that both threads test, stop and clear without a lock: one step each.
A tool call blocks the server's thread until the session answers it or closes the
coordinator, and stopping the server waits for it, for at most a minute. A call
of the model is `asked`, and its row is written to the trace by a callback after
the answer (`rows`), which can be after the session has read the trace. The
session ends because `react` returned None (`EndsAtAgent`), at a limit or the end
of the task, or with an exception, in the step of a tool call (`EndsAtCall`),
because `react` raises (`ReactRaises`), or by Ctrl-C (`Interrupted`). Only
`on_session_success` has the agent and hence its cost; `on_session_error` records
an empty one.

### 3.11 `TraceLog` (`integrations/litellm/trace_logger.py`, `core/orchestrator/execution.py`)

A session's `trace.jsonl` as the sequence of its lines. Each logger has a cache
of what it believes to be in the file; a call writes the definitions it misses,
line by line, and then the call. `RemoveSession` is the cleanup of a retried
session, which removes the file and not the caches; `Restart` ends the process.

## 4. Runs

| run | bounds | checks | shows |
|---|---|---|---|
| `coordinator` | 2 tool-call threads with 2 calls each, 2 steps, window, finish actions, calls that outlive the run | `RoundsAreAnswered`, `GivenInOrder`, `SelectionKeepsAnswer`, `CallsReturn`, `SessionEnds` | no action is duplicated or reordered, calls made in rounds are answered, no notification is lost whatever ends the session |
| `coordinator_crash` | 1 thread, 1 call | `CrashIsReported` is violated | a crash of the agent's code can be scored as its decision to stop |
| `sessions` | 2 evaluations and a status query; evaluations in turn with 2 starts each, or at the same time with 1, where the query may come too; 1 retry | `CompletedSurvives`, `RecordSpec`, `SomeoneTakesIt`, `RunsEnd` | in turn they keep completed results through crashes and retries and implement `SessionRecord`; if both leave the session alone, a query that held the lock misled one of them; none waits for good |
| `evaluation` | 2 sessions on 1 or 2 workers, 1 step, batches of 1, 1 retry of 1 session | `SuccessReportsEverySession`, `ReportedIsRecorded`, `CancelStopsTheRun`, `RunEnds` | what the results of a run contain when sessions fail, are cancelled or interrupted, and that they are what was recorded; a cancellation stops the run; it ends |
| `learning_resume` | 3 tasks in 2 benchmarks, 3 modes, 2 launches, 1 Ctrl-C, 1 retry | `UninterruptedIsExact`, `SkippedWorkIsDone`, `OneRelaunchReports` | nothing is skipped that was not done, one relaunch reports every task, a smooth experiment is exact |
| `learning_agents` | ACE, harness and A-Mem: 2 sessions on 1 or 2 threads, 3 of A-Mem on 1; autoskill and the reasoning bank: 3 on 2 threads; 1 reaction | `AceIdsIdentify`, `AceAloneLosesNothing`, `HarnessLibraryStands`, `AmemStoreAgrees`, `AutoskillBankExplained`, `RbRecallsWhatItFound` | identifiers identify, indexes agree with what they index, learning is lost only where sessions overlap; what the bank has, and what a stale merge dropped, is explained by what the sessions did; a session is shown what it found, and a checkpoint has every memory before it |
| `tau2_pairing` | 2 sessions, 2 steps | `AdoptsItsOwn`, `SlotIsGivenBack`, `AnsweredInTurn`, `ScoredInFull`, `SessionsFinish` | each session is played by its own agent, in turn; the slot comes back once; no thread is left waiting |
| `runners` | 2 actors with chosen pairs of jobs, 1 kill, 2 calls | `AnswersBelong`, `CloseHasRun`, `NothingForgotten`, `CallsReturn` | an answer is of its call, a close closes, the marker lists what is there |
| `dialogue` | 7 benchmarks, up to 2 tool calls in a reply, 3 steps, 4 actions | `CallsAreAnswered`, `FinishIsHonest`, `SavedAsRecorded` | every tool call of the chat is answered once, the finish flag tells whether the agent submitted, the saved score is the recorded one |
| `dashboard` | 2 sessions on 1 or 2 threads, 1 step, 1 retry, batches of 2, a queue of 2, ticks of 2 | `ShownIsTold`, `LeaderboardIsFresh`, `StartAgain` | as long as nothing is lost what is shown is what the observers were told; the start button comes back, with the results, whatever is lost |
| `cli_agent` | 2 tool calls, 2 calls of the model | `NothingLeftRunning`, `CostIsFinal`, `Released` | whatever ends the session, `close` returns and, unless a startup failed, nothing that was started is left; a session that ends with its agent has the cost of the whole trace |
| `trace_dedup` | 2 loggers, 2 messages, 2 calls, 1 cleanup, 1 restart | `CallsCanBeRestored` is violated | calls logged after the cleanup refer to definitions that went away with the file |

The largest has 2 million distinct states and none takes more than a few minutes
with two workers.

### Why the bounds are enough

- Two tool-call threads with two calls each give a late call, a full round and a
  further round; two steps let a late answer be delivered and used. With three
  threads the queue only gets longer, not different.
- Races on the session directory are between two processes; a second start of
  each lets a run find what an earlier one of its own left. Overlapping runs are
  checked with one start each, since the sampling of a second start is that of a
  process that comes late. A status query is asked only where evaluations overlap
  and none retries (`QueriesAnywhere` is FALSE): it changes nothing but the lock.
- Two sessions on two workers reach every order of a record and a final state.
  `OneRetried` lets only one of them be retried, since no step of a retry looks at
  another session. In a run with as many workers as sessions nothing is pending
  when a cancellation is seen, so `CancelStopsTheRun` bites in its serial half.
- Three tasks in benchmarks of two and one are the least for which a benchmark is
  cut in its middle and one follows. Two launches give one recovery; a crash may
  come at every step. `MaxTransients` stays below the retries of one session, so
  that an exhausted retry is a `Raise`.
- A lost update of a learning store needs two sessions that overlap.
  `InPairs` has two sessions in turn, with and without training feedback, and two
  at once; three in turn for A-Mem, where one recalls what another linked to a
  third. `ThreeOnTwo` has three sessions on two threads, which is the least for two
  of them to merge into the skill that one added before, each from its own copy,
  and for one to append between the reads of another when the reasoning bank
  already has a memory. Curating or not and an `evo_threshold` that is
  reached or not are chosen in `Init`. Sessions are interchangeable, which the
  symmetry uses; no liveness is checked there.
- Two Tau2 sessions contend for the one slot; two steps let an action be answered
  and a second one meet the limit, None, or the end of the runner.
- `SmallAssignments` has each runner alone or, where it stands on an environment,
  next to an uninstall of it, and installations and removals next to each other;
  runners share nothing else. Two calls let an answer come late for the next call.
- A dialogue of three steps has a first action, one that is answered and then
  answered again or refused, and one that meets a limit; a limit of four actions
  with replies of up to two calls cuts a reply in its middle.
- A queue of two fills up with one session's events, and drops one of the other's.

`CHECK_DEADLOCK FALSE` is in `sessions`, `tau2_pairing`, `runners`, `dialogue` and
`trace_dedup`, whose actors simply finish. The other specifications have an
explicit end.

### Fairness

| module | assumed | because |
|---|---|---|
| `Coordinator` (`FairSpec`) | the session loop, the agent's thread and every waiting call go on | they are threads, `react`, `session.step` and the agent's code return, and the window has a timeout; no thread has to make a call, and the agent's code does not have to fail |
| `SessionExecution` | a live process goes on | no wait on the lock: it is tried and given up; no process has to be started, fail or crash |
| `EvaluationRun` | the main thread and every session's worker go on | threads of the pool; nobody has to interrupt |
| `PairedSession` | host and runner go on | two threads, whose waits end by a sentinel or a timeout; a timeout or a failed setup does not have to happen |
| `Runner` | caller and worker go on | but no call has to time out, no worker has to die and nobody has to interrupt |
| `Dashboard` | the timer ticks and the run goes on | the run as a whole: what its threads do does not block one another |
| `CliAgent` (`FairSpec`) | both threads run, the waits for server and proxy are bounded, the session answers a tool call or ends over it, ends when its agent has, and a program whose calls are answered ends | no process has to die, nobody has to interrupt, a program that waits for a tool does not have to end |

`LearningExperiment` states the script's fairness and no run relies on it;
`LearningAgents`, `Dialogue` and `TraceLog` have safety properties only.

## 5. Where the code does not do what it says

| run | what happens |
|---|---|
| `coordinator_crash` | `finally: execute(None)` closes the coordinator before the exception is recorded, so `react()` may return None. A test expects the status ERROR. |
| `trace_dedup` | A logger's cache outlives the file it speaks about: after the cleanup of a retried session the new file lacks the definitions, and `iter_expanded_trace_rows` raises `KeyError`. `docs/TEAM_SETUP.md` says that complete requests can be restored. |

What the models do as the code does, without a run of its own:

*Agents.* `execute()` returns when the turn changes, also if its action was queued
after the flush of that turn, and then with another action's observation. A finish
action is queued without waiting and may be dropped when the agent's code ends
first (`mcp_agent.py:77`). BFCL leaves the second of two finish calls unanswered.
The tool-calling agent's hidden `message` tool is unknown to every benchmark, and
its answer becomes a user message. A command-line agent's `close` tests
`self._cli` and reads it again: when the other thread has cleared it in between,
an `AttributeError` leaves `agent_instance.close()` and can turn a scored session
into a failed one. Its server is drained (for up to a minute) before the
coordinator is closed. `proxy.start()` is outside the try block, and a `stop()`
before the server is built is lost, so an interrupted session can leave either
behind. `on_session_error` records the session without its agent, so a session
whose `react` raised has no cost in its `results.json`, although
`docs/custom-models.md:215` says that the cost of every completion is there. A
session that ends over a tool call records a cost that lacks the later
calls of the model.

*Sessions and runs.* The lock of a session is tested by taking it, so `status()`
in another process holds it for a moment, and an evaluation that samples or starts
the session then skips it as if it were running: the one evaluation there is can
leave out a session that is missing, although `docs/batch.md:110` says that
missing ones are executed. The results of a run on several workers are computed
when its first failure or cancellation is collected; what other workers record
after that is on disk and not in them, although `docs/output-format.md:113` says
that `total_sessions` counts the sessions that were executed.
`_cleanup_session_dir` deletes the directory with the lock file that was just
acquired, so two runs can execute a session at once. The status sampled before the
lock is refreshed only if it was RUNNING, so an overlapping run can delete a
completed result (`CompletedSurvives` is about runs in turn). An exception of a
controller does not stop the run, although `docs/observers.md:151` says so. A
limit stop is COMPLETED when sampled without a lock and INCOMPLETE with it. The
limit controller is asked before `session.done()`, so a session that finishes with
its last step counts as limited; its counts survive a failed attempt. A failed
task of a serial run makes `tracker.results()` raise. A recorded session that then
failed is listed again when it is retried. An exception in the training feedback
loses the score; one in `close()` replaces a cancellation. A benchmark's error
leaves its session unclosed (`session.py:128`). Ctrl-C ends one evaluation of an
experiment, not the experiment. With one retry an interleaved experiment skips a
task that was never run, because the store counts the session twice
(`SkippedWorkIsDone` excepts that case); reused sessions do not teach the store
again, so after an older checkpoint what they taught is lost.

*Scores.* A run's aggregate is read from the file a benchmark writes at its close.
BrowseComp's judge is asked twice. Two comments of AppWorld's `score` (399, 419) do
not say what it does.

*What is shown.* The label of the file log and of the dashboard can disagree with
the status in the results. A parallel run reports "saved" while threads still run,
so a new one can be started beside it. When `score()`, the training feedback or the
recording raises, no observer is told that the session is over, and it is still
counted as running ("Currently running sessions", `panels.py:38`) after its run.
Sessions that fail before
`on_session_start` are never shown. The gathered steps of a failed attempt count
with the retry. The OpenTelemetry observer reads what `on_session_creation` would
have set, which the tracker never calls.

*Elsewhere.* A second caller of `run_sync` that comes before the loop runs starts a
second one. `batch patch` takes a dataset that could not be loaded for one that
does not exist and overwrites it.

## 6. Theorems

`CoordinatorProofs`, `SessionExecutionProofs`, `EvaluationRunProofs`,
`LearningExperimentProofs`, `LearningAgentsProofs`, `PairedSessionProofs`,
`RunnerProofs` and `AgentSideProofs` (`CliAgent`, `TraceLog`, `Dialogue` and
`Dashboard`) hold the proofs. They assume nothing but the
named assumptions on the constants, so they hold for any number of threads,
processes, sessions, tasks, actors and calls. Two theorems speak of a case and
say so in their statement: `SequentialRunsImplementRecord` of runs without
`--overwrite`, and `RestoredUnlessRemoved` of traces that are not removed.

Every safety property that a passing run checks is a theorem; the name of the
property follows that of the theorem where they differ.

**Coordinator.** `TypeCorrect`, `DoneIsTheAgentsDecision` (`DoneMeansEnded`),
`ClosedForActions` (`NothingGivenAfterClose`), `CallsGivenInOrder`
(`GivenInOrder`), `SelectionKeepsTheAnswer` (`SelectionKeepsAnswer`),
`EveryRoundIsAnswered` (`RoundsAreAnswered`). Inductive: `IInv` = `TypeOK` and
`CountInv` (a waiting call has been counted, the loop has steps left),
`CloseInv` (who may have closed the coordinator while the loop runs, and that a
closed queue is empty or ends the session), `WindowInv` (the window is open
only on a queue with something in it) and `PhaseInv`. `CloseInv` is the point:
`DoneMeansEnded` is not inductive since a flush of an empty or a None queue is
what ends the loop, and only the end of the agent's code can have made it so.
`OrderInv` is about the actions executed and those queued as one sequence: each
thread's calls in it are in order, and none is in it that its thread has not made.
`ObservationInv`: what `step` returned and is not published yet answers the last
actions, and what is published names only actions that it answers; that rewiring
and selection then keep the part that answers an action is shown by lemmas about
`CoordinatorObservations`, for parts in any number and order. `RoundInv`: as long
as the calls come in rounds, the action of a waiting call is queued, is with the
benchmark, or is answered by the observation of a newer turn (`AwaitInv`).

**SessionExecution.** `TypeCorrect`; `EvaluationsAloneNeverAllSkip`
(`NeverAllSkip`), where there are no status queries, and `SomeoneAlwaysTakesIt`
(`SomeoneTakesIt`), where there are: if every evaluation skipped the session, a
query misled one. They rest on `HeldInv` (the holder of the lock is at work) and
`TakerInv` (some evaluation was misled, or neither skipped nor is about to): to
see the lock held, there must be a holder, which is an evaluation or a query;
`SequentialRunsKeepResults` and `SequentialRunsImplementRecord` for runs that do
not overlap, with `AloneInv`: at most one process is not idle and its sampled
status agrees with the files at the steps that use it. Runs in turn and runs that
overlap are one specification, so the invariant is `~overlap => AloneInv`.

**EvaluationRun.** `TypeCorrect`, `AttemptsStayWithinLimits`,
`ReturnedSessionsAreClosed`, `SuccessIsComplete`, `ParallelRunsReturnResults`,
`CancellationIsFinal` (`CancelStopsTheRun`: the run has failed and nothing more is
handed out, while workers finish what they have) and `ReportedResultsAreRecorded`
(`ReportedIsRecorded`). `ReturnedSessionsAreClosed` excepts a task that Ctrl-C or
an exception of a handler broke off, and the session of a broken benchmark.
`CauseInv` ties a session's place to the cause its loop
ended with; `LimitInv` ties the controller's counts to the steps taken, exactly
in a first attempt and from above in a retry; `OpenInv` says what each place has
open; `ToldInv` that a session that returned is listed with what its file says;
`RunInv` that a run without an error has collected every task before it computes
its results. `SerialInv` and `ParallelInv` say how far the results may be behind
the list: on one worker nothing is in flight when they are computed, and on several
a session is recorded at most once, so that an entry that is there is complete.

**LearningExperiment.** `TypeCorrect`, `SkippedIsDone` (`SkippedWorkIsDone`),
`OneLaunchIsExact` (`UninterruptedIsExact`) and `RelaunchReports`
(`OneRelaunchReports`). What a launch skips is decided from the checkpoints and
the metrics lines, which are written at other times than the session results, so
the invariant relates the three. `LineInv`: a benchmark with all its lines is
done; as long as there is no checkpoint, any benchmark with a line is even
complete (its sessions were all reused, no agent was started, so there was nothing
to save), and so is a benchmark with all its lines that is still ahead of the
loop. That last part keeps `Start` from deleting a result that a later launch
would count on. `CountInv`: in an interleaved experiment the sessions counted by a
store are at most the tasks passed, and one more while a task is executed; a retry
breaks it, which is why the theorem excepts it. `DoneInv` follows the tasks of the
evaluation under way, `StoreInv` bounds a checkpoint by the store, and `PlanInv`
has what an evaluation may look at. The other two are about experiments in which
nothing was interrupted or retried, so their invariant (`SmoothInv`) is
conditional on that. `FirstInv` says, at every place of the first launch, how many
lines there are, which tasks have no result yet and what the stores have learned;
`FilesInv` that what it leaves when it dies are the first lines, in order;
`ReportInv` that every group a first or second launch has passed or skips has a
line for each of its tasks.

**LearningAgents.** One theorem for each agent's store: `AceIds`
(`AceIdsIdentify`), `AceAloneLoses` (`AceAloneLosesNothing`), `HarnessStands`
(`HarnessLibraryStands`), `BankExplained` (`AutoskillBankExplained`), `RbRecalls`
(`RbRecallsWhatItFound`), `AmemStands` (`AmemStoreAgrees`). All rest on `MetInv`,
that two sessions which run now have met: a session that has met nobody is the
only one running, so what it read before a call of a model is still there when it
writes. Three need more than that. The reasoning bank holds for sessions that
overlap because its lists only grow at the end, and `RbInv` says that what a
session has read of the embeddings, the entries and the ids are three beginnings
of the lists as they are now; `RbOwnInv` that a session's own memory stands where
it put it, with all that came before, so that the checkpoint it writes has them.
The history of the skill bank holds for sessions that overlap because what a skill
was made from can be read off the sessions themselves, their places, what they
found and what they did (`Source`), for the skill in the bank and for every older
copy a session has found (`FoundStands`): a stale merge writes less than the bank
had, but nothing that is not accounted for, and what it dropped (`Covers`) came
from a session that ran at the same time as one of those the skill is made of.
A-Mem's lock is held by the session whose place says so (`AmPlace`), and `AmIndex`
excepts the time in which that session has changed notes and not counted it
(`Uncounted`). `HarnessInv` says at each place of an evolver run what a rollback
would put back.

**PairedSession.** `TypeCorrect`, `OwnAdoption` (`AdoptsItsOwn`), `SlotReturns`
(`SlotIsGivenBack`), `TurnsMatch` (`AnsweredInTurn`), `ScoresAreFull`
(`ScoredInFull`), `PrintIsRestored`. The slot is owned by one session between the
semaphore and the adoption or the timeout, and whoever gives it back also takes
itself off the stage. Between the test and the lock nobody else can have taken the
stage, since the semaphore is still the runner's own: the assertion holds, and the
unlocked test cannot release the slot a second time. What the two queues hold is
determined by the places of the two threads and the counts of what was sent and
taken.

**Runner and Environment.** `TypeCorrect`, `AnswersMatch` (`AnswersBelong`),
`CloseRuns` (`CloseHasRun`), `MarkerIsTrue`, `VenvIsListed` (`NothingForgotten`).
The queue of requests, what is handled and the queue of answers hold at most one
call between them, the last; a service keeps older calls that timed out, and never
answers them to somebody else. The marker's part relates each actor's copy to the
place it is at, for actors that did not overlap.

`AnswersBelong` and `CloseHasRun` say nothing of a caller that was interrupted in a
call: it may take the answer it left behind for that of a later one.

**TraceLog.** `TraceTypeCorrect`, `RestoredUnlessRemoved`: what a logger believes
to be in the file is there, and a call is written only after what it refers to.

**CliAgent.** `CliTypeCorrect`, `NothingIsLeftRunning` (`NothingLeftRunning`),
`CostOfAnEndedAgent` (`CostIsFinal`, which is about sessions whose `react`
returned None: the program and the proxy are gone by then, and with them the last
callback). Neither property is inductive, because both
threads test, stop and clear the same three attributes. `AgentInv`, `ProxyInv` and
`ServerInv` say, for each place of each thread, that what was started is still
referred to, or is held by the thread that is about to stop it, or has ended.

**Dialogue.** `DialogueTypeCorrect`, `EveryCallIsAnswered` (`CallsAreAnswered`),
`FinishedMeansSubmitted` (`FinishIsHonest`), `TheScoreIsWritten`
(`SavedAsRecorded`). `ChatInv`: when it is the agent's turn the observation fits the
last assistant message, that is, it answers each of its calls once unless the call
is of a kind that is left open, and no call of that message has been answered yet.
That every benchmark's `step`, the dispatch to handlers and the merging of their
observations fit is shown for an action of any length. `ScoreInv`: until the
session is scored nothing is graded or recorded, and after it a second look at the
answer would grade it the same, except for the two judges that are asked twice.

**Dashboard.** `DashboardTypeCorrect`, `LeaderboardStaysFresh`
(`LeaderboardIsFresh`), `WhatIsShownWasTold` (`ShownIsTold`). The leaderboard
needs the places of the run's thread (`ThreadInv`, `SavedInv`, `FreshInv`),
whatever is lost. `WhatIsShownWasTold` is about runs that have lost nothing so
far. Its invariant looks at the queue, the batch that is being moved and what is
still gathered as one sequence, and says (`ViewInv`) what the dashboard would show
of a session if all of it arrived (`Seen`): what was told of it (`AsTold`), or,
while it is tried again, that it runs. What was told is what is true, except that
a session which raised without a word is still "running". It needs that a session
is in the plan or with one worker (`CrewInv`), that whoever holds the lock puts
what was gathered and the others events of their own session (`MoverInv`,
`BatchInv`), that a thread which is not through with its session has counted its
steps (`TruthInv`), and that nothing of a session is gathered when it begins or
its end is told (`FlushInv`). A tick shows a part of that sequence, so `Seen` is
unchanged: this is an induction over the number of events.

Induction over a natural number is within reach as an induction over a set of
numbers that has a least element, so a recursive function such as `Played` can be
reasoned about. The theorems of the library with an operator as parameter cannot
be instantiated, so neither can the folds: `Played` is a recursive function for
that reason.

### Only model-checked

Liveness: `CallsReturn` of `Coordinator` and of `Runner`, `SessionEnds`,
`RunsEnd`, `RunEnds`, `SessionsFinish`, `StartAgain` and `Released`. Temporal
properties under fairness need `ENABLED`, which the prover does not have.

## 7. What the models leave out

- `Coordinator`: `react(None)` (the session loop never calls it), the wording of
  the final answer, and the MCP server's own threads.
- `SessionExecution`: `config.json`, which no decision reads; opening and locking
  the lock file is one step, as is a pair of adjacent stat calls.
- `EvaluationRun`: the order of the sessions, other processes except that they may
  hold a session's lock, the contents of the training feedback, and the numbers of
  the aggregation. An interrupt is between two steps of the model, and the
  handlers it runs through are not interrupted again.
- `LearningExperiment`: a `results.json` is written in one step (half-written ones
  are in `SessionExecution`), and so is the metrics file when a launch cuts it.
  Ctrl-C comes while a session runs; at other times it is a `Crash`, which also
  stands for every exception nothing handles. A count of 0 stands for a store that
  was not created. The order of the tasks, the summary and the plots.
- The learning agents: prompts, scores, the text of bullets, skills and notes,
  what a model says, and loading a checkpoint (ACE's is in `LearningExperiment`).
- `PairedSession`: how Tau2 writes its results file is external. Several sessions
  share a process only with the direct, thread and service runners.
- `Environment`, `Runner`: `EnvType.LOCAL`, which installs into the running
  interpreter; what uv and docker do, ports and health checks; the context file a
  worker starts from; the direct runner, which is a call; several callers of one
  proxy, which no code makes. What is left of a venv that cannot be removed
  (`rmtree` with `ignore_errors`).
- `BenchmarkSessions`: a BFCL call without a result (its library is assumed to
  return one for each call); task lists, evaluators, judges' prompts and
  aggregation.
- `ToolCallingAgent`: the shortlist of tools and the trimming of the chat.
- `Dashboard`: forms, panels, charts and the reading of old runs.
- `CliAgent`: containers, the programs' configuration and output, and the closing
  of the proxy's log file.
- `TraceLog`: a line is written as a whole, so torn lines are not in the model,
  and the full format, which has no references.
- Without a module: the telemetry observers, the log files, the response cache,
  cost tables, registries and settings, and the command line (`analyze`,
  `compare`, `batch`, options and rendering) with its library functions. They are
  calculation and presentation over files that are complete, calls of third-party
  libraries, or calls of `core_run`; they make up about half of the package's
  lines. `PROJECT.json` says for each component what is left out.
