------------------------- MODULE LearningExperiment -------------------------
(***************************************************************************)
(* A continual-learning experiment: a script evaluates the tasks of its    *)
(* benchmarks in order, the agent's store learns from every session, and   *)
(* the script saves the store and one metrics line per task so that it can *)
(* be launched again after it died.  The orchestrator finds the sessions   *)
(* that are complete in the output directory and reuses their results: no  *)
(* agent is started for them.  The session directory is the subject of     *)
(* SessionExecution and the ways a session ends that of EvaluationRun; here*)
(* a session is its three steps that the store and the files see.          *)
(***************************************************************************)
EXTENDS Naturals, Sequences, FiniteSets, FiniteSetsExt

CONSTANTS Modes,          \* the values of --mode
          NumTasks,       \* length of the task order
          Block,          \* the benchmark of each task
          MaxLaunches,    \* bound: how often the script is launched
          MaxInterrupts,  \* bound: how often Ctrl-C is pressed
          MaxTransients   \* bound: errors that are retried; all of them in
                          \* one session stay below _MAX_SESSION_RETRIES

ASSUME ModesAssumption == Modes \subseteq {"isolated", "sequential", "interleaved"}
ASSUME TasksAssumption == NumTasks \in Nat \ {0}
ASSUME BlockAssumption ==
  /\ Block \in [1..NumTasks -> 1..NumTasks]
  /\ \A t, u \in 1..NumTasks : t <= u => Block[t] <= Block[u]
ASSUME BoundsAssumption == MaxLaunches \in Nat /\ MaxInterrupts \in Nat /\ MaxTransients \in 0..2

VARIABLES
  mode,
  \* The output directory.
  ckpt,        \* per store, the last checkpoint written
  torn,        \* stores whose checkpoint file is open for writing
  metrics,     \* online_metrics.jsonl: the task named and the task scored
  file,        \* per task, the outcome in its results.json
  lessons,     \* tasks with a playbook_checkpoint.json in their session
  \* The process of the script.
  mem,         \* PlaybookStore._instances: count 0 stands for no store
  pc,
  skip,        \* _restored_session_count, 0 if nothing was restored
  finished,    \* _completed_benchmarks
  at,          \* the group of tasks evaluated now
  reuse,       \* complete sessions of the evaluation still to be listed
  todo,        \* tasks of the evaluation still to be executed
  results,     \* tasks in the results of the evaluation, in order
  noResults,   \* core_run will not return them
  line,        \* the next result to write a metrics line for
  \* The world.
  launches, interrupts, transients,
  leftOut      \* tasks an interrupted evaluation left without a result

session == <<file, lessons>>
disk  == <<ckpt, torn, metrics, session>>
eval  == <<reuse, todo, results, noResults>>
loop  == <<skip, finished, at>>
world == <<launches, interrupts, transients, leftOut>>
vars  == <<mode, disk, mem, pc, loop, eval, line, world>>

Tasks  == 1..NumTasks
Stores == 1..NumTasks

Interleaved == mode = "interleaved"

\* One evaluate() call per task, or one per benchmark.
GroupOf(t) == IF Interleaved THEN t ELSE Block[t]
NumGroups  == GroupOf(NumTasks)
Group(g)   == {t \in Tasks : GroupOf(t) = g}

\* Mutant of StoreOf: isolated benchmarks share a store.
StoreOfShared(g) == 1

StoreOf(g) == IF mode = "isolated" THEN g ELSE 1

Here == StoreOf(at)

Fresh == [count |-> 0, learned |-> <<>>]

\* t comes n-th in S.
Nth(t, n, S) == t \in S /\ Cardinality({u \in S : u < t}) = n - 1
First(t, S)  == t \in S /\ \A u \in S : t <= u

\* What a process that is not there knows.
Forget ==
  /\ mem' = [s \in Stores |-> Fresh]
  /\ skip' = 0 /\ finished' = {} /\ at' = 1
  /\ reuse' = {} /\ todo' = {} /\ results' = <<>> /\ noResults' = FALSE
  /\ line' = 1

Init ==
  /\ mode \in Modes
  /\ ckpt = [s \in Stores |-> Fresh] /\ mem = ckpt
  /\ torn = {} /\ metrics = <<>>
  /\ file = [t \in Tasks |-> "none"] /\ lessons = {}
  /\ pc = "down"
  /\ skip = 0 /\ finished = {} /\ at = 1
  /\ reuse = {} /\ todo = {} /\ results = <<>> /\ noResults = FALSE
  /\ line = 1
  /\ launches = 0 /\ interrupts = 0 /\ transients = 0
  /\ leftOut = {}

------------------------------------------------------------------------------
(* The beginning of run_experiment.                                         *)

Restored == Max({ckpt[s].count : s \in Stores})

\* The metrics lines a launch keeps: as many as the largest session count.
Kept == IF Restored > 0 /\ Restored < Len(metrics)
          THEN SubSeq(metrics, 1, Restored) ELSE metrics

LinesOf(g, lines) == Cardinality({i \in DOMAIN lines : Block[lines[i].label] = g})

\* Mutant of Completed: one line is enough.
CompletedIfAny(lines) ==
  IF Interleaved \/ Restored = 0 THEN {}
  ELSE {g \in 1..NumGroups : LinesOf(g, lines) > 0}

\* Benchmarks with as many metrics lines as tasks are not evaluated again.
Completed(lines) ==
  IF Interleaved \/ Restored = 0 THEN {}
  ELSE {g \in 1..NumGroups : LinesOf(g, lines) >= Cardinality(Group(g))}

\* The stores are restored from the checkpoints, if all of them can be read.
Launch ==
  /\ pc = "down" /\ launches < MaxLaunches
  /\ launches' = launches + 1
  /\ \/ /\ torn = {}
        /\ mem' = ckpt
        /\ skip' = Restored
        /\ metrics' = Kept
        /\ finished' = Completed(Kept)
        /\ pc' = "group"
     \/ /\ torn # {}
        /\ pc' = "stuck"
        /\ UNCHANGED <<mem, skip, metrics, finished>>
  /\ UNCHANGED <<mode, ckpt, torn, session, at, eval, line, interrupts,
                 transients, leftOut>>

------------------------------------------------------------------------------
(* The loop over the groups, and the evaluation of one.                     *)

AfterGroup == at + 1

\* Mutant of Skipped: one group too many.
SkippedOneMore(g) == IF Interleaved THEN skip > 0 /\ g <= skip + 1 ELSE g \in finished

Skipped(g) == IF Interleaved THEN g <= skip ELSE g \in finished

SkipGroup ==
  /\ pc = "group" /\ at <= NumGroups /\ Skipped(at)
  /\ at' = AfterGroup
  /\ UNCHANGED <<mode, disk, mem, pc, skip, finished, eval, line, world>>

\* The plan of core_run: complete sessions are reused, the others executed.
Evaluate ==
  /\ pc = "group" /\ at <= NumGroups /\ ~Skipped(at)
  /\ reuse' = {t \in Group(at) : file[t] = "complete"}
  /\ todo' = Group(at) \ reuse'
  /\ results' = <<>> /\ noResults' = FALSE /\ line' = 1
  /\ pc' = "task"
  /\ UNCHANGED <<mode, disk, mem, loop, world>>

EndExperiment ==
  /\ pc = "group" /\ at > NumGroups
  /\ pc' = "ended"
  /\ UNCHANGED <<mode, disk, mem, loop, eval, line, world>>

\* Reused results come first in the results of the evaluation.
ListReused(t) ==
  /\ pc = "task" /\ First(t, reuse)
  /\ results' = Append(results, t)
  /\ reuse' = reuse \ {t}
  /\ UNCHANGED <<mode, disk, mem, pc, loop, todo, noResults, line, world>>

\* t is the next task to execute, or the one that is executed.
Due(t) == reuse = {} /\ First(t, todo)

\* The retry of a session that had recorded its results.
RetryReuses(t) ==
  /\ pc = "task" /\ Due(t) /\ file[t] = "complete"
  /\ results' = Append(results, t)
  /\ todo' = todo \ {t}
  /\ UNCHANGED <<mode, disk, mem, pc, loop, reuse, noResults, line, world>>

\* The session directory is emptied.
CleanUp(t) ==
  /\ file' = [file EXCEPT ![t] = "none"]
  /\ lessons' = lessons \ {t}

\* Old results are removed; the session starts, then the agent does and counts
\* the session in its store.
Start(t) ==
  /\ pc = "task" /\ Due(t) /\ file[t] # "complete"
  /\ CleanUp(t)
  /\ mem' = [mem EXCEPT ![Here].count = @ + 1]
  /\ pc' = "run"
  /\ UNCHANGED <<mode, ckpt, torn, metrics, loop, eval, line, world>>

\* The results observer lists the outcome and writes it.
Record(t) ==
  /\ pc = "run" /\ Due(t)
  /\ \E o \in {"complete", "failed"} : file' = [file EXCEPT ![t] = o]
  /\ results' = Append(results, t)
  /\ pc' = "recorded"
  /\ UNCHANGED <<mode, ckpt, torn, metrics, lessons, mem, loop, reuse, todo,
                 noResults, line, world>>

Learn(t) ==
  /\ mem' = [mem EXCEPT ![Here].learned = Append(@, t)]
  /\ lessons' = lessons \cup {t}

\* The agent learns when it is closed.
Close(t) ==
  /\ pc = "recorded" /\ Due(t)
  /\ Learn(t)
  /\ todo' = todo \ {t}
  /\ pc' = "task"
  /\ UNCHANGED <<mode, ckpt, torn, metrics, file, loop, reuse, results, noResults,
                 line, world>>

\* An exception leaves the session before the agent is closed.
Raise(t) ==
  /\ Due(t)
  /\ \/ pc = "task" /\ file[t] # "complete" /\ CleanUp(t)
     \/ pc \in {"run", "recorded"} /\ UNCHANGED session
  /\ todo' = todo \ {t}
  /\ noResults' = TRUE
  /\ pc' = "task"
  /\ UNCHANGED <<mode, ckpt, torn, metrics, mem, loop, reuse, results, line, world>>

\* One that _execute_sessions_serial recognises: the session is retried.
RaiseTransient ==
  /\ pc \in {"run", "recorded"} /\ transients < MaxTransients
  /\ transients' = transients + 1
  /\ pc' = "task"
  /\ UNCHANGED <<mode, disk, mem, loop, eval, line, launches, interrupts, leftOut>>

\* Ctrl-C while a session runs: core_run returns what it has, so the script
\* goes on.  In the session loop the session is recorded as cancelled and
\* closed; before and after it nothing is.
Interrupt(t) ==
  /\ pc = "run" /\ Due(t) /\ interrupts < MaxInterrupts
  /\ interrupts' = interrupts + 1
  /\ \/ /\ file' = [file EXCEPT ![t] = "failed"]
        /\ results' = Append(results, t)
        /\ Learn(t)
     \/ UNCHANGED <<session, results, mem>>
  /\ leftOut' = leftOut \cup {u \in Group(at) : file'[u] = "none"}
  /\ todo' = {} /\ noResults' = FALSE
  /\ pc' = "task"
  /\ UNCHANGED <<mode, ckpt, torn, metrics, loop, reuse, line, launches, transients>>

------------------------------------------------------------------------------
(* After the evaluation.                                                    *)

Evaluated == pc = "task" /\ reuse = {} /\ todo = {}

Broken == noResults \/ (Interleaved /\ results = <<>>)

HasStore == mem[Here].count > 0

Line(label, of) == metrics' = Append(metrics, [label |-> label, of |-> of])

\* An interleaved task is reported, then the store saved.
ReportTask ==
  /\ Evaluated /\ ~Broken /\ Interleaved
  /\ Line(at, results[1])
  /\ \/ HasStore  /\ pc' = "save" /\ UNCHANGED at
     \/ ~HasStore /\ pc' = "group" /\ at' = AfterGroup
  /\ UNCHANGED <<mode, ckpt, torn, session, mem, skip, finished, eval, line, world>>

\* The store of a benchmark is saved before its tasks are reported.
ReportGroup ==
  /\ Evaluated /\ ~Broken /\ ~Interleaved
  /\ pc' = IF HasStore THEN "save" ELSE "metrics"
  /\ UNCHANGED <<mode, disk, mem, loop, eval, line, world>>

\* save_checkpoint opens the file, which empties it, and then writes it.
OpenCheckpoint ==
  /\ pc = "save"
  /\ torn' = torn \cup {Here}
  /\ pc' = "write"
  /\ UNCHANGED <<mode, ckpt, metrics, session, mem, loop, eval, line, world>>

WriteCheckpoint ==
  /\ pc = "write"
  /\ ckpt' = [ckpt EXCEPT ![Here] = mem[Here]]
  /\ torn' = torn \ {Here}
  /\ \/ Interleaved  /\ pc' = "group" /\ at' = AfterGroup
     \/ ~Interleaved /\ pc' = "metrics" /\ UNCHANGED at
  /\ UNCHANGED <<mode, metrics, session, mem, skip, finished, eval, line, world>>

\* The i-th result is reported under the name of the i-th task of the group.
ReportResult ==
  /\ pc = "metrics" /\ line <= Len(results)
  /\ \E label \in Tasks :
       /\ IF line <= Cardinality(Group(at)) THEN Nth(label, line, Group(at))
                                           ELSE label = results[line]
       /\ Line(label, results[line])
  /\ line' = line + 1
  /\ UNCHANGED <<mode, ckpt, torn, session, mem, pc, loop, eval, world>>

EndGroup ==
  /\ pc = "metrics" /\ line > Len(results)
  /\ pc' = "group" /\ at' = AfterGroup
  /\ UNCHANGED <<mode, disk, mem, skip, finished, eval, line, world>>

------------------------------------------------------------------------------
(* The end of the process.                                                  *)

\* tracker.results() raises, or there is no results[0]: the script dies.
NoResults ==
  /\ Evaluated /\ Broken
  /\ pc' = "down" /\ Forget
  /\ UNCHANGED <<mode, disk, world>>

Up == pc \notin {"down", "ended", "stuck"}

Crash ==
  /\ Up
  /\ pc' = "down" /\ Forget
  /\ UNCHANGED <<mode, disk, world>>

Rest ==
  /\ ~Up /\ (pc = "down" => launches = MaxLaunches)
  /\ UNCHANGED vars

Script ==
  \/ SkipGroup \/ Evaluate \/ EndExperiment
  \/ \E t \in Tasks : ListReused(t) \/ RetryReuses(t) \/ Start(t) \/ Record(t) \/ Close(t)
  \/ ReportTask \/ ReportGroup \/ OpenCheckpoint \/ WriteCheckpoint
  \/ ReportResult \/ EndGroup \/ NoResults

Next ==
  \/ Launch \/ Script \/ Crash
  \/ RaiseTransient \/ \E t \in Tasks : Raise(t) \/ Interrupt(t)
  \/ Rest

\* The script runs on; nobody has to launch, interrupt or break it.
Spec == Init /\ [][Next]_vars /\ WF_vars(Script)

------------------------------------------------------------------------------
(* Properties.                                                              *)

Places == {"down", "group", "task", "run", "recorded", "save", "write",
           "metrics", "ended", "stuck"}

TypeOK ==
  /\ mode \in Modes
  /\ ckpt \in [Stores -> [count : Nat, learned : Seq(Tasks)]]
  /\ mem \in [Stores -> [count : Nat, learned : Seq(Tasks)]]
  /\ torn \subseteq Stores
  /\ metrics \in Seq([label : Tasks, of : Tasks])
  /\ file \in [Tasks -> {"none", "complete", "failed"}]
  /\ pc \in Places
  /\ skip \in Nat /\ finished \subseteq Tasks
  /\ at \in 1..NumGroups + 1
  /\ reuse \subseteq Tasks /\ todo \subseteq Tasks /\ results \in Seq(Tasks)
  /\ noResults \in BOOLEAN /\ line \in Nat \ {0}
  /\ launches \in Nat /\ interrupts \in Nat /\ transients \in 0..MaxTransients
  /\ leftOut \subseteq Tasks /\ lessons \subseteq Tasks

InOrder(S) == [i \in 1..Cardinality(S) |->
                 CHOOSE t \in S : Cardinality({u \in S : u < t}) = i - 1]

\* An experiment that was neither broken nor interrupted reports every task
\* once, in order and with its own result, and each store has learned from the
\* tasks of its own, in order.
UninterruptedIsExact ==
  pc = "ended" /\ launches = 1 /\ interrupts = 0 /\ transients = 0 =>
    /\ metrics = [t \in Tasks |-> [label |-> t, of |-> t]]
    /\ \A g \in 1..NumGroups :
         mem[StoreOf(g)].learned =
           InOrder(IF mode = "isolated" THEN Group(g) ELSE Tasks)

\* When the experiment ends every task has a session with a result, except those
\* an interrupt left out: what a launch skips as cached was done.
EndedMeansEvaluated ==
  pc = "ended" => \A t \in Tasks : file[t] # "none" \/ t \in leftOut

\* That is so however often the experiment was launched, unless a retry counted a
\* session of an interleaved experiment twice.
SkippedWorkIsDone == transients = 0 \/ ~Interleaved => EndedMeansEvaluated

\* When the experiment ends every task has a line in online_metrics.jsonl.
EndedMeansReported ==
  pc = "ended" => \A t \in Tasks : \E i \in DOMAIN metrics : metrics[i].label = t

\* That is so if it had to be launched again once and was not interrupted.
OneRelaunchReports ==
  launches <= 2 /\ interrupts = 0 /\ transients = 0 => EndedMeansReported

=============================================================================
