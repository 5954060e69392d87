--------------------------- MODULE SessionExecution ---------------------------
(***************************************************************************)
(* The execution of one session by the runs that share its directory       *)
(* (core/orchestrator/execution.py, run.py; core/types/session.py, run.py; *)
(* utils/paths.py).  A run is a process: it samples the status of the      *)
(* session (SessionStatus.from_config), plans (RunPlan), and then reuses   *)
(* the recorded results, skips the session, or executes it under a file    *)
(* lock that is kept in the session's own directory.  A sampler is a       *)
(* process that only asks for the status, which takes the lock too.        *)
(*                                                                         *)
(* Processes interleave between system calls; two adjacent stat calls are  *)
(* one step.  A file is an inode: a lock or a write belongs to the file    *)
(* that was opened, which another process may have unlinked since.         *)
(***************************************************************************)
EXTENDS Naturals

CONSTANTS
  Runs,        \* processes that evaluate the same experiment
  Samplers,    \* processes that ask for its status (status(), preview())
  Overlaps,    \* are they alive at the same time? FALSE, TRUE or either
  Overwrite,   \* overwrite_sessions
  MaxStarts,   \* times a process is started (bound) ...
  MaxOverlapping,  \* ... and when they overlap (bound)
  MaxRetries,  \* _MAX_SESSION_RETRIES
  QueriesAnywhere  \* are statuses asked anywhere, or where processes overlap and
                   \* none of them retries? (bound)

ASSUME SessionAssumption ==
  /\ Runs \cap Samplers = {}
  /\ Overlaps \subseteq BOOLEAN /\ Overwrite \in BOOLEAN
  /\ MaxStarts \in Nat /\ MaxOverlapping \in 0..MaxStarts /\ MaxRetries \in Nat
  /\ QueriesAnywhere \in BOOLEAN

VARIABLES
  overlap,    \* are the processes alive at the same time?
  \* the session directory: does it exist, its lock file and its results.json
  \* (inodes, 0 when absent), what is in the latter, the inodes ever used
  root, lockFile, resultsFile, results, inodes,
  \* the processes: control, what they are doing, the sampled facts and
  \* status, the lock and the results file they hold open, transient
  \* failures retried, evaluations begun, and how the last one ended
  pc, phase, seenResults, seenDir, status, held, opened, attempt, starts,
  verdict,
  misled      \* history: the evaluation met the lock of a sampler

disk  == <<root, lockFile, resultsFile, results, inodes>>
known == <<seenResults, seenDir, status, opened>>
local == <<known, misled>>
vars  == <<disk, local, pc, phase, held, attempt, starts, verdict, overlap>>

Processes == Runs \cup Samplers

Contents  == {"absent", "partial", "success", "limit", "error"}
Readable  == {"success", "limit", "error"}
Complete  == {"success", "limit"}
\* Where a process holds the lock of the session, and where it may write.
Locked    == {"refresh", "reuse", "cleanup", "rmdir", "config", "running",
              "writing", "closing"}
Executing == {"running", "writing"}
Attempting == Locked \ {"refresh", "reuse"}

\* The directory is new, or as an evaluation left it that recorded nothing.
Init ==
  /\ overlap \in Overlaps
  /\ lockFile \in {0, 1} /\ root = (lockFile = 1) /\ inodes = lockFile
  /\ resultsFile = 0 /\ results = "absent"
  /\ pc = [p \in Processes |-> "idle"] /\ phase = [p \in Processes |-> "plan"]
  /\ seenResults = [p \in Processes |-> FALSE] /\ seenDir = [p \in Processes |-> FALSE]
  /\ status = [p \in Processes |-> "MISSING"]
  /\ held = [p \in Processes |-> 0] /\ opened = [p \in Processes |-> 0]
  /\ attempt = [p \in Processes |-> 0] /\ starts = [p \in Processes |-> 0]
  /\ verdict = [p \in Processes |-> "none"]
  /\ misled = [p \in Processes |-> FALSE]

GoTo(p, l) == pc' = [pc EXCEPT ![p] = l]

GoOn(p, l) == GoTo(p, l) /\ UNCHANGED <<known, held, attempt, verdict>>

\* The evaluation is over with verdict v: its lock is released, and what it
\* knew is gone.
End(p, v) ==
  /\ GoTo(p, "idle")
  /\ verdict' = [verdict EXCEPT ![p] = v]
  /\ held' = [held EXCEPT ![p] = 0] /\ opened' = [opened EXCEPT ![p] = 0]
  /\ attempt' = [attempt EXCEPT ![p] = 0]
  /\ seenResults' = [seenResults EXCEPT ![p] = FALSE]
  /\ seenDir' = [seenDir EXCEPT ![p] = FALSE]
  /\ status' = [status EXCEPT ![p] = "MISSING"]

\* The bounds on starts and retries.
MayBegin(p) ==
  /\ starts[p] < (IF overlap THEN MaxOverlapping ELSE MaxStarts)
  /\ p \in Samplers /\ ~QueriesAnywhere => overlap /\ \A r \in Runs : attempt[r] = 0

MayRetry(p) ==
  /\ attempt[p] < MaxRetries
  /\ overlap /\ ~QueriesAnywhere => \A q \in Samplers : starts[q] = 0

\* A process is started to evaluate the experiment or to ask for its status.
Begin(p) ==
  /\ pc[p] = "idle"
  /\ MayBegin(p)
  /\ overlap \/ \A q \in Processes : pc[q] = "idle"
  /\ phase' = [phase EXCEPT ![p] = IF p \in Runs THEN "plan" ELSE "query"]
  /\ misled' = [misled EXCEPT ![p] = FALSE]
  /\ GoTo(p, "files")
  /\ starts' = [starts EXCEPT ![p] = @ + 1]
  /\ verdict' = [verdict EXCEPT ![p] = "none"]
  /\ UNCHANGED <<disk, known, held, attempt>>

------------------------------------------------------------------------------
(* SessionStatus.from_config: files first, then the lock, then the content. *)

SampleFiles(p) ==
  /\ pc[p] = "files"
  /\ seenResults' = [seenResults EXCEPT ![p] = results # "absent"]
  /\ seenDir' = [seenDir EXCEPT ![p] = root]
  /\ GoTo(p, "probe")
  /\ UNCHANGED <<disk, status, opened, misled, phase, held, attempt, starts,
                 verdict>>

HeldBy(q) == held[q] = lockFile /\ lockFile # 0
Busy == \E q \in Processes : HeldBy(q)

\* p meets the lock held by somebody else, which may be a sampler.
Meets(p) ==
  misled' = [misled EXCEPT ![p] = p \in Runs /\ \E q \in Samplers : HeldBy(q)]

\* Mutant of ProbeLock: it keeps the lock it got.
ProbeLockKept(p) ==
  /\ pc[p] = "probe"
  /\ IF Busy
       THEN status' = [status EXCEPT ![p] = "RUNNING"] /\ GoTo(p, "decide")
            /\ Meets(p) /\ UNCHANGED held
       ELSE held' = [held EXCEPT ![p] = lockFile] /\ GoTo(p, "read")
            /\ UNCHANGED <<status, misled>>
  /\ UNCHANGED <<disk, seenResults, seenDir, opened, phase, attempt, starts,
                 verdict>>

\* _is_session_locked: acquire the lock, if its file exists, to see if it is free.
ProbeLock(p) ==
  /\ pc[p] = "probe"
  /\ \/ /\ lockFile = 0
        /\ GoTo(p, "read") /\ UNCHANGED <<status, misled, held>>
     \/ /\ lockFile # 0 /\ ~Busy
        /\ held' = [held EXCEPT ![p] = lockFile]
        /\ GoTo(p, "release") /\ UNCHANGED <<status, misled>>
     \/ /\ Busy /\ Meets(p)
        /\ status' = [status EXCEPT ![p] = "RUNNING"]
        /\ GoTo(p, "decide") /\ UNCHANGED held
  /\ UNCHANGED <<disk, seenResults, seenDir, opened, phase, attempt, starts,
                 verdict>>

ReleaseProbe(p) ==
  /\ pc[p] = "release"
  /\ held' = [held EXCEPT ![p] = 0]
  /\ GoTo(p, "read")
  /\ UNCHANGED <<disk, local, phase, attempt, starts, verdict>>

\* Mutant of ExecutionStatus: a session that hit its limits is incomplete.
ExecutionStatusRerunsLimits(hasResults, hasDir) ==
  CASE hasResults  -> IF results \in {"error", "limit"} THEN "INCOMPLETE" ELSE "COMPLETED"
    [] ~hasResults -> IF hasDir THEN "INCOMPLETE" ELSE "MISSING"

\* The status of a session that is not running; a results file that cannot be
\* read or is gone by now has no result status, which counts as completed.
ExecutionStatus(hasResults, hasDir) ==
  CASE hasResults  -> IF results = "error" THEN "INCOMPLETE" ELSE "COMPLETED"
    [] ~hasResults -> IF hasDir THEN "INCOMPLETE" ELSE "MISSING"

ReadStatus(p) ==
  /\ pc[p] = "read"
  /\ status' = [status EXCEPT ![p] = ExecutionStatus(seenResults[p], seenDir[p])]
  /\ GoTo(p, "decide")
  /\ UNCHANGED <<disk, seenResults, seenDir, opened, misled, phase, held,
                 attempt, starts, verdict>>

------------------------------------------------------------------------------
(* RunPlan.from_config_and_status, then load_reused_results or the task.    *)

Plan(p) ==
  /\ pc[p] = "decide" /\ phase[p] = "plan"
  /\ \/ /\ status[p] = "RUNNING"
        /\ End(p, "skipped") /\ UNCHANGED phase
     \/ /\ status[p] = "COMPLETED" /\ ~Overwrite
        /\ GoOn(p, "load") /\ UNCHANGED phase
     \/ /\ status[p] # "RUNNING" /\ (status[p] = "COMPLETED" => Overwrite)
        /\ phase' = [phase EXCEPT ![p] = "task"]
        /\ GoOn(p, "mkdir")
  /\ UNCHANGED <<disk, misled, starts>>

AnswerQuery(p) ==
  /\ pc[p] = "decide" /\ phase[p] = "query"
  /\ End(p, "asked")
  /\ UNCHANGED <<disk, misled, phase, starts>>

\* Results that fail to load are logged and left out of the run.
LoadReused(p) ==
  /\ pc[p] = "load"
  /\ End(p, IF results \in Readable THEN "reused" ELSE "lost")
  /\ UNCHANGED <<disk, misled, phase, starts>>

------------------------------------------------------------------------------
(* _run_task_with_lock.                                                     *)

MakeDir(p) ==
  /\ pc[p] = "mkdir"
  /\ root' = TRUE
  /\ GoTo(p, "files")
  /\ UNCHANGED <<lockFile, resultsFile, results, inodes, local, phase, held,
                 attempt, starts, verdict>>

\* lock.acquire(timeout=0) creates the lock file, and its directory, if needed.
AcquireLock(p) ==
  /\ pc[p] = "decide" /\ phase[p] = "task"
  /\ \/ /\ Busy /\ Meets(p)
        /\ End(p, "skipped") /\ UNCHANGED disk
     \/ /\ ~Busy /\ UNCHANGED misled
        /\ IF lockFile = 0
             THEN inodes' = inodes + 1 /\ lockFile' = inodes + 1 /\ root' = TRUE
             ELSE UNCHANGED <<inodes, lockFile, root>>
        /\ held' = [held EXCEPT ![p] = lockFile']
        /\ GoTo(p, IF status[p] = "RUNNING" THEN "refresh" ELSE "reuse")
        /\ UNCHANGED <<resultsFile, results, known, attempt, verdict>>
  /\ UNCHANGED <<phase, starts>>

\* _status_from_paths_without_lock, which reruns sessions that hit a limit.
Refresh(p) ==
  /\ pc[p] = "refresh"
  /\ status' = [status EXCEPT ![p] =
       CASE results \in {"error", "limit"}     -> "INCOMPLETE"
         [] results \in {"partial", "success"} -> "COMPLETED"
         [] results = "absent" -> IF root THEN "INCOMPLETE" ELSE "MISSING"]
  /\ GoTo(p, "reuse")
  /\ UNCHANGED <<disk, seenResults, seenDir, opened, misled, phase, held,
                 attempt, starts, verdict>>

\* Mutant of TryReuse: recorded results are not looked for again.
TryReuseNever(p) ==
  /\ pc[p] = "reuse"
  /\ GoTo(p, "cleanup")
  /\ UNCHANGED <<disk, local, phase, held, attempt, starts, verdict>>

\* _try_reuse_completed.
TryReuse(p) ==
  /\ pc[p] = "reuse"
  /\ IF status[p] = "COMPLETED" /\ ~Overwrite /\ results \in Readable
       THEN End(p, "reused")
       ELSE GoOn(p, "cleanup")
  /\ UNCHANGED <<disk, misled, phase, starts>>

\* _cleanup_session_dir: rmtree removes the entries, the lock file with them,
Cleanup(p) ==
  /\ pc[p] = "cleanup"
  /\ IF root /\ (Overwrite \/ status[p] = "INCOMPLETE")
       THEN /\ lockFile' = 0 /\ resultsFile' = 0 /\ results' = "absent"
            /\ GoTo(p, "rmdir")
       ELSE GoTo(p, "config") /\ UNCHANGED <<lockFile, resultsFile, results>>
  /\ UNCHANGED <<root, inodes, local, phase, held, attempt, starts, verdict>>

\* ... or the attempts are not counted.
RaiseOrRetryForever(p, transient) ==
  /\ \/ End(p, "failed")
     \/ /\ transient /\ MayRetry(p)
        /\ GoTo(p, "mkdir")
        /\ held' = [held EXCEPT ![p] = 0] /\ opened' = [opened EXCEPT ![p] = 0]
        /\ UNCHANGED <<seenResults, seenDir, status, verdict, attempt>>
  /\ UNCHANGED <<misled, phase, starts>>

\* The task raises; a transient error is retried.
RaiseOrRetry(p, transient) ==
  /\ \/ End(p, "failed")
     \/ /\ transient /\ MayRetry(p)
        /\ attempt' = [attempt EXCEPT ![p] = @ + 1]
        /\ GoTo(p, "mkdir")
        /\ held' = [held EXCEPT ![p] = 0] /\ opened' = [opened EXCEPT ![p] = 0]
        /\ UNCHANGED <<seenResults, seenDir, status, verdict>>
  /\ UNCHANGED <<misled, phase, starts>>

\* ... then the directory, which fails when somebody wrote to it meanwhile.
RemoveDir(p) ==
  /\ pc[p] = "rmdir"
  /\ \/ /\ root /\ results = "absent" /\ lockFile = 0
        /\ root' = FALSE
        /\ GoTo(p, "config")
        /\ UNCHANGED <<lockFile, resultsFile, results, inodes, local, phase,
                       held, attempt, starts, verdict>>
     \/ /\ \/ ~root \/ results # "absent" \/ lockFile # 0
           \/ \E q \in Processes \ {p} : pc[q] \in Executing
        /\ RaiseOrRetry(p, FALSE) /\ UNCHANGED disk

WriteConfig(p) ==
  /\ pc[p] = "config"
  /\ root' = TRUE
  /\ GoTo(p, "running")
  /\ UNCHANGED <<lockFile, resultsFile, results, inodes, local, phase, held,
                 attempt, starts, verdict>>

\* ResultsObserver._record_session opens results.json for writing, ...
OpenResults(p) ==
  /\ pc[p] = "running"
  /\ root' = TRUE
  /\ results' = "partial"
  /\ resultsFile' = (IF resultsFile = 0 THEN inodes + 1 ELSE resultsFile)
  /\ inodes' = (IF resultsFile = 0 THEN inodes + 1 ELSE inodes)
  /\ opened' = [opened EXCEPT ![p] = resultsFile']
  /\ GoTo(p, "writing")
  /\ UNCHANGED <<lockFile, seenResults, seenDir, status, misled, phase, held,
                 attempt, starts, verdict>>

\* ... and writes the outcome to it; it may leave a mix with what another one
\* wrote since, or is going to write.
WriteResults(p) ==
  /\ pc[p] = "writing"
  /\ \E o \in Readable :
       results' \in IF resultsFile # opened[p] THEN {results}
                    ELSE {o} \cup (IF \/ results # "partial"
                                      \/ \E q \in Processes \ {p} : opened[q] = resultsFile
                                     THEN {"partial"} ELSE {})
  /\ opened' = [opened EXCEPT ![p] = 0]
  /\ GoTo(p, "closing")
  /\ UNCHANGED <<root, lockFile, resultsFile, inodes, seenResults, seenDir, status,
                 misled, phase, held, attempt, starts, verdict>>

\* run_session closed session and agent; the lock is released.
Finish(p) ==
  /\ pc[p] = "closing"
  /\ End(p, "ran")
  /\ UNCHANGED <<disk, misled, phase, starts>>

\* An exception leaves the task: the session cannot be started, stepped or
\* closed, the results cannot be written, Ctrl-C.
TaskRaises(p) ==
  /\ pc[p] \in {"cleanup", "rmdir", "config", "running", "writing", "closing"}
  /\ RaiseOrRetry(p, pc[p] \in {"running", "closing"})
  /\ UNCHANGED disk

\* The process dies; the system releases its lock.
Crash(p) ==
  /\ pc[p] # "idle"
  /\ End(p, "crashed")
  /\ UNCHANGED <<disk, misled, phase, starts>>

------------------------------------------------------------------------------
Work(p) ==
  \/ SampleFiles(p) \/ ProbeLock(p) \/ ReleaseProbe(p) \/ ReadStatus(p)
  \/ Plan(p) \/ AnswerQuery(p) \/ LoadReused(p) \/ MakeDir(p) \/ AcquireLock(p)
  \/ Refresh(p) \/ TryReuse(p) \/ Cleanup(p) \/ RemoveDir(p) \/ WriteConfig(p)
  \/ OpenResults(p) \/ WriteResults(p) \/ Finish(p)

Next ==
  /\ \E p \in Processes : Begin(p) \/ Work(p) \/ TaskRaises(p) \/ Crash(p)
  /\ UNCHANGED overlap

Spec == Init /\ [][Next]_vars

\* A process that is alive goes on, and a session comes to its end.
FairSpec == Spec /\ \A p \in Processes : WF_vars(Work(p) /\ UNCHANGED overlap)

------------------------------------------------------------------------------
(* Properties.                                                              *)

Statuses == {"MISSING", "INCOMPLETE", "COMPLETED", "RUNNING"}

\* The files and the processes' knowledge of them keep their types.
TypeOK ==
  /\ overlap \in BOOLEAN /\ root \in BOOLEAN /\ results \in Contents
  /\ lockFile \in Nat /\ resultsFile \in Nat /\ inodes \in Nat
  /\ pc \in [Processes -> Locked \cup {"idle", "files", "probe", "release", "read",
                                  "decide", "load", "mkdir"}]
  /\ phase \in [Processes -> {"plan", "query", "task"}]
  /\ seenResults \in [Processes -> BOOLEAN] /\ seenDir \in [Processes -> BOOLEAN]
  /\ status \in [Processes -> Statuses]
  /\ held \in [Processes -> Nat] /\ opened \in [Processes -> Nat]
  /\ attempt \in [Processes -> 0..MaxRetries] /\ starts \in [Processes -> 0..MaxStarts]
  /\ verdict \in [Processes -> {"none", "skipped", "reused", "lost", "asked", "ran",
                           "failed", "crashed"}]
  /\ misled \in [Processes -> BOOLEAN]

\* "Already-completed sessions are skipped unless overwrite_sessions"
\* (docs/batch.md:110): nothing a run does, nor a crash of it, loses or
\* replaces the results of a completed session, as long as runs do not overlap.
CompletedSurvives ==
  [][(~overlap /\ ~Overwrite /\ results \in Complete) => results' = results]_vars

\* What the runs make of SessionRecord's variables.  Runs that overlap promise
\* nothing: two of them can execute the session at the same time.
recordOf == CASE overlap -> "none"
              [] ~overlap /\ results \in {"absent", "partial"} -> "none"
              [] ~overlap /\ results = "error"     -> "failed"
              [] ~overlap /\ results \in Complete  -> "complete"
underWay == ~overlap /\ \E p \in Processes : pc[p] \in Attempting
Record == INSTANCE SessionRecord WITH record <- recordOf, attempting <- underWay

\* The runs implement attempts that come one at a time and whose complete
\* record is final.
RecordSpec == Record!Spec

\* "Only missing or failed sessions are executed" (docs/batch.md:110): the
\* evaluations that find the session locked skip it, and never all of them do.
\* So it is where nobody asks for the status; a status query can be what locks it.
NeverAllSkip == \E p \in Runs : verdict[p] # "skipped"

\* Evaluations never all skip the session because of each other: when all of
\* them did, one was turned away by a status query that held the lock to see
\* whether it is free.
SomeoneTakesIt ==
  (\A p \in Runs : verdict[p] = "skipped") => \E p \in Runs : misled[p]

\* A run never waits for another for good: it ends, whatever the others do.
RunsEnd == \A p \in Processes : pc[p] # "idle" ~> pc[p] = "idle"

=============================================================================
