------------------------------- MODULE TraceLog -------------------------------
(* The trace of a session's model calls in the format dedup_v1                *)
(* (integrations/litellm/trace_logger.py): a message or tool is written once  *)
(* as a definition, a call refers to it, and iter_expanded_trace_rows puts    *)
(* the requests together again.  The loggers of a process (one for the sync   *)
(* callbacks, one for the async ones) each remember what they have written to *)
(* a file, for as long as the process lives; the file goes away with the      *)
(* session directory when an attempt is retried (execution.py).  A line is    *)
(* written as a whole.                                                        *)
EXTENDS Naturals, Sequences

CONSTANTS
  Loggers,      \* the callback objects of a process
  Contents,     \* messages, tools and prompts
  MaxLogged,    \* bound: model calls that are logged
  MaxRemovals,  \* bound: cleanups of the session directory ...
  MaxRestarts   \* ... and processes that follow the first one

VARIABLES
  file,      \* the lines of trace.jsonl
  written,   \* _written_definitions[file_path] of each logger
  request,   \* what the call a logger writes refers to
  unwritten, \* its definitions that are not in the file yet
  phase,     \* what a logger is doing
  unlinked,  \* the file a logger has open was removed
  logged, removals, restarts

counts    == <<logged, removals, restarts>>
traceVars == <<file, written, request, unwritten, phase, unlinked, counts>>

Line == [type : {"definition", "call"}, about : SUBSET Contents]

TraceInit ==
  /\ file = <<>>
  /\ written = [l \in Loggers |-> {}]
  /\ request = [l \in Loggers |-> {}] /\ unwritten = [l \in Loggers |-> {}]
  /\ phase = [l \in Loggers |-> "idle"] /\ unlinked = [l \in Loggers |-> FALSE]
  /\ logged = 0 /\ removals = 0 /\ restarts = 0

Becomes(l, p) == phase' = [phase EXCEPT ![l] = p]

\* _compact_request under the logger's lock, then the file is opened to append.
Open(l) ==
  /\ phase[l] = "idle" /\ logged < MaxLogged
  /\ \E refs \in SUBSET Contents :
       /\ request' = [request EXCEPT ![l] = refs]
       /\ unwritten' = [unwritten EXCEPT ![l] = refs \ written[l]]
  /\ unlinked' = [unlinked EXCEPT ![l] = FALSE]
  /\ Becomes(l, "writing")
  /\ logged' = logged + 1
  /\ UNCHANGED <<file, written, removals, restarts>>

\* A line that l writes; nobody finds it in a file that was removed.
PutLine(l, line) == file' = IF unlinked[l] THEN file ELSE Append(file, line)

WriteDefinition(l) ==
  /\ phase[l] = "writing"
  /\ \E c \in unwritten[l] :
       /\ PutLine(l, [type |-> "definition", about |-> {c}])
       /\ unwritten' = [unwritten EXCEPT ![l] = @ \ {c}]
  /\ UNCHANGED <<written, request, phase, unlinked, counts>>

WriteCall(l) ==
  /\ phase[l] = "writing" /\ unwritten[l] = {}
  /\ PutLine(l, [type |-> "call", about |-> request[l]])
  /\ Becomes(l, "mark")
  /\ UNCHANGED <<written, request, unwritten, unlinked, counts>>

\* The definitions are remembered once all of the call is written.
Mark(l) ==
  /\ phase[l] = "mark"
  /\ written' = [written EXCEPT ![l] = @ \cup request[l]]
  /\ Becomes(l, "idle")
  /\ UNCHANGED <<file, request, unwritten, unlinked, counts>>

\* The directory or the file cannot be written.
WriteFails(l) ==
  /\ phase[l] = "writing"
  /\ Becomes(l, "idle")
  /\ UNCHANGED <<file, written, request, unwritten, unlinked, counts>>

\* _cleanup_session_dir of a retry, or of a second evaluation by the process.
RemoveSession ==
  /\ removals < MaxRemovals
  /\ file' = <<>> /\ unlinked' = [l \in Loggers |-> TRUE]
  /\ removals' = removals + 1
  /\ UNCHANGED <<written, request, unwritten, phase, logged, restarts>>

\* The process ends, at whatever point, and another one writes to the file: it
\* has removed the session's, and appends to that of the run.
Restart ==
  /\ restarts < MaxRestarts
  /\ file' \in {file, <<>>}
  /\ written' = [l \in Loggers |-> {}]
  /\ phase' = [l \in Loggers |-> "idle"]
  /\ restarts' = restarts + 1
  /\ UNCHANGED <<request, unwritten, unlinked, logged, removals>>

LoggerStep(l) ==
  Open(l) \/ WriteDefinition(l) \/ WriteCall(l) \/ Mark(l) \/ WriteFails(l)

TraceNext == (\E l \in Loggers : LoggerStep(l)) \/ RemoveSession \/ Restart

TraceSpec == TraceInit /\ [][TraceNext]_traceVars

------------------------------------------------------------------------------
(* Properties.                                                              *)

TraceTypeOK ==
  /\ file \in Seq(Line)
  /\ written \in [Loggers -> SUBSET Contents]
  /\ request \in [Loggers -> SUBSET Contents]
  /\ unwritten \in [Loggers -> SUBSET Contents]
  /\ phase \in [Loggers -> {"idle", "writing", "mark"}]
  /\ unlinked \in [Loggers -> BOOLEAN]
  /\ logged \in Nat /\ removals \in Nat /\ restarts \in Nat

\* What the reader knows when it comes to line i.
DefinedBefore(i) ==
  UNION {file[j].about : j \in {k \in 1..(i - 1) : file[k].type = "definition"}}

\* "the complete requests can be restored with iter_expanded_trace_rows()"
\* (docs/TEAM_SETUP.md:149-152): every call refers to definitions that come
\* before it in the file.
CallsCanBeRestored ==
  \A i \in 1..Len(file) : file[i].type = "call" => file[i].about \subseteq DefinedBefore(i)
=============================================================================
