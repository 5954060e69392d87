---------------------------- MODULE SessionRecord ----------------------------
(***************************************************************************)
(* What the execution of a session (core/orchestrator/execution.py)        *)
(* promises to the runs that share its directory: attempts at the session  *)
(* come one at a time, only an attempt changes the record of its outcome,  *)
(* and a complete record is final.                                         *)
(***************************************************************************)
VARIABLES
  record,     \* "none", "failed" (to be run again) or "complete"
  attempting  \* is an attempt under way?

Init == record = "none" /\ attempting = FALSE

\* An attempt begins; what a failed one left is removed in its course.
Attempt == ~attempting /\ record # "complete" /\ attempting' = TRUE /\ UNCHANGED record
Forget  == attempting /\ record = "failed" /\ record' = "none" /\ UNCHANGED attempting

Conclude ==
  /\ attempting /\ record # "complete"
  /\ record' \in {"failed", "complete"}
  /\ UNCHANGED attempting

\* The attempt is over, or was cut short.
Leave == attempting /\ attempting' = FALSE /\ UNCHANGED record

Next == Attempt \/ Forget \/ Conclude \/ Leave

Spec == Init /\ [][Next]_<<record, attempting>>
=============================================================================
