---------------------------- MODULE MCEvaluationRun ----------------------------
(* Model checking of EvaluationRun.                                           *)
EXTENDS EvaluationRun

\* Bound: one of the sessions is retried.
OneRetried == \A s, t \in Sessions : s # t => attempt[s] = 0 \/ attempt[t] = 0
=============================================================================
