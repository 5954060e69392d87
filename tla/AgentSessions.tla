--------------------------- MODULE AgentSessions ---------------------------
(***************************************************************************)
(* The life of an agent instance in a session, as the session loop drives  *)
(* it: start, react until the session ends, training feedback, close.      *)
(* Sessions of one evaluation run on up to max_workers threads of one      *)
(* process and, for a continual-learning agent, share one store.  What     *)
(* start and close do to that store is the agent's own module.             *)
(***************************************************************************)
EXTENDS Naturals, FiniteSets

Methods == {"ace", "harness", "autoskill", "reasoning_bank", "a_mem"}

CONSTANTS Sessions,
          Evaluations,  \* the evaluations: agent, max_workers, training_time, tasks
          MaxReacts     \* bound on the calls of react() in one session

ASSUME EvaluationsAssumption ==
  Evaluations \subseteq [method : Methods, workers : Nat \ {0}, training : BOOLEAN, tasks : Nat]
ASSUME ReactsAssumption == MaxReacts \in Nat

VARIABLES
  method,    \* the agent the evaluation uses
  workers,   \* max_workers
  training,  \* training_time
  at,        \* where the session is
  reacts,    \* _step_count
  heard,     \* _observation_log is not empty
  acted,     \* _action_log is not empty
  told,      \* _training_feedback
  met        \* pairs of sessions that ran at the same time (history)

setup   == <<method, workers, training>>
logs    == <<reacts, heard, acted, told>>
session == <<setup, at, logs, met>>

Idle    == {"new", "done"}
Running == {s \in Sessions : at[s] \notin Idle}

SessionsInit ==
  /\ \E e \in Evaluations, due \in SUBSET Sessions :
       /\ Cardinality(due) = e.tasks
       /\ method = e.method /\ workers = e.workers /\ training = e.training
       /\ at = [s \in Sessions |-> IF s \in due THEN "new" ELSE "done"]
  /\ reacts = [s \in Sessions |-> 0]
  /\ heard = [s \in Sessions |-> FALSE]
  /\ acted = heard /\ told = heard
  /\ met = {}

Go(s, l) == at' = [at EXCEPT ![s] = l]

\* A step of close() that moves s from one place to the next.
Proceed(s, from, to) ==
  /\ at[s] = from /\ Go(s, to)
  /\ UNCHANGED <<setup, logs, met>>

\* start(): a worker takes the session up; the agent's store is counted up by
\* the agent's own start.
Begin(s, l) ==
  /\ at[s] = "new" /\ Cardinality(Running) < workers
  /\ Go(s, l)
  /\ met' = met \cup {{s, t} : t \in Running}
  /\ UNCHANGED <<setup, logs>>

\* A call of react().
Turn(s) ==
  /\ at[s] = "acting" /\ reacts[s] < MaxReacts
  /\ reacts' = [reacts EXCEPT ![s] = @ + 1]
  /\ UNCHANGED <<setup, told, met>>

\* react(): a result that is not empty is logged before the model is called.
\* The call fails for good, and the exception ends the session loop, which closes
\* the agent; or there is nothing to do (None) and the session ends; or there is
\* an action, which is logged.
React(s) ==
  /\ Turn(s)
  /\ \E o \in BOOLEAN : heard' = [heard EXCEPT ![s] = @ \/ o]
  /\ \/ Go(s, "closing") /\ UNCHANGED acted
     \/ Go(s, "scoring") /\ UNCHANGED acted
     \/ acted' = [acted EXCEPT ![s] = TRUE] /\ UNCHANGED at

\* The benchmark or a limit ends the session.
SessionEnds(s) == Proceed(s, "acting", "scoring")

\* session.score() worked: receive_training_feedback keeps it for an agent with
\* training_time, then close() is called.
Feedback(s) ==
  /\ at[s] = "scoring" /\ Go(s, "closing")
  /\ told' = [told EXCEPT ![s] = training]
  /\ UNCHANGED <<setup, reacts, heard, acted, met>>

\* A benchmark error in step() closes the agent; an exception while scoring
\* leaves it without a call of close().
BenchmarkFails(s) ==
  \/ Proceed(s, "acting", "closing")
  \/ Proceed(s, "scoring", "done")

\* What the session loop does to every agent between start and close.
Live(s) == SessionEnds(s) \/ Feedback(s) \/ BenchmarkFails(s)

\* All sessions are over.
Over == Running = {} /\ \A s \in Sessions : at[s] = "done"

\* Nobody shared the store with s.
Alone(s) == \A p \in met : s \notin p
=============================================================================
