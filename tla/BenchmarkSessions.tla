------------------------- MODULE BenchmarkSessions -------------------------
(***************************************************************************)
(* The session side of a dialogue: what step(), score() and close() of the *)
(* benchmarks do with an action.  An action is the sequence of its single  *)
(* actions; an observation is the sequence of the single actions it        *)
(* answers, where 0 is a text that answers none, and None is empty.  Tau2, *)
(* whose session runs beside a simulation of its own, is PairedSession.    *)
(***************************************************************************)
EXTENDS Naturals, Sequences, FiniteSets

Kinds == {"gsm8k", "hotpotqa", "hle", "browsecomp", "swebench", "appworld", "bfcl"}

CONSTANTS Benchmarks,      \* the kinds looked at
          MaxInteractions, \* max_interactions of those that have one
          LastTurn         \* turns of a BFCL conversation

ASSUME BenchmarksAssumption == Benchmarks \subseteq Kinds
ASSUME InteractionsAssumption == MaxInteractions \in Nat
ASSUME TurnsAssumption == LastTurn \in Nat \ {0}

VARIABLES
  kind,
  over,        \* _done, _completed, world.task_completed()
  answer,      \* "none", or what was submitted
  executed,    \* _action_count, total_actions_executed
  turn,        \* _current_turn_index, from 1
  grade,       \* score the session keeps once computed, or "none"
  saved,       \* score in the benchmark's results file, or "none"
  observation  \* what step() returned last

bench == <<kind, over, answer, executed, turn, grade, saved, observation>>

None == <<>>
Text == <<0>>

BenchInit ==
  /\ kind \in Benchmarks
  /\ over = FALSE /\ answer = "none" /\ executed = 0 /\ turn = 1
  /\ grade = "none" /\ saved = "none"
  /\ observation = Text

-----------------------------------------------------------------------------
(* ActionsHandler                                                          *)

\* The names a handler is registered for.
Handlers == CASE kind = "hle"        -> {"finish"}
              [] kind = "browsecomp" -> {"tool", "finish", "message"}
              [] OTHER               -> {"tool", "finish"}

Runs(a) == a.name \in Handlers /\ a.valid

\* Effects of one single action: it may be answered, and it may submit.
Told      == [answers |-> TRUE,  submits |-> FALSE]
Silent    == [answers |-> FALSE, submits |-> FALSE]
Submitted == [answers |-> FALSE, submits |-> TRUE]
Completed == [answers |-> TRUE,  submits |-> TRUE]

\* Handlers of AppWorld: everything but a message goes to the world, valid or
\* not, and is answered with what the world says.
WorldEffects(a) == {Told} \cup {e \in {Completed} : a.name = "finish"}

\* Handlers that submit return nothing; SWE-bench's may fail on the patch.  A
\* tool of HotpotQA may return no structured content.
HandlerEffects(a) ==
  IF a.name = "tool"
    THEN {Told} \cup {e \in {Silent} : kind = "hotpotqa"}
    ELSE {Submitted} \cup {e \in {Told} : kind = "swebench"}

\* _execute_single: an unknown name is answered with an error, and so are bad
\* arguments unless the benchmark asked not to be told (SWE-bench).
Effects(a) ==
  CASE kind = "appworld"            -> WorldEffects(a)
    [] kind # "appworld" /\ Runs(a) -> HandlerEffects(a)
    [] kind = "swebench" /\ a.name \in Handlers /\ ~a.valid -> {Silent}
    [] OTHER                        -> {Told}

Answers == IF kind \in {"gsm8k", "hotpotqa"} THEN {"right", "wrong"} ELSE {"given"}

\* The numbers of a set in their order.
Ascending(S) ==
  CHOOSE s \in [1 .. Cardinality(S) -> S] : \A j, k \in DOMAIN s : j < k => s[j] < s[k]

\* The observations of execute(), merged: None when nothing was answered.
Merged(effects) == Ascending({i \in DOMAIN effects : effects[i].answers})

Execute(acts, effects) ==
  /\ \A i \in DOMAIN acts : effects[i] \in Effects(acts[i])
  /\ over' = (over \/ \E i \in DOMAIN acts : effects[i].submits)
  /\ answer' \in IF \E i \in DOMAIN acts : effects[i].submits THEN Answers ELSE {answer}

-----------------------------------------------------------------------------
(* step()                                                                  *)

\* GSM8k, HotpotQA and, within its time, HLE.
QuestionStep(acts, effects) ==
  /\ kind \in {"gsm8k", "hotpotqa", "hle"}
  /\ Execute(acts, effects)
  /\ observation' = Merged(effects)
  /\ UNCHANGED <<kind, executed, turn, grade, saved>>

HleTimesOut ==
  /\ kind = "hle"
  /\ over' = TRUE /\ observation' = Text
  /\ UNCHANGED <<kind, answer, executed, turn, grade, saved>>

\* BrowseComp counts the actions its handlers record and looks at the limit
\* before the action only.
BrowsecompStep(acts, effects) ==
  /\ kind = "browsecomp" /\ executed < MaxInteractions
  /\ Execute(acts, effects)
  /\ executed' = executed + Cardinality({i \in DOMAIN acts : Runs(acts[i])})
  /\ observation' = Merged(effects)
  /\ UNCHANGED <<kind, turn, grade, saved>>

BrowsecompIsFull ==
  /\ kind = "browsecomp" /\ executed >= MaxInteractions
  /\ over' = TRUE /\ observation' = None
  /\ UNCHANGED <<kind, answer, executed, turn, grade, saved>>

\* SWE-bench and AppWorld count what they answered, and refuse an action that
\* would pass the limit.  AppWorld's world may refuse by itself.
CountedStep(acts, effects) ==
  /\ kind \in {"swebench", "appworld"} /\ executed + Len(acts) <= MaxInteractions
  /\ Execute(acts, effects)
  /\ executed' = IF Merged(effects) = None THEN executed ELSE executed + Len(acts)
  /\ observation' \in {Merged(effects)} \cup {o \in {None} : kind = "appworld"}
  /\ UNCHANGED <<kind, turn, grade, saved>>

CountedIsFull(acts) ==
  /\ kind \in {"swebench", "appworld"} /\ executed + Len(acts) > MaxInteractions
  /\ observation' = None
  /\ UNCHANGED <<kind, over, answer, executed, turn, grade, saved>>

IsFinish(a) == a.name = "finish"

\* Mutant of BfclAnswers: a finish action is not answered.
BfclAnswersTools(acts) == Ascending({i \in DOMAIN acts : ~IsFinish(acts[i])})

\* BFCL records every other action and answers it, with the one result per call
\* that its library returns (the zip would leave calls without an answer if there
\* were fewer); of several finish actions it answers the last.
BfclAnswers(acts) ==
  LET finishes == {i \in DOMAIN acts : IsFinish(acts[i])}
  IN  Ascending(DOMAIN acts \ finishes)
        \o Ascending({i \in finishes : \A j \in finishes : j <= i})

BfclRecords(acts) ==
  /\ kind = "bfcl" /\ \A i \in DOMAIN acts : ~IsFinish(acts[i])
  /\ observation' = BfclAnswers(acts)
  /\ UNCHANGED <<kind, over, answer, executed, turn, grade, saved>>

\* _finish_turn: the next turn's text comes with the answers.
BfclNextTurn(acts) ==
  /\ kind = "bfcl" /\ \E i \in DOMAIN acts : IsFinish(acts[i])
  /\ turn < LastTurn
  /\ turn' = turn + 1
  /\ observation' = BfclAnswers(acts) \o Text
  /\ UNCHANGED <<kind, over, answer, executed, grade, saved>>

BfclCompletes(acts) ==
  /\ kind = "bfcl" /\ \E i \in DOMAIN acts : IsFinish(acts[i])
  /\ turn = LastTurn
  /\ over' = TRUE /\ answer' = "given"
  /\ observation' = BfclAnswers(acts)
  /\ UNCHANGED <<kind, executed, turn, grade, saved>>

BenchStep(acts) ==
  \/ \E effects \in [DOMAIN acts -> {Told, Silent, Submitted, Completed}] :
       \/ QuestionStep(acts, effects)
       \/ BrowsecompStep(acts, effects)
       \/ CountedStep(acts, effects)
  \/ HleTimesOut
  \/ BrowsecompIsFull
  \/ CountedIsFull(acts)
  \/ BfclRecords(acts)
  \/ BfclNextTurn(acts)
  \/ BfclCompletes(acts)

-----------------------------------------------------------------------------
(* score() and close()                                                     *)

\* What score() may compute now.  "failed" is a judge or a checker that failed
\* and counts as wrong; "raised" leaves score() with an exception.
Grades ==
  IF grade # "none" THEN {grade}
  ELSE CASE kind \in {"gsm8k", "hotpotqa"}    -> {IF answer = "right" THEN "right" ELSE "wrong"}
         [] kind \in {"swebench", "appworld"} -> {"right", "wrong"}
         [] kind \in {"hle", "bfcl"}          -> {"wrong"} \cup {g \in {"right", "failed"} : answer # "none"}
         [] kind = "browsecomp"               -> {"wrong"} \cup {g \in {"right", "raised"} : answer # "none"}

\* Mutant of Keeps: AppWorld evaluates again when it is closed.
KeepsUncached(g) ==
  \/ kind \in {"swebench", "bfcl"}
  \/ kind = "hle" /\ answer # "none" /\ g # "failed"

\* What the session keeps: HLE its judge's verdict, if there was one.
Keeps(g) ==
  \/ kind \in {"swebench", "appworld", "bfcl"}
  \/ kind = "hle" /\ answer # "none" /\ g # "failed"

Stored(g) == IF g = "failed" THEN "wrong" ELSE g

\* Mutant of Finishes: a session that is over counts as finished.
FinishesWhenOver(g) == {over}

\* is_finished of the score.  AppWorld asks its world after the evaluation,
\* which may have closed it; _done is then still FALSE.
Finishes(g) ==
  CASE kind = "swebench" -> {over}
    [] kind = "appworld" -> {over, FALSE}
    [] kind = "bfcl"     -> {over /\ g # "failed"}
    [] OTHER             -> {answer # "none"}

\* score() returns g; SWE-bench writes its results file here.
Score(g) ==
  /\ g \in Grades \ {"raised"}
  /\ grade' = IF Keeps(g) THEN g ELSE grade
  /\ saved' = IF kind = "swebench" THEN Stored(g) ELSE saved
  /\ UNCHANGED <<kind, over, answer, executed, turn, observation>>

\* close(): every other benchmark computes its score once more and writes it.
CloseSession(g) ==
  /\ g \in Grades \ {"raised"}
  /\ IF kind = "swebench"
       THEN UNCHANGED <<grade, saved>>
       ELSE grade' = (IF Keeps(g) THEN g ELSE grade) /\ saved' = Stored(g)
  /\ UNCHANGED <<kind, over, answer, executed, turn, observation>>

Raises == "raised" \in Grades
=============================================================================
