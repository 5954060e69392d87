------------------------ MODULE EvaluationRunProofs ------------------------
(***************************************************************************)
(* Proofs about EvaluationRun, for any sessions, numbers of workers,       *)
(* limits and retries: type correctness, the limits of an attempt, what an *)
(* attempt leaves open, and what the results of a run say.                 *)
(***************************************************************************)
EXTENDS EvaluationRun, FiniteSetTheorems, TLAPS

LEMMA StatusType == \A c \in Reasons : Status[c] \in Recorded
BY DEF Status, Recorded, Reasons

LEMMA PlaceNames ==
  /\ "pending" \in Places /\ "submitted" \in Places /\ "starting" \in Places
  /\ "loop" \in Places /\ "step" \in Places /\ "score" \in Places
  /\ "record" \in Places /\ "close" \in Places /\ "returned" \in Places
  /\ "collected" \in Places /\ "dropped" \in Places
BY DEF Places

LEMMA CauseNames ==
  /\ Reasons \subseteq Causes
  /\ "finished" \in Reasons /\ "limit" \in Reasons /\ "agent_error" \in Reasons
  /\ "bench_error" \in Reasons /\ "session_cancel" \in Reasons
  /\ "run_cancel" \in Reasons
  /\ "none" \in Causes /\ "skipped" \in Causes /\ "reused" \in Causes
  /\ "interrupted" \in Causes /\ "controller" \in Causes
BY DEF Causes, Reasons

LEMMA OutcomeNames ==
  /\ "none" \in Outcomes /\ "ok" \in Outcomes /\ "error" \in Outcomes
  /\ "transient" \in Outcomes /\ "run_cancel" \in Outcomes
BY DEF Outcomes

\* A session is recorded with the cause its loop ended with.
CauseInv ==
  \A s \in Sessions : pc[s] \in {"score", "record", "close"} => cause[s] \in Reasons

LEMMA InitType == Init => TypeOK /\ CauseInv
<1> SUFFICES ASSUME Init PROVE TypeOK /\ CauseInv
  OBVIOUS
<1>1. TypeOK
  <2>1. /\ maxWorkers \in Workers /\ hadError \in BOOLEAN
        /\ main \in {"executing", "cancelling", "reporting"} \cup Ends
        /\ runState \in {"none", "success", "error"}
    BY DEF Init
  <2>2. /\ listed \in [Sessions -> Seq(Recorded)]
        /\ summary \in [Sessions -> Seq(Recorded)]
        /\ file \in [Sessions -> Recorded \cup {"none"}]
        /\ open \in [Sessions -> SUBSET Parts]
    BY DEF Init
  <2>3. /\ pc \in [Sessions -> Places]
        /\ cause \in [Sessions -> Causes]
        /\ outcome \in [Sessions -> Outcomes]
    BY PlaceNames, CauseNames, OutcomeNames DEF Init
  <2>4. /\ attempt \in [Sessions -> 0..MaxRetries]
        /\ taken \in [Sessions -> Nat]
        /\ steps \in [Sessions -> Nat]
        /\ acts \in [Sessions -> Nat]
    BY RetriesAssumption DEF Init
  <2> QED
    BY ONLY <2>1, <2>2, <2>3, <2>4 DEF TypeOK
<1>2. CauseInv
  BY DEF Init, CauseInv
<1> QED
  BY <1>1, <1>2

SessionMoves(s) ==
  SessionStep(s) \/ SkipLocked(s) \/ InterruptLoop(s) \/ Interrupt(s)

MainMoves == MainStep \/ InterruptMain \/ InterruptReport

\* A step of a session changes one place, at most one cause and one outcome.
LEMMA Moves ==
  ASSUME NEW s \in Sessions, SessionMoves(s)
  PROVE  /\ \E l \in Places : GoTo(s, l)
         /\ \E c \in Causes : cause' = cause \/ cause' = [cause EXCEPT ![s] = c]
         /\ \E o \in Outcomes : outcome' = outcome \/ outcome' = [outcome EXCEPT ![s] = o]
<1> USE DEF SessionMoves, SessionStep, SkipLocked, InterruptLoop, Interrupt, Reuse, Begin, Start,
            LoopEnds, NoAction, React, StepFails, Step, LoopFails, Score, Record,
            Close, Fail, Return, EndLoop, ControllerStops
<1>1. \E l \in Places : GoTo(s, l)
  BY PlaceNames
<1>2. \E c \in Causes : cause' = cause \/ cause' = [cause EXCEPT ![s] = c]
  BY CauseNames
<1>3. \E o \in Outcomes : outcome' = outcome \/ outcome' = [outcome EXCEPT ![s] = o]
  BY OutcomeNames
<1> QED
  BY ONLY <1>1, <1>2, <1>3

\* It leaves the run, the other sessions and the number of its retries alone.
LEMMA Alone ==
  ASSUME NEW s \in Sessions, SessionMoves(s)
  PROVE  UNCHANGED <<run, attempt>>
BY DEF SessionMoves, SessionStep, SkipLocked, InterruptLoop, Interrupt, Reuse, Begin, Start, LoopEnds,
       NoAction, React, StepFails, Step, LoopFails, Score, Record, Close

\* The loop of a session keeps its counts natural numbers.
LEMMA Counts ==
  ASSUME TypeOK, NEW s \in Sessions, SessionMoves(s)
  PROVE  /\ taken' \in [Sessions -> Nat]
         /\ steps' \in [Sessions -> Nat]
         /\ acts' \in [Sessions -> Nat]
<1>1. /\ taken \in [Sessions -> Nat] /\ steps \in [Sessions -> Nat]
      /\ acts \in [Sessions -> Nat]
  BY DEF TypeOK
<1>2. CASE React(s)
  <2>1. PICK k \in BatchSizes : acts' = [acts EXCEPT ![s] = @ + k]
    BY <1>2 DEF React
  <2> QED
    BY <1>1, <1>2, <2>1, BatchAssumption DEF React
<1>3. CASE ~React(s)
  <2>1. \/ UNCHANGED loop
        \/ taken' = [taken EXCEPT ![s] = 0] /\ UNCHANGED <<steps, acts>>
        \/ taken' = [taken EXCEPT ![s] = @ + 1] /\ UNCHANGED <<steps, acts>>
    BY <1>3 DEF SessionMoves, SessionStep, SkipLocked, InterruptLoop, Interrupt, Reuse, Begin, Start,
       LoopEnds, NoAction, StepFails, Step, LoopFails, Score, Record, Close, loop
  <2> QED
    BY ONLY <1>1, <2>1 DEF loop
<1> QED
  BY <1>2, <1>3

Adds(s, x) == listed' = [listed EXCEPT ![s] = Append(@, x)]

\* What a step of a session does to its results.
LEMMA BookMoves ==
  ASSUME TypeOK, CauseInv, NEW s \in Sessions, SessionMoves(s)
  PROVE  \/ UNCHANGED book
         \/ /\ pc[s] = "submitted" /\ file[s] \notin Rerun
            /\ Adds(s, file[s]) /\ UNCHANGED file
         \/ /\ pc[s] = "submitted" /\ UNCHANGED listed
            /\ file' = [file EXCEPT ![s] = "none"]
         \/ /\ pc[s] = "record"
            /\ \E x \in Recorded :
                 Adds(s, x) /\ (UNCHANGED file \/ file' = [file EXCEPT ![s] = x])
<1>1. CASE Record(s) \/ (Interrupt(s) /\ pc[s] = "record")
  <2>1. StatusOf(s) \in Recorded /\ StatusOf(s) # "none"
    BY <1>1, StatusType DEF Record, StatusOf, CauseInv, Recorded
  <2>2. pc[s] = "record"
    BY <1>1 DEF Record
  <2>3. \/ UNCHANGED book
        \/ List(s, StatusOf(s)) /\ UNCHANGED file
        \/ List(s, StatusOf(s)) /\ Write(s, StatusOf(s))
    BY <1>1 DEF Record, Interrupt, RecordPart
  <2> QED
    BY <2>1, <2>2, <2>3 DEF List, Write, Adds
<1>2. CASE ~Record(s) /\ ~(Interrupt(s) /\ pc[s] = "record")
  BY <1>2 DEF SessionMoves, SessionStep, SkipLocked, InterruptLoop, Interrupt, Reuse,
     Begin, Start, LoopEnds, NoAction, React, StepFails, Step, LoopFails, Score, Close,
     book, Adds
<1> QED
  BY <1>1, <1>2

LEMMA Books ==
  ASSUME TypeOK, CauseInv, NEW s \in Sessions, SessionMoves(s)
  PROVE  /\ listed' \in [Sessions -> Seq(Recorded)]
         /\ file' \in [Sessions -> Recorded \cup {"none"}]
         /\ open' \in [Sessions -> SUBSET Parts]
<1>1. /\ listed \in [Sessions -> Seq(Recorded)]
      /\ file \in [Sessions -> Recorded \cup {"none"}]
      /\ open \in [Sessions -> SUBSET Parts]
  BY DEF TypeOK
<1>2. listed' = listed \/ \E x \in Recorded : Adds(s, x)
  <2>1. file[s] \notin Rerun => file[s] \in Recorded
    BY <1>1 DEF Rerun
  <2> QED
    BY <2>1, BookMoves DEF book
<1>3. file' = file \/ \E x \in Recorded \cup {"none"} : file' = [file EXCEPT ![s] = x]
  BY BookMoves DEF book
<1>4. \/ open' = open
      \/ \E made \in SUBSET Parts : open' = [open EXCEPT ![s] = made]
      \/ \E closed : open' = [open EXCEPT ![s] = @ \ closed]
  BY DEF SessionMoves, SessionStep, SkipLocked, InterruptLoop, Interrupt, Reuse, Begin,
     Start, LoopEnds, NoAction, React, StepFails, Step, LoopFails, Score, Record, Close,
     ClosePart, Parts
<1>5. open' \in [Sessions -> SUBSET Parts]
  BY ONLY <1>1, <1>4
<1>6. listed' \in [Sessions -> Seq(Recorded)]
  <2>1. ASSUME NEW x \in Recorded PROVE Append(listed[s], x) \in Seq(Recorded)
    BY <1>1
  <2> QED
    BY <1>1, <1>2, <2>1 DEF Adds
<1>7. file' \in [Sessions -> Recorded \cup {"none"}]
  BY ONLY <1>1, <1>3
<1> QED
  BY ONLY <1>5, <1>6, <1>7

LEMMA CausesKept ==
  ASSUME TypeOK, CauseInv, NEW s \in Sessions, SessionMoves(s)
  PROVE  CauseInv'
<1>1. pc'[s] \in {"score", "record", "close"} => cause'[s] \in Reasons
  BY CauseNames DEF SessionMoves, SessionStep, SkipLocked, InterruptLoop, Interrupt, Reuse, Begin, Start,
     LoopEnds, NoAction, React, StepFails, Step, LoopFails, Score, Record, Close, Fail,
     Return, EndLoop, ControllerStops, GoTo, TypeOK, CauseInv
<1>2. \A r \in Sessions : r # s => pc'[r] = pc[r] /\ cause'[r] = cause[r]
  BY Moves DEF GoTo, TypeOK
<1> QED
  BY <1>1, <1>2 DEF CauseInv

LEMMA MainTypes ==
  ASSUME TypeOK, CauseInv, MainMoves
  PROVE  TypeOK' /\ CauseInv'
<1>1. UNCHANGED <<maxWorkers, listed, file, taken, steps, acts, cause, open, outcome>>
  BY DEF MainMoves, MainStep, InterruptMain, InterruptReport, Submit, Collect, CollectOk, Retry, CollectError,
     CollectCancel, CancelFuture, Executed, ReportError, ReportSuccess, run, book, loop
<1>2. /\ main' \in {"executing", "cancelling", "reporting"} \cup Ends
      /\ hadError' \in BOOLEAN
  BY DEF MainMoves, MainStep, InterruptMain, InterruptReport, Submit, Collect, CollectOk, Retry, CollectError,
     CollectCancel, CancelFuture, Executed, ReportError, ReportSuccess, run,
     AfterCancel, Ends, TypeOK
<1>3. /\ runState' \in {"none", "success", "error"}
      /\ summary' \in [Sessions -> Seq(Recorded)]
  <2>1. \/ UNCHANGED <<runState, summary>>
        \/ runState' \in {"success", "error"} /\ summary' = listed
    BY DEF MainMoves, MainStep, InterruptMain, InterruptReport, Submit, Collect, CollectOk, Retry, CollectError,
       CollectCancel, CancelFuture, Executed, ReportError, ReportSuccess, run,
       OnTaskError, MarkRunFinal
  <2> QED
    BY <2>1 DEF TypeOK
<1>4. \/ UNCHANGED <<pc, attempt>>
      \/ \E s \in Sessions :
           /\ GoTo(s, "submitted") \/ GoTo(s, "collected") \/ GoTo(s, "dropped")
           /\ \/ UNCHANGED attempt
              \/ attempt[s] < MaxRetries /\ attempt' = [attempt EXCEPT ![s] = @ + 1]
  BY DEF MainMoves, MainStep, InterruptMain, InterruptReport, Submit, Collect, CollectOk, Retry, CollectError,
     CollectCancel, CancelFuture, Executed, ReportError, ReportSuccess, run, Transient
<1>5. pc' \in [Sessions -> Places]
  <2>1. pc \in [Sessions -> Places]
    BY DEF TypeOK
  <2> QED
    BY ONLY <1>4, <2>1, PlaceNames DEF GoTo
<1>6. attempt' \in [Sessions -> 0..MaxRetries]
  <2>1. attempt \in [Sessions -> 0..MaxRetries]
    BY DEF TypeOK
  <2> QED
    BY ONLY <1>4, <2>1, RetriesAssumption
<1>7. TypeOK'
  BY <1>1, <1>2, <1>3, <1>5, <1>6 DEF TypeOK
<1>8. CauseInv'
  <2>1. \A r \in Sessions : pc'[r] = pc[r] \/ pc'[r] \in {"submitted", "collected", "dropped"}
    BY <1>4 DEF GoTo, TypeOK
  <2> QED
    BY <1>1, <2>1 DEF CauseInv
<1> QED
  BY <1>7, <1>8

LEMMA TypeStep == TypeOK /\ CauseInv /\ [Next]_vars => TypeOK' /\ CauseInv'
<1> SUFFICES ASSUME TypeOK, CauseInv, [Next]_vars PROVE TypeOK' /\ CauseInv'
  OBVIOUS
<1>1. ASSUME NEW s \in Sessions, SessionMoves(s) PROVE TypeOK' /\ CauseInv'
  <2>1. UNCHANGED <<maxWorkers, main, hadError, runState, summary, attempt>>
    BY <1>1, Alone DEF run
  <2>2. /\ pc' \in [Sessions -> Places]
        /\ cause' \in [Sessions -> Causes]
        /\ outcome' \in [Sessions -> Outcomes]
    <3>1. /\ pc \in [Sessions -> Places]
          /\ cause \in [Sessions -> Causes]
          /\ outcome \in [Sessions -> Outcomes]
      BY DEF TypeOK
    <3>2. /\ \E l \in Places : GoTo(s, l)
          /\ \E c \in Causes : cause' = cause \/ cause' = [cause EXCEPT ![s] = c]
          /\ \E o \in Outcomes : outcome' = outcome \/ outcome' = [outcome EXCEPT ![s] = o]
      BY <1>1, Moves
    <3> QED
      BY ONLY <3>1, <3>2 DEF GoTo
  <2>3. TypeOK'
    BY <1>1, <2>1, <2>2, Counts, Books DEF TypeOK
  <2> QED
    BY <1>1, <2>3, CausesKept
<1>2. CASE MainMoves
  BY <1>2, MainTypes
<1>3. CASE UNCHANGED vars
  BY <1>3 DEF vars, run, book, loop, TypeOK, CauseInv
<1> QED
  BY <1>1, <1>2, <1>3 DEF Next, SessionMoves, MainMoves, Ended

\* Type correctness, in every evaluation.
THEOREM TypeCorrect == Spec => []TypeOK
<1> QED
  BY InitType, TypeStep, PTL DEF Spec

------------------------------------------------------------------------------
(* The limits of an attempt.                                                *)

\* In any attempt the controller counts at least the steps of the attempt, and
\* the loop goes on only below the limit.
Limited(s) ==
  /\ taken[s] <= MaxSteps
  /\ pc[s] = "starting" => taken[s] = 0
  /\ pc[s] = "loop" => taken[s] < MaxSteps /\ taken[s] <= steps[s]
  /\ pc[s] = "step" => taken[s] < MaxSteps /\ taken[s] < steps[s]

\* In the first attempt it counts exactly those.
Exact(s) ==
  attempt[s] = 0 =>
    /\ pc[s] \in {"pending", "submitted", "starting"} =>
         taken[s] = 0 /\ steps[s] = 0 /\ acts[s] = 0
    /\ pc[s] = "loop" => steps[s] = taken[s] /\ acts[s] < MaxActions
    /\ pc[s] = "step" => steps[s] = taken[s] + 1
    /\ pc[s] \in {"pending", "submitted", "starting", "loop", "step"} => cause[s] # "limit"
    /\ cause[s] = "limit" => taken[s] = MaxSteps \/ acts[s] >= MaxActions

LimitInv == \A s \in Sessions : Limited(s) /\ Exact(s)

\* What a step of a session leaves of another session.
LEMMA OthersKept ==
  ASSUME TypeOK, NEW s \in Sessions, SessionMoves(s), NEW r \in Sessions, r # s
  PROVE  /\ pc'[r] = pc[r] /\ cause'[r] = cause[r] /\ outcome'[r] = outcome[r]
         /\ taken'[r] = taken[r] /\ steps'[r] = steps[r] /\ acts'[r] = acts[r]
         /\ open'[r] = open[r] /\ listed'[r] = listed[r] /\ file'[r] = file[r]
<1>1. pc'[r] = pc[r] /\ cause'[r] = cause[r] /\ outcome'[r] = outcome[r]
  <2>1. /\ \E l \in Places : pc' = [pc EXCEPT ![s] = l]
        /\ \E c \in Causes : cause' = cause \/ cause' = [cause EXCEPT ![s] = c]
        /\ \E o \in Outcomes : outcome' = outcome \/ outcome' = [outcome EXCEPT ![s] = o]
    BY Moves DEF GoTo
  <2>2. /\ pc \in [Sessions -> Places]
        /\ cause \in [Sessions -> Causes]
        /\ outcome \in [Sessions -> Outcomes]
    BY DEF TypeOK
  <2>3. pc'[r] = pc[r]
    BY <2>1, <2>2
  <2>4. cause'[r] = cause[r]
    BY <2>1, <2>2
  <2>5. outcome'[r] = outcome[r]
    BY <2>1, <2>2
  <2> QED
    BY ONLY <2>3, <2>4, <2>5
<1> USE DEF SessionMoves, SessionStep, SkipLocked, InterruptLoop, Interrupt, Reuse, Begin, Start,
            LoopEnds, NoAction, React, StepFails, Step, LoopFails, Score, Record,
            Close, loop, book, List, Write, RecordPart, ClosePart
<1>2. taken'[r] = taken[r]
  BY DEF TypeOK
<1>3. steps'[r] = steps[r] /\ acts'[r] = acts[r]
  BY DEF TypeOK
<1>4. open'[r] = open[r]
  BY DEF TypeOK
<1>5. listed'[r] = listed[r] /\ file'[r] = file[r]
  BY DEF TypeOK
<1> QED
  BY ONLY <1>1, <1>2, <1>3, <1>4, <1>5

\* What a step of the main thread does to a session.
LEMMA MainKeeps ==
  ASSUME TypeOK, MainMoves, NEW r \in Sessions
  PROVE  /\ UNCHANGED <<listed, file, taken, steps, acts, cause, open, outcome>>
         /\ \/ pc'[r] = pc[r] /\ attempt'[r] = attempt[r]
            \/ pc[r] = "pending" /\ pc'[r] = "submitted" /\ attempt'[r] = attempt[r]
            \/ pc[r] = "returned" /\ pc'[r] = "submitted" /\ attempt'[r] = attempt[r] + 1
            \/ pc[r] = "returned" /\ pc'[r] = "collected" /\ attempt'[r] = attempt[r]
            \/ pc[r] = "submitted" /\ pc'[r] = "dropped" /\ attempt'[r] = attempt[r]
BY DEF MainMoves, MainStep, InterruptMain, InterruptReport, Submit, Collect, CollectOk, Retry, CollectError,
   CollectCancel, CancelFuture, Executed, ReportError, ReportSuccess, run, book, loop,
   GoTo, TypeOK

LEMMA LimitStep == TypeOK /\ LimitInv /\ [Next]_vars => LimitInv'
<1> SUFFICES ASSUME TypeOK, LimitInv, [Next]_vars PROVE LimitInv'
  OBVIOUS
<1>1. ASSUME NEW s \in Sessions, SessionMoves(s) PROVE LimitInv'
  <2>1. attempt' = attempt
    BY <1>1, Alone
  <2>2. ASSUME NEW r \in Sessions, r # s PROVE (Limited(r) /\ Exact(r))'
    BY <1>1, <2>1, <2>2, OthersKept DEF LimitInv, Limited, Exact
  <2>3. (Limited(s) /\ Exact(s))'
    <3>1. /\ taken[s] \in Nat /\ steps[s] \in Nat /\ acts[s] \in Nat
          /\ MaxSteps \in Nat \ {0} /\ MaxActions \in Nat \ {0}
          /\ s \in DOMAIN pc /\ s \in DOMAIN cause
          /\ s \in DOMAIN taken /\ s \in DOMAIN steps /\ s \in DOMAIN acts
      BY LimitsAssumption DEF TypeOK
    <3>2. Limited(s) /\ Exact(s)
      BY DEF LimitInv
    <3> USE DEF Limited, Exact, GoTo, Return, Fail, EndLoop, loop
    <3>3. CASE SkipLocked(s) \/ Reuse(s) \/ LoopEnds(s) \/ NoAction(s) \/ LoopFails(s)
                \/ Score(s) \/ Record(s) \/ Close(s) \/ InterruptLoop(s) \/ Interrupt(s)
      BY <2>1, <3>1, <3>2, <3>3 DEF SkipLocked, Reuse, LoopEnds, NoAction, LoopFails,
         Score, Record, Close, InterruptLoop, Interrupt, ControllerStops
    <3>4. CASE Begin(s) \/ Start(s)
      BY <2>1, <3>1, <3>2, <3>4 DEF Begin, Start
    <3>5. CASE React(s)
      <4>1. PICK k \in BatchSizes : acts' = [acts EXCEPT ![s] = @ + k]
        BY <3>5 DEF React
      <4> QED
        BY <2>1, <3>1, <3>2, <3>5, <4>1, BatchAssumption DEF React, ControllerStops
    <3>6. CASE StepFails(s) \/ Step(s)
      BY <2>1, <3>1, <3>2, <3>6 DEF StepFails, Step, LimitReached, ControllerStops
    <3> QED
      BY <1>1, <3>3, <3>4, <3>5, <3>6 DEF SessionMoves, SessionStep
  <2> QED
    BY <2>2, <2>3 DEF LimitInv
<1>2. CASE MainMoves
  <2> SUFFICES ASSUME NEW r \in Sessions PROVE (Limited(r) /\ Exact(r))'
    BY DEF LimitInv
  <2>1. Limited(r) /\ Exact(r) /\ attempt[r] \in Nat
    BY RetriesAssumption DEF LimitInv, TypeOK
  <2> QED
    BY <1>2, <2>1, MainKeeps DEF Limited, Exact
<1>3. CASE UNCHANGED vars
  BY <1>3 DEF vars, run, book, loop, LimitInv, Limited, Exact
<1> QED
  BY <1>1, <1>2, <1>3 DEF Next, SessionMoves, MainMoves, Ended

\* Whatever the limits, the sizes of the actions and the retries, an attempt
\* stays within its limits.
THEOREM AttemptsStayWithinLimits == Spec => []WithinLimits
<1>1. Init => TypeOK /\ CauseInv /\ LimitInv
  BY InitType, LimitsAssumption DEF Init, LimitInv, Limited, Exact
<1>2. TypeOK /\ CauseInv /\ LimitInv /\ [Next]_vars => (TypeOK /\ CauseInv /\ LimitInv)'
  BY TypeStep, LimitStep
<1>3. LimitInv => WithinLimits
  BY DEF LimitInv, Limited, Exact, WithinLimits
<1> QED
  BY <1>1, <1>2, <1>3, PTL DEF Spec

------------------------------------------------------------------------------
(* What an attempt leaves open.                                             *)

Opened(s) ==
  /\ pc[s] \in {"loop", "step", "score", "record", "close"} => open[s] = Parts
  /\ outcome[s] \in {"ok", "run_cancel"} /\ cause[s] \in Reasons
       /\ pc[s] \in {"returned", "collected"}
     => open[s] = IF cause[s] = "bench_error" THEN {"session"} ELSE {}

OpenInv == \A s \in Sessions : Opened(s)

LEMMA OpenStep == TypeOK /\ OpenInv /\ [Next]_vars => OpenInv'
<1> SUFFICES ASSUME TypeOK, OpenInv, [Next]_vars PROVE OpenInv'
  OBVIOUS
<1>1. ASSUME NEW s \in Sessions, SessionMoves(s) PROVE OpenInv'
  <2>1. ASSUME NEW r \in Sessions, r # s PROVE Opened(r)'
    BY <1>1, <2>1, OthersKept DEF OpenInv, Opened
  <2>2. Opened(s)'
    <3>1. /\ s \in DOMAIN pc /\ s \in DOMAIN cause /\ s \in DOMAIN outcome
          /\ s \in DOMAIN open
      BY DEF TypeOK
    <3>2. Opened(s)
      BY DEF OpenInv
    <3> USE DEF GoTo, Return, Fail, EndLoop
    <3>3. CASE SkipLocked(s) \/ Reuse(s) \/ Begin(s) \/ Start(s)
      BY <3>1, <3>2, <3>3 DEF SkipLocked, Reuse, Begin, Start, Opened, Reasons
    <3>4. CASE LoopEnds(s) \/ NoAction(s) \/ React(s) \/ StepFails(s) \/ Step(s)
                \/ LoopFails(s)
      BY <3>1, <3>2, <3>4 DEF LoopEnds, NoAction, React, StepFails, Step, LoopFails,
         ControllerStops, Opened
    <3>5. CASE Score(s) \/ Record(s) \/ InterruptLoop(s)
      BY <3>1, <3>2, <3>5 DEF Score, Record, InterruptLoop, Opened
    <3>7. CASE Interrupt(s)
      <4>1. pc'[s] = "returned" /\ cause'[s] = "interrupted"
        BY <3>1, <3>7 DEF Interrupt
      <4> QED
        BY <4>1 DEF Opened, Reasons
    <3>6. CASE Close(s)
      <4>1. open[s] = Parts /\ cause' = cause /\ pc'[s] = "returned"
        BY <3>1, <3>2, <3>6 DEF Close, Opened
      <4>2. \/ open'[s] = Parts \ ToClose(s)
            \/ outcome'[s] \in {"error", "transient"}
        BY <3>1, <3>6, <4>1 DEF Close, ClosePart
      <4>3. Parts \ ToClose(s) = IF cause[s] = "bench_error" THEN {"session"} ELSE {}
        BY DEF Parts, ToClose
      <4> QED
        BY <4>1, <4>2, <4>3 DEF Opened
    <3> QED
      BY <1>1, <3>3, <3>4, <3>5, <3>6, <3>7 DEF SessionMoves, SessionStep
  <2> QED
    BY <2>1, <2>2 DEF OpenInv
<1>2. CASE MainMoves
  <2> SUFFICES ASSUME NEW r \in Sessions PROVE Opened(r)'
    BY DEF OpenInv
  <2>1. Opened(r)
    BY DEF OpenInv
  <2> QED
    BY <1>2, <2>1, MainKeeps DEF Opened
<1>3. CASE UNCHANGED vars
  BY <1>3 DEF vars, run, book, loop, OpenInv, Opened
<1> QED
  BY <1>1, <1>2, <1>3 DEF Next, SessionMoves, MainMoves, Ended

\* In any evaluation, a task that no exception and no interrupt breaks off has
\* closed what it opened when it returns or cancels the run, except that it
\* leaves the session of a broken benchmark.
THEOREM ReturnedSessionsAreClosed == Spec => []ReturnsClosed
<1>1. Init => TypeOK /\ CauseInv /\ OpenInv
  BY InitType DEF Init, OpenInv, Opened
<1>2. TypeOK /\ CauseInv /\ OpenInv /\ [Next]_vars => (TypeOK /\ CauseInv /\ OpenInv)'
  BY TypeStep, OpenStep
<1>3. OpenInv => ReturnsClosed
  BY DEF OpenInv, Opened, ReturnsClosed
<1> QED
  BY <1>1, <1>2, <1>3, PTL DEF Spec

------------------------------------------------------------------------------
(* What the results of a run say.                                           *)

\* The last listed result of a session is the one in its results.json.
Last(s) == listed[s] # <<>> /\ listed[s][Len(listed[s])] = file[s]

\* A session is closed when it is recorded, and a task that came to its end left
\* it so.
Told(s) ==
  /\ pc[s] = "close" => Last(s)
  /\ outcome[s] \in {"ok", "run_cancel"} => pc[s] \in {"returned", "collected"}
  /\ outcome[s] = "ok" => cause[s] \in Reasons \cup {"reused", "skipped"}
  /\ Kept(s)

ToldInv == \A s \in Sessions : Told(s)

AllCollected == \A s \in Sessions : pc[s] = "collected"

\* A run is without errors as long as every task it collected returned, it ends
\* only when it has collected all, and then its results are what is listed.
RunInv ==
  /\ \A s \in Sessions : pc[s] = "collected" /\ ~hadError => outcome[s] = "ok"
  /\ \A s \in Sessions :
       pc[s] = "collected" /\ outcome[s] = "run_cancel" =>
         main # "executing" /\ runState = "error"
  /\ main = "cancelling" => hadError
  /\ main # "executing" /\ ~hadError => AllCollected
  /\ runState = "success" => ~hadError /\ main = "returned" /\ summary = listed
  /\ hadError /\ runState = "none" => Serial
  /\ main = "no_results" => hadError /\ runState = "none"
  /\ main = "returned" => runState # "none"

\* A single worker has one session at a time, and none once the run's results
\* are computed.
SerialInv ==
  Serial =>
    /\ \A r, s \in InFlight : r = s
    /\ main # "executing" => InFlight = {}
    /\ runState # "none" => main # "executing" /\ summary = listed

\* On several workers a session is recorded once: it is in the results, or they
\* were computed before.
Early == {"pending", "submitted", "starting", "loop", "step", "score", "record"}

ParallelInv ==
  ~Serial =>
    \A s \in Sessions :
      /\ pc[s] \in {"pending", "submitted"} => file[s] = "none"
      /\ pc[s] \in Early => listed[s] = <<>>
      /\ summary[s] = <<>> \/ summary[s] = listed[s]

LEMMA ToldStep == TypeOK /\ CauseInv /\ ToldInv /\ [Next]_vars => ToldInv'
<1> SUFFICES ASSUME TypeOK, CauseInv, ToldInv, [Next]_vars PROVE ToldInv'
  OBVIOUS
<1>1. ASSUME NEW s \in Sessions, SessionMoves(s) PROVE ToldInv'
  <2>1. ASSUME NEW r \in Sessions, r # s PROVE Told(r)'
    BY <1>1, <2>1, OthersKept DEF ToldInv, Told, Last, Kept
  <2>2. Told(s)'
    <3>1. /\ s \in DOMAIN pc /\ s \in DOMAIN cause /\ s \in DOMAIN outcome
          /\ s \in DOMAIN listed /\ s \in DOMAIN file
          /\ listed[s] \in Seq(Recorded)
      BY DEF TypeOK
    <3>2. Told(s)
      BY DEF ToldInv
    <3>3. ASSUME NEW x, Adds(s, x), file'[s] = x PROVE Last(s)'
      <4>1. listed'[s] = Append(listed[s], x)
        BY <3>1, <3>3 DEF Adds
      <4>2. /\ Len(Append(listed[s], x)) = Len(listed[s]) + 1
            /\ Append(listed[s], x)[Len(listed[s]) + 1] = x
            /\ Append(listed[s], x) # <<>>
        BY <3>1
      <4> QED
        BY <3>3, <4>1, <4>2 DEF Last
    <3>0. pc[s] \notin {"returned", "collected"}
      BY <1>1 DEF SessionMoves, SessionStep, SkipLocked, InterruptLoop, Interrupt, Reuse,
         Begin, Start, LoopEnds, NoAction, React, StepFails, Step, LoopFails, Score,
         Record, Close
    <3>n. outcome[s] \notin {"ok", "run_cancel"}
      BY <3>0, <3>2 DEF Told
    <3> USE DEF GoTo, Return, Fail, EndLoop, book
    <3>4. CASE Begin(s) \/ Start(s) \/ LoopEnds(s) \/ NoAction(s)
                \/ React(s) \/ StepFails(s) \/ Step(s) \/ LoopFails(s) \/ Score(s)
                \/ InterruptLoop(s)
      <4>1. pc'[s] # "close" /\ outcome'[s] \notin {"ok", "run_cancel"}
        BY <3>1, <3>n, <3>4 DEF Begin, Start, LoopEnds, NoAction, React,
           StepFails, Step, LoopFails, Score, InterruptLoop, ControllerStops
      <4> QED
        BY <4>1 DEF Told, Kept
    <3>8. CASE SkipLocked(s) \/ Interrupt(s)
      <4>1. /\ pc'[s] = "returned"
            /\ \/ cause'[s] = "skipped"
               \/ cause'[s] = "interrupted" /\ outcome'[s] = "run_cancel"
        BY <3>1, <3>8 DEF SkipLocked, Interrupt
      <4> QED
        BY <4>1 DEF Told, Kept, Reasons
    <3>5. CASE Reuse(s)
      <4>1. Last(s)'
        BY <3>3, <3>5 DEF Reuse, Adds
      <4>2. pc'[s] = "returned" /\ cause'[s] = "reused"
        BY <3>1, <3>5 DEF Reuse
      <4> QED
        BY <4>1, <4>2 DEF Told, Kept, Last
    <3>6. CASE Record(s)
      <4>1. CASE pc'[s] = "close"
        <5>1. file' = [file EXCEPT ![s] = StatusOf(s)] /\ List(s, StatusOf(s))
          BY <3>1, <3>6, <4>1 DEF Record, Write
        <5>2. StatusOf(s) \in Recorded
          BY <3>6, StatusType DEF Record, StatusOf, CauseInv
        <5>3. Adds(s, StatusOf(s))
          BY <5>1, <5>2 DEF List, Recorded, Adds
        <5>4. Last(s)'
          BY <3>1, <3>3, <5>1, <5>3
        <5>5. outcome'[s] \notin {"ok", "run_cancel"}
          BY <3>1, <3>n, <3>6, <4>1 DEF Record
        <5> QED
          BY <5>4, <5>5 DEF Told, Kept
      <4>2. CASE pc'[s] # "close"
        <5>1. outcome'[s] \in {"error", "transient"}
          BY <3>1, <3>6, <4>2 DEF Record
        <5> QED
          BY <4>2, <5>1 DEF Told, Kept
      <4> QED
        BY <4>1, <4>2
    <3>7. CASE Close(s)
      <4>1. pc[s] = "close" /\ pc'[s] = "returned" /\ cause' = cause /\ UNCHANGED book
        BY <3>1, <3>7 DEF Close
      <4>2. cause[s] \in Reasons /\ Last(s)
        BY <3>2, <4>1 DEF CauseInv, Told
      <4> QED
        BY <4>1, <4>2 DEF Told, Kept, Last
    <3> QED
      BY <1>1, <3>4, <3>5, <3>6, <3>7, <3>8 DEF SessionMoves, SessionStep
  <2> QED
    BY <2>1, <2>2 DEF ToldInv
<1>2. CASE MainMoves
  <2> SUFFICES ASSUME NEW r \in Sessions PROVE Told(r)'
    BY DEF ToldInv
  <2>1. Told(r)
    BY DEF ToldInv
  <2>2. pc[r] = "returned" /\ pc'[r] = "submitted" => outcome[r] = "transient"
    BY <1>2 DEF MainMoves, MainStep, InterruptMain, InterruptReport, Submit, Collect,
       CollectOk, Retry, CollectError, CollectCancel, CancelFuture, Executed,
       ReportError, ReportSuccess, Transient, GoTo, TypeOK
  <2> QED
    BY <1>2, <2>1, <2>2, MainKeeps DEF Told, Last, Kept
<1>3. CASE UNCHANGED vars
  BY <1>3 DEF vars, run, book, loop, ToldInv, Told, Last, Kept
<1> QED
  BY <1>1, <1>2, <1>3 DEF Next, SessionMoves, MainMoves, Ended

LEMMA RunStep == TypeOK /\ RunInv /\ [Next]_vars => RunInv'
<1> SUFFICES ASSUME TypeOK, RunInv, [Next]_vars PROVE RunInv'
  OBVIOUS
<1>1. ASSUME NEW s \in Sessions, SessionMoves(s) PROVE RunInv'
  <2>1. pc[s] \in Places \ {"pending", "returned", "collected", "dropped"}
    BY <1>1, PlaceNames DEF SessionMoves, SessionStep, SkipLocked, InterruptLoop, Interrupt, Reuse,
       Begin, Start, LoopEnds, NoAction, React, StepFails, Step, LoopFails, Score,
       Record, Close, Places
  <2>2. pc'[s] # "collected"
    BY <1>1 DEF SessionMoves, SessionStep, SkipLocked, InterruptLoop, Interrupt, Reuse, Begin, Start,
       LoopEnds, NoAction, React, StepFails, Step, LoopFails, Score, Record, Close,
       GoTo, Return, Fail, EndLoop, ControllerStops, TypeOK
  <2>3. UNCHANGED <<maxWorkers, main, hadError, runState, summary>>
    BY <1>1, Alone DEF run
  <2>4. \A r \in Sessions : pc'[r] = "collected" =>
          pc[r] = "collected" /\ outcome'[r] = outcome[r]
    BY <1>1, <2>2, OthersKept
  <2>5. ~AllCollected
    BY <2>1 DEF AllCollected
  <2> QED
    BY <2>3, <2>4, <2>5 DEF RunInv, Serial
<1>2. CASE MainMoves
  <2>1. ASSUME NEW s \in Sessions, Submit(s) \/ CancelFuture(s) PROVE RunInv'
    <3>1. UNCHANGED <<maxWorkers, main, hadError, runState, summary, listed, outcome>>
      BY <2>1 DEF Submit, CancelFuture, run, book
    <3>2. \A r \in Sessions : pc'[r] = "collected" => pc[r] = "collected"
      BY <2>1 DEF Submit, CancelFuture, GoTo, TypeOK
    <3>3. main = "executing" \/ hadError
      BY <2>1 DEF Submit, CancelFuture, RunInv
    <3> QED
      BY <3>1, <3>2, <3>3 DEF RunInv, Serial
  <2>2. ASSUME NEW s \in Sessions, Collect(s) PROVE RunInv'
    <3>1. /\ main = "executing" /\ runState # "success"
          /\ UNCHANGED <<maxWorkers, listed, outcome>>
      BY <2>2 DEF Collect, RunInv, book, CollectOk, Retry, CollectError, CollectCancel,
         run
    <3>2. \A r \in Sessions : r # s => pc'[r] = pc[r]
      BY <2>2 DEF Collect, CollectOk, Retry, CollectError, CollectCancel, GoTo, TypeOK
    <3>3. CASE CollectOk(s)
      BY <3>1, <3>2, <3>3 DEF CollectOk, RunInv, Serial, run
    <3>4. CASE Retry(s)
      <4>1. pc'[s] = "submitted"
        BY <3>4 DEF Retry, GoTo, TypeOK
      <4> QED
        BY <3>1, <3>2, <3>4, <4>1 DEF Retry, RunInv, Serial, run
    <3>5. CASE CollectError(s)
      BY <3>1, <3>2, <3>5 DEF CollectError, OnTaskError, MarkRunFinal, RunInv, Serial
    <3>6. CASE CollectCancel(s)
      <4>1. main' \in {"reporting", "cancelling"} /\ hadError'
        BY <3>6 DEF CollectCancel, AfterCancel
      <4>2. runState' = "error" /\ runState' # "none"
        BY <3>1, <3>6 DEF CollectCancel, MarkRunFinal, TypeOK
      <4>3. \A r \in Sessions : r # s => outcome'[r] = outcome[r] /\ pc'[r] = pc[r]
        BY <3>1, <3>2
      <4> QED
        BY <4>1, <4>2, <4>3 DEF RunInv
    <3> QED
      BY <2>2, <3>3, <3>4, <3>5, <3>6 DEF Collect
  <2>3. CASE InterruptMain \/ InterruptReport
    <3>1. UNCHANGED <<maxWorkers, pc, outcome, listed>>
      BY <2>3 DEF InterruptMain, InterruptReport, book
    <3>2. CASE InterruptMain
      <4>1. main' \in {"reporting", "cancelling"} /\ hadError' /\ main = "executing"
        BY <3>2 DEF InterruptMain, AfterCancel
      <4>2. runState' = "error"
        BY <3>2, <4>1 DEF InterruptMain, MarkRunFinal, TypeOK, RunInv
      <4> QED
        BY <3>1, <4>1, <4>2 DEF RunInv
    <3>3. CASE InterruptReport
      BY <3>1, <3>3 DEF InterruptReport, RunInv, Serial, AllCollected
    <3> QED
      BY <2>3, <3>2, <3>3
  <2>4. CASE Executed
    BY <2>4 DEF Executed, RunInv, Serial, AllCollected, book
  <2>5. CASE ReportError \/ ReportSuccess
    BY <2>5 DEF ReportError, ReportSuccess, MarkRunFinal, RunInv, Serial, AllCollected, book
  <2> QED
    BY <1>2, <2>1, <2>2, <2>3, <2>4, <2>5 DEF MainMoves, MainStep
<1>3. CASE UNCHANGED vars
  BY <1>3 DEF vars, run, book, loop, RunInv, Serial, AllCollected
<1> QED
  BY <1>1, <1>2, <1>3 DEF Next, SessionMoves, MainMoves, Ended

\* Where a session of the run can step.
LEMMA MoverInFlight ==
  ASSUME TypeOK, NEW s \in Sessions, SessionMoves(s)
  PROVE  s \in InFlight /\ pc'[s] # "pending" /\ pc'[s] # "collected" /\ pc'[s] # "dropped"
BY DEF SessionMoves, SessionStep, SkipLocked, InterruptLoop, Interrupt, Reuse,
   Begin, Start, LoopEnds, NoAction, React, StepFails, Step, LoopFails, Score,
   Record, Close, GoTo, Return, Fail, EndLoop, ControllerStops, InFlight, TypeOK

LEMMA SerialStep == TypeOK /\ SerialInv /\ [Next]_vars => SerialInv'
<1> SUFFICES ASSUME TypeOK, SerialInv, [Next]_vars PROVE SerialInv'
  OBVIOUS
<1>w. maxWorkers' = maxWorkers
  <2>1. ASSUME NEW s \in Sessions, SessionMoves(s) PROVE maxWorkers' = maxWorkers
    BY <2>1, Alone DEF run
  <2>2. CASE MainMoves
    BY <2>2 DEF MainMoves, MainStep, InterruptMain, InterruptReport, Submit, Collect,
       CollectOk, Retry, CollectError, CollectCancel, CancelFuture, Executed,
       ReportError, ReportSuccess, run
  <2>3. CASE UNCHANGED vars
    BY <2>3 DEF vars, run
  <2> QED
    BY <2>1, <2>2, <2>3 DEF Next, SessionMoves, MainMoves, Ended
<1> SUFFICES ASSUME Serial
             PROVE  /\ \A r, s \in InFlight' : r = s
                    /\ main' # "executing" => InFlight' = {}
                    /\ runState' # "none" => main' # "executing" /\ summary' = listed'
  BY <1>w DEF SerialInv, Serial
<1>0. /\ \A r, s \in InFlight : r = s
      /\ main # "executing" => InFlight = {}
      /\ runState # "none" => main # "executing" /\ summary = listed
  BY DEF SerialInv
<1>1. ASSUME NEW s \in Sessions, SessionMoves(s) PROVE InFlight' = InFlight
                                                  /\ main' = "executing" /\ runState' = "none"
  <2>1. s \in InFlight /\ s \in InFlight'
    BY <1>1, MoverInFlight DEF InFlight
  <2>2. \A r \in Sessions : r # s => pc'[r] = pc[r]
    BY <1>1, OthersKept
  <2>3. main' = main /\ runState' = runState
    BY <1>1, Alone DEF run
  <2> QED
    BY <1>0, <2>1, <2>2, <2>3 DEF InFlight
<1>2. ASSUME NEW s \in Sessions, Submit(s)
      PROVE  /\ InFlight = {} /\ InFlight' = {s} /\ main = "executing"
             /\ UNCHANGED <<main, runState>>
  <2>1. Cardinality(InFlight) < 1 /\ main = "executing" /\ UNCHANGED <<main, runState>>
    <3>1. CanSubmit /\ main = "executing" /\ UNCHANGED <<main, runState>>
      BY <1>2 DEF Submit, run
    <3>2. maxWorkers = 1
      BY DEF Serial
    <3> QED
      BY <3>1, <3>2 DEF CanSubmit
  <2>2. IsFiniteSet(InFlight)
    BY SessionsAssumption, FS_Subset DEF InFlight
  <2>3. InFlight = {}
    <3>1. Cardinality(InFlight) \in Nat
      BY <2>2, FS_CardinalityType
    <3>2. Cardinality(InFlight) = 0
      BY <2>1, <3>1
    <3> QED
      BY <2>2, <3>2, FS_EmptySet
  <2>4. \A r \in Sessions : pc'[r] = IF r = s THEN "submitted" ELSE pc[r]
    BY <1>2 DEF Submit, GoTo, TypeOK
  <2> QED
    BY <2>1, <2>3, <2>4 DEF InFlight
<1>3. ASSUME NEW s \in Sessions, Collect(s)
      PROVE  /\ s \in InFlight /\ main = "executing" /\ listed' = listed
             /\ \/ InFlight' \subseteq InFlight /\ UNCHANGED <<main, runState>>
                \/ InFlight' = {} /\ main' # "executing" /\ runState = "none" /\ summary' = listed
  <2>1. s \in InFlight /\ main = "executing" /\ listed' = listed /\ runState = "none"
    BY <1>0, <1>3 DEF Collect, InFlight, book
  <2>2. CASE CollectOk(s) \/ Retry(s) \/ CollectError(s)
    <3>1. UNCHANGED <<main, runState>>
      BY <2>2 DEF CollectOk, Retry, CollectError, OnTaskError, run
    <3>2. \A r \in Sessions : r # s => pc'[r] = pc[r]
      BY <2>2 DEF CollectOk, Retry, CollectError, GoTo, TypeOK
    <3>3. InFlight' \subseteq InFlight
      BY <2>1, <3>2 DEF InFlight
    <3> QED
      BY <2>1, <3>1, <3>3
  <2>3. CASE CollectCancel(s)
    <3>1. main' # "executing" /\ summary' = listed
      BY <2>1, <2>3 DEF CollectCancel, AfterCancel, MarkRunFinal
    <3>2. \A r \in Sessions : pc'[r] = IF r = s THEN "collected" ELSE pc[r]
      BY <2>3 DEF CollectCancel, GoTo, TypeOK
    <3>3. InFlight' = {}
      BY <1>0, <2>1, <3>2 DEF InFlight
    <3> QED
      BY <2>1, <3>1, <3>3
  <2> QED
    BY <1>3, <2>2, <2>3 DEF Collect
<1>4. ASSUME NEW s \in Sessions, CancelFuture(s)
      PROVE  FALSE
  BY <1>0, <1>4 DEF CancelFuture, InFlight
<1>5. CASE InterruptMain \/ InterruptReport \/ Executed \/ ReportError \/ ReportSuccess
  <2>1. InFlight' = InFlight /\ listed' = listed
    BY <1>5 DEF InterruptMain, InterruptReport, Executed, ReportError, ReportSuccess,
       InFlight, book
  <2>2. InFlight = {} /\ main' # "executing"
    BY <1>0, <1>5 DEF InterruptMain, InterruptReport, Executed, ReportError,
       ReportSuccess, AfterCancel, InFlight
  <2>3. runState' # "none" => summary' = listed
    BY <1>0, <1>5 DEF InterruptMain, InterruptReport, Executed, ReportError,
       ReportSuccess, MarkRunFinal
  <2> QED
    BY <2>1, <2>2, <2>3
<1>6. CASE UNCHANGED vars
  BY <1>0, <1>6 DEF vars, run, book, InFlight
<1> QED
  <2>1. CASE \E s \in Sessions : SessionMoves(s)
    BY <1>0, <1>1, <2>1
  <2>2. CASE \E s \in Sessions : Submit(s)
    BY <1>0, <1>2, <2>2
  <2>3. CASE \E s \in Sessions : Collect(s)
    BY <1>0, <1>3, <2>3
  <2> QED
    BY <1>4, <1>5, <1>6, <2>1, <2>2, <2>3 DEF Next, SessionMoves, MainStep, Ended

LEMMA ParallelStep ==
  TypeOK /\ CauseInv /\ ParallelInv /\ [Next]_vars => ParallelInv'
<1> SUFFICES ASSUME TypeOK, CauseInv, ParallelInv, [Next]_vars PROVE ParallelInv'
  OBVIOUS
<1> DEFINE Once(s) == /\ pc[s] \in {"pending", "submitted"} => file[s] = "none"
                      /\ pc[s] \in Early => listed[s] = <<>>
                      /\ summary[s] = <<>> \/ summary[s] = listed[s]
<1>0. ~Serial => \A s \in Sessions : Once(s)
  BY DEF ParallelInv
<1>1. ASSUME NEW s \in Sessions, SessionMoves(s) PROVE ParallelInv'
  <2>1. maxWorkers' = maxWorkers /\ summary' = summary
    BY <1>1, Alone DEF run
  <2> SUFFICES ASSUME ~Serial PROVE \A r \in Sessions : Once(r)'
    BY <2>1 DEF ParallelInv, Serial
  <2>2. ASSUME NEW r \in Sessions, r # s PROVE Once(r)'
    BY <1>0, <1>1, <2>1, <2>2, OthersKept
  <2>3. Once(s)'
    <3>1. /\ s \in DOMAIN pc /\ s \in DOMAIN listed /\ s \in DOMAIN file
      BY DEF TypeOK
    <3>2. Once(s)
      BY <1>0
    <3>3. pc'[s] \notin {"pending", "submitted"}
      BY <1>1, <3>1 DEF SessionMoves, SessionStep, SkipLocked, InterruptLoop, Interrupt,
         Reuse, Begin, Start, LoopEnds, NoAction, React, StepFails, Step, LoopFails,
         Score, Record, Close, GoTo, Return, Fail, EndLoop, ControllerStops
    <3>4. pc'[s] \in Early => pc[s] \in Early
      BY <1>1, <3>1 DEF SessionMoves, SessionStep, SkipLocked, InterruptLoop, Interrupt,
         Reuse, Begin, Start, LoopEnds, NoAction, React, StepFails, Step, LoopFails,
         Score, Record, Close, GoTo, Return, Fail, EndLoop, ControllerStops, Early
    <3>5. CASE listed' = listed
      BY <2>1, <3>2, <3>3, <3>4, <3>5
    <3>6. CASE pc[s] = "record" /\ pc'[s] \notin Early
      <4>1. summary[s] = <<>>
        BY <3>2, <3>6 DEF Early
      <4> QED
        BY <2>1, <3>3, <3>6, <4>1
    <3>7. listed' = listed \/ pc[s] = "record"
      <4>1. pc[s] = "submitted" => file[s] \in Rerun
        BY <3>2 DEF Rerun
      <4> QED
        BY <1>1, <4>1, BookMoves DEF book
    <3>8. pc[s] = "record" => pc'[s] \notin Early
      BY <1>1, <3>1 DEF SessionMoves, SessionStep, SkipLocked, InterruptLoop, Interrupt,
         Reuse, Begin, Start, LoopEnds, NoAction, React, StepFails, Step, LoopFails,
         Score, Record, Close, GoTo, Return, Fail, EndLoop, ControllerStops, Early
    <3> QED
      BY <3>5, <3>6, <3>7, <3>8
  <2> QED
    BY <2>2, <2>3
<1>2. CASE MainMoves
  <2>1. /\ maxWorkers' = maxWorkers
        /\ summary' = summary \/ summary' = listed
    BY <1>2 DEF MainMoves, MainStep, InterruptMain, InterruptReport, Submit, Collect,
       CollectOk, Retry, CollectError, CollectCancel, CancelFuture, Executed,
       ReportError, ReportSuccess, run, OnTaskError, MarkRunFinal
  <2>2. ~Serial => \A r \in Sessions : ~(pc[r] = "returned" /\ pc'[r] = "submitted")
    BY <1>2 DEF MainMoves, MainStep, InterruptMain, InterruptReport, Submit, Collect,
       CollectOk, Retry, CollectError, CollectCancel, CancelFuture, Executed,
       ReportError, ReportSuccess, GoTo, TypeOK
  <2> SUFFICES ASSUME ~Serial, NEW r \in Sessions PROVE Once(r)'
    BY <2>1 DEF ParallelInv, Serial
  <2>3. Once(r) /\ ~(pc[r] = "returned" /\ pc'[r] = "submitted")
    BY <1>0, <2>2
  <2> QED
    BY <1>2, <2>1, <2>3, MainKeeps DEF Early
<1>3. CASE UNCHANGED vars
  BY <1>3 DEF vars, run, book, ParallelInv, Serial
<1> QED
  BY <1>1, <1>2, <1>3 DEF Next, SessionMoves, MainMoves, Ended

LEMMA RunInvariant ==
  Spec => [](TypeOK /\ CauseInv /\ ToldInv /\ RunInv /\ SerialInv /\ ParallelInv)
<1>1. Init => TypeOK /\ CauseInv /\ ToldInv /\ RunInv /\ SerialInv /\ ParallelInv
  BY InitType DEF Init, ToldInv, Told, Kept, RunInv, SerialInv, ParallelInv, InFlight
<1>2. TypeOK /\ CauseInv /\ ToldInv /\ RunInv /\ SerialInv /\ ParallelInv /\ [Next]_vars
        => (TypeOK /\ CauseInv /\ ToldInv /\ RunInv /\ SerialInv /\ ParallelInv)'
  BY TypeStep, ToldStep, RunStep, SerialStep, ParallelStep
<1> QED
  BY <1>1, <1>2, PTL DEF Spec

\* A run of any number of sessions on any number of workers that ends without
\* an error reports all of them, each with the outcome on disk.
THEOREM SuccessIsComplete == Spec => []SuccessReportsEverySession
<1>1. TypeOK /\ ToldInv /\ RunInv => SuccessReportsEverySession
  BY DEF ToldInv, Told, Kept, RunInv, AllCollected, SuccessReportsEverySession
<1> QED
  BY <1>1, RunInvariant, PTL

\* What core_run returns is what was recorded, for any number of sessions and
\* workers: all of it from a single worker, and from several all that was
\* recorded before the first failure, each entry as it is on disk.
THEOREM ReportedResultsAreRecorded == Spec => []ReportedIsRecorded
<1>1. TypeOK /\ ToldInv /\ RunInv /\ SerialInv /\ ParallelInv => ReportedIsRecorded
  <2> SUFFICES ASSUME TypeOK, ToldInv, RunInv, SerialInv, ParallelInv, main = "returned"
               PROVE  /\ Serial => summary = listed
                      /\ \A s \in Sessions :
                           summary[s] = <<>> \/ (summary[s] = listed[s] /\ Kept(s))
                      /\ summary = listed \/ runState = "error"
    BY DEF ReportedIsRecorded
  <2>1. runState # "none" /\ (runState = "success" => summary = listed)
    BY DEF RunInv
  <2>2. Serial => summary = listed
    BY <2>1 DEF SerialInv
  <2>3. \A s \in Sessions : Kept(s)
    BY DEF ToldInv, Told
  <2>4. \A s \in Sessions : summary[s] = <<>> \/ summary[s] = listed[s]
    BY <2>2 DEF ParallelInv
  <2>5. summary = listed \/ runState = "error"
    BY <2>1 DEF TypeOK
  <2> QED
    BY <2>2, <2>3, <2>4, <2>5
<1> QED
  BY <1>1, RunInvariant, PTL

\* With more than one worker there are always results to return.
THEOREM ParallelRunsReturnResults == Spec => []ParallelRunsHaveResults
<1>1. RunInv => ParallelRunsHaveResults
  BY DEF RunInv, ParallelRunsHaveResults
<1> QED
  BY <1>1, RunInvariant, PTL

\* After a cancellation has been collected the run has failed, and no session is
\* handed out or retried, whatever the sessions do that workers have.
THEOREM CancellationIsFinal == Spec => CancelStopsTheRun
<1>1. TypeOK /\ RunInv /\ [Next]_vars
        => [(\E c \in Sessions : pc[c] = "collected" /\ outcome[c] = "run_cancel") =>
              /\ runState' = "error"
              /\ \A s \in Sessions : pc[s] # "submitted" => pc'[s] # "submitted"]_vars
  <2> SUFFICES ASSUME TypeOK, RunInv, [Next]_vars, NEW c \in Sessions,
                      pc[c] = "collected", outcome[c] = "run_cancel"
               PROVE  /\ runState' = "error"
                      /\ \A s \in Sessions : pc[s] # "submitted" => pc'[s] # "submitted"
    OBVIOUS
  <2>1. main # "executing" /\ runState = "error"
    BY DEF RunInv
  <2>2. ASSUME NEW r \in Sessions, SessionMoves(r)
        PROVE  runState' = runState
               /\ \A s \in Sessions : pc[s] # "submitted" => pc'[s] # "submitted"
    <3>1. runState' = runState
      BY <2>2, Alone DEF run
    <3>2. pc'[r] # "submitted"
      BY <2>2 DEF SessionMoves, SessionStep, SkipLocked, InterruptLoop, Interrupt, Reuse,
         Begin, Start, LoopEnds, NoAction, React, StepFails, Step, LoopFails, Score,
         Record, Close, GoTo, Return, Fail, EndLoop, ControllerStops, TypeOK
    <3> QED
      BY <2>2, <3>1, <3>2, OthersKept
  <2>3. ASSUME MainMoves
        PROVE  runState' = runState
               /\ \A s \in Sessions : pc[s] # "submitted" => pc'[s] # "submitted"
    BY <2>1, <2>3 DEF MainMoves, MainStep, InterruptMain, InterruptReport, Submit,
       Collect, CancelFuture, Executed, ReportError, ReportSuccess, MarkRunFinal, GoTo,
       TypeOK, run
  <2> QED
    BY <2>1, <2>2, <2>3 DEF Next, SessionMoves, MainMoves, Ended, vars, run
<1> QED
  BY <1>1, RunInvariant, PTL DEF Spec, CancelStopsTheRun
=============================================================================
