-------------------------- MODULE CoordinatorProofs --------------------------
(***************************************************************************)
(* What holds of Coordinator for any set of tool-call threads, any number  *)
(* of calls and steps, with or without the accumulate window: types, the   *)
(* meaning of None returned by react(), and that nothing reaches the       *)
(* benchmark once the coordinator is closed.                               *)
(***************************************************************************)
EXTENDS Coordinator, FiniteSetTheorems, TLAPS

\* The agent's run is over: it can make no more tool calls.
RunOver == mainPc \in {"crashed", "closing", "dead"}

\* The environment is still in the session loop.
InLoop == envPc \in {"start", "ready", "wait", "window", "step"}

\* A waiting call has been counted; the loop has steps left.
CountInv ==
  /\ \A e \in Executors : exPc[e] = "wait" => calls[e] \in 1..MaxCalls
  /\ InLoop => steps < MaxSteps

\* Who may have closed the coordinator, and what it left in the queue.
CloseInv ==
  /\ (closed /\ InLoop) => RunOver
  /\ HasNone(pendingActions) => closed
  /\ closed => (pendingActions = <<>> \/ HasNone(pendingActions))

\* The window is open only on a non-empty queue.
WindowInv == envPc = "window" => (closed \/ pendingActions # <<>>)

\* The agent thread is spawned by start(); the outcome is decided on leaving.
PhaseInv ==
  /\ envPc = "start" => mainPc = "none"
  /\ InLoop => outcome = "running"

IInv == TypeOK /\ CountInv /\ CloseInv /\ WindowInv /\ PhaseInv /\ DoneMeansEnded

LEMMA ElemsInSet ==
  ASSUME NEW S, NEW s \in Seq(S)
  PROVE  Elems(s) \subseteq S
  BY DEF Elems

LEMMA RewireType ==
  ASSUME NEW parts \in Seq(Part), NEW last \in Seq(Actions)
  PROVE  RewireObservation(parts, last) \in Seq(Part)
<1>1. Elems(last) \subseteq Actions
  BY ElemsInSet
<1>2. ASSUME NEW used, NEW k PROVE KthRemaining(last, used, k) \subseteq Actions
  <2>1. \A j \in DOMAIN last : last[j] \in Actions
    OBVIOUS
  <2> QED
    BY <2>1, Zenon DEF KthRemaining
<1>3. \A i \in DOMAIN parts : parts[i].inv \subseteq Actions /\ parts[i].ans \subseteq Actions
  <2>1. \A i \in DOMAIN parts : parts[i] \in Part
    OBVIOUS
  <2> QED
    BY <2>1 DEF Part
<1>4. CASE Len(parts) = 1 /\ Len(last) > 1 /\ parts[1].inv = {}
  <2>1. [inv |-> Elems(last), ans |-> parts[1].ans] \in Part
    BY <1>1, <1>3, <1>4 DEF Part
  <2> QED
    BY <1>4, <2>1 DEF RewireObservation
<1>5. CASE ~(Len(parts) = 1 /\ Len(last) > 1 /\ parts[1].inv = {})
  <2> DEFINE g(i) == IF parts[i].inv = {}
                       THEN KthRemaining(last, UsedActions(parts), UnfilledUpTo(parts, i))
                       ELSE parts[i].inv
  <2>1. \A i \in DOMAIN parts : g(i) \subseteq Actions
    BY <1>2, <1>3, Zenon
  <2>2. RewireObservation(parts, last)
          = [i \in DOMAIN parts |-> [inv |-> g(i), ans |-> parts[i].ans]]
    BY <1>5, Zenon DEF RewireObservation
  <2> HIDE DEF g
  <2>3. \A i \in DOMAIN parts : [inv |-> g(i), ans |-> parts[i].ans] \in Part
    BY <2>1, <1>3 DEF Part
  <2> QED
    BY <2>2, <2>3
<1> QED
  BY <1>4, <1>5

LEMMA InitInv == Init => IInv
<1> SUFFICES ASSUME Init PROVE IInv
  OBVIOUS
<1> USE CoordinatorAssumption DEF Init
<1>1. envObs \in Seq(Part)
  BY DEF Part
<1>2. TypeOK
  <2>1. /\ turn \in Nat /\ agentSeenTurn \in Int
        /\ currentObservation \in Seq(Part)
        /\ steps \in 0..MaxSteps
    BY DEF NoObs
  <2>2. /\ pendingActions \in Seq(Actions \cup {NoneAction})
        /\ lastActions \in Seq(Actions) /\ stepActions \in Seq(Actions)
        /\ executed \in Seq(Actions)
    OBVIOUS
  <2>3. /\ exPc \in [Executors -> {"idle", "wait"}]
        /\ exTurn \in [Executors -> Nat] /\ calls \in [Executors -> 0..MaxCalls]
    OBVIOUS
  <2> QED
    BY <1>1, <2>1, <2>2, <2>3 DEF TypeOK, Outcomes
<1>3. ~HasNone(pendingActions)
  BY DEF HasNone, Elems
<1> QED
  BY <1>2, <1>3 DEF IInv, CountInv, InLoop, CloseInv, WindowInv, PhaseInv, DoneMeansEnded

\* The steps of the environment thread that do not flush.
LEMMA EnvQuietStep ==
  ASSUME IInv, Start \/ ReactRaise \/ AccumulateMore \/ Interrupt \/ Join
  PROVE  IInv'
<1> USE CoordinatorAssumption DEF IInv
<1>1. TypeOK'
  BY DEF TypeOK, Outcomes, Start, ReactRaise, AccumulateMore, Interrupt, Join,
         Leave, fields, envVars, exVars, Env
<1>2. CountInv'
  BY DEF CountInv, InLoop, Start, ReactRaise, AccumulateMore, Interrupt, Join,
         Leave, fields, envVars, exVars
<1>3. CloseInv' /\ WindowInv' /\ PhaseInv'
  BY DEF CloseInv, WindowInv, PhaseInv, InLoop, RunOver, HasNone, Start, ReactRaise,
         AccumulateMore, Interrupt, Join, Leave, fields, envVars, exVars
<1>4. DoneMeansEnded'
  BY DEF DoneMeansEnded, PhaseInv, InLoop, Start, ReactRaise, AccumulateMore,
         Interrupt, Join, Leave, fields, envVars, exVars
<1> QED
  BY <1>1, <1>2, <1>3, <1>4

\* What a flush of the queue preserves, wherever react() makes it.
LEMMA FlushStep ==
  ASSUME IInv, InLoop, FlushActions(pendingActions),
         closed \/ pendingActions # <<>>,
         UNCHANGED <<agentSeenTurn, agentError, envObs, steps, mainPc, exVars, answers>>,
         turn' \in Nat, currentObservation' \in Seq(Part),
         asleep' \subseteq Executors \cup {Env, Main}
  PROVE  IInv' /\ (closed => executed' = executed)
<1> USE CoordinatorAssumption DEF IInv
<1>1. CASE pendingActions = <<>> \/ HasNone(pendingActions)
  <2>1. /\ pendingActions' = <<>> /\ lastActions' = <<>> /\ stepActions' = <<>>
        /\ closed' /\ executed' = executed
        /\ envPc' = "close" /\ outcome' = "agent_done"
    BY <1>1 DEF FlushActions, Leave, CloseInv, TypeOK
  <2>2. closed /\ RunOver
    BY <1>1 DEF CloseInv
  <2>3. TypeOK'
    BY <2>1, <2>2 DEF TypeOK, Outcomes, exVars, CloseInv
  <2>4. DoneMeansEnded' /\ PhaseInv' /\ WindowInv'
    BY <2>1, <2>2 DEF DoneMeansEnded, RunOver, PhaseInv, InLoop, WindowInv
  <2>5. CountInv' /\ CloseInv'
    BY <2>1, <2>2 DEF CountInv, CloseInv, InLoop, exVars
  <2> QED
    BY <2>1, <2>3, <2>4, <2>5
<1>2. CASE pendingActions # <<>> /\ ~HasNone(pendingActions)
  <2>1. /\ pendingActions' = <<>> /\ lastActions' = pendingActions
        /\ stepActions' = pendingActions
        /\ closed' = closed /\ executed' = executed \o pendingActions
        /\ envPc' = "step" /\ outcome' = outcome
    BY <1>2 DEF FlushActions
  <2>2. ~closed
    BY <1>2 DEF CloseInv
  <2>3. pendingActions \in Seq(Actions)
    <3>1. \A i \in 1..Len(pendingActions) : pendingActions[i] \in Actions \cup {NoneAction}
      BY DEF TypeOK
    <3>2. \A i \in 1..Len(pendingActions) : pendingActions[i] # NoneAction
      BY <1>2 DEF HasNone, Elems, TypeOK
    <3>3. pendingActions \in Seq(Actions \cup {NoneAction})
      BY DEF TypeOK
    <3>4. \A i \in 1..Len(pendingActions) : pendingActions[i] \in Actions
      BY ONLY <3>1, <3>2
    <3> QED
      BY ONLY <3>3, <3>4
  <2>4. TypeOK'
    BY <2>1, <2>3 DEF TypeOK, exVars
  <2>5. ~HasNone(pendingActions')
    BY <2>1 DEF HasNone, Elems
  <2>6. CountInv' /\ CloseInv' /\ WindowInv' /\ PhaseInv' /\ DoneMeansEnded'
    BY <2>1, <2>2, <2>5 DEF CountInv, CloseInv, WindowInv, PhaseInv, DoneMeansEnded,
       InLoop, RunOver, exVars
  <2> QED
    BY <2>2, <2>4, <2>6
<1> QED
  BY <1>1, <1>2

LEMMA ReactInv == IInv /\ React => IInv' /\ (closed => executed' = executed)
<1> SUFFICES ASSUME IInv, React PROVE IInv' /\ (closed => executed' = executed)
  OBVIOUS
<1> USE CoordinatorAssumption
<1>1. /\ turn' \in Nat /\ currentObservation' \in Seq(Part)
      /\ InLoop /\ ~closed
  BY RewireType DEF React, PublishedObservation, IInv, TypeOK, InLoop
<1>2. CASE FlushActions(pendingActions) /\ pendingActions # <<>> /\ asleep' = {}
  BY <1>1, <1>2, FlushStep DEF React
<1>3. CASE /\ envPc' \in {"wait", "window"} /\ lastActions' = <<>> /\ asleep' = {Env}
           /\ (envPc' = "window" => pendingActions # <<>>)
           /\ UNCHANGED <<pendingActions, closed, stepActions, executed, outcome>>
  <2>1. TypeOK'
    BY <1>1, <1>3 DEF React, IInv, TypeOK, exVars
  <2>2. CountInv' /\ CloseInv' /\ WindowInv' /\ PhaseInv' /\ DoneMeansEnded'
    BY <1>1, <1>3 DEF React, IInv, CountInv, CloseInv, WindowInv, PhaseInv,
       DoneMeansEnded, InLoop, HasNone, exVars
  <2> QED
    BY <1>3, <2>1, <2>2 DEF IInv
<1> QED
  BY <1>2, <1>3 DEF React

LEMMA WaitInv == IInv /\ WaitForPendingActions => IInv' /\ (closed => executed' = executed)
<1> SUFFICES ASSUME IInv, WaitForPendingActions
             PROVE  IInv' /\ (closed => executed' = executed)
  OBVIOUS
<1> USE CoordinatorAssumption
<1>0. envPc = "wait" /\ InLoop
  BY DEF WaitForPendingActions, InLoop
<1>1. CASE /\ ~closed /\ pendingActions # <<>> /\ FlushActions(pendingActions)
           /\ UNCHANGED <<asleep, turn, currentObservation, agentSeenTurn, agentError,
                          envObs, steps, mainPc, exVars, answers>>
  BY <1>0, <1>1, FlushStep DEF IInv, TypeOK
<1>2. CASE /\ asleep' = asleep \cup {Env}
           /\ UNCHANGED <<fields, envVars, executed, mainPc, exVars, answers>>
  BY <1>2 DEF IInv, TypeOK, CountInv, CloseInv, WindowInv, PhaseInv, DoneMeansEnded,
     InLoop, RunOver, HasNone, fields, envVars, exVars
<1>3. CASE /\ ~closed /\ pendingActions # <<>>
           /\ envPc' = "window" /\ asleep' = asleep \cup {Env}
           /\ UNCHANGED <<fields, stepActions, executed, outcome, envObs, steps,
                          mainPc, exVars, answers>>
  BY <1>0, <1>3 DEF IInv, TypeOK, CountInv, CloseInv, WindowInv, PhaseInv, DoneMeansEnded,
     InLoop, RunOver, HasNone, fields, exVars
<1>4. CASE /\ envPc' = "close" /\ (outcome' = "agent_error" \/ (closed /\ outcome' = "agent_done"))
           /\ UNCHANGED <<fields, asleep, envObs, stepActions, steps, executed,
                          mainPc, exVars, answers>>
  BY <1>0, <1>4 DEF IInv, TypeOK, CountInv, CloseInv, WindowInv, PhaseInv, DoneMeansEnded,
     InLoop, RunOver, HasNone, fields, exVars, Outcomes
<1> QED
  BY <1>1, <1>2, <1>3, <1>4 DEF WaitForPendingActions, Leave, fields

LEMMA WindowStepInv == IInv /\ AccumulateEnd => IInv' /\ (closed => executed' = executed)
<1> SUFFICES ASSUME IInv, AccumulateEnd PROVE IInv' /\ (closed => executed' = executed)
  OBVIOUS
<1>1. InLoop /\ (closed \/ pendingActions # <<>>)
  BY DEF AccumulateEnd, IInv, WindowInv, InLoop
<1>2. /\ turn' \in Nat /\ currentObservation' \in Seq(Part)
      /\ asleep' \subseteq Executors \cup {Env, Main}
  BY DEF AccumulateEnd, IInv, TypeOK
<1> QED
  BY <1>1, <1>2, FlushStep DEF AccumulateEnd

LEMMA StepInv == IInv /\ Step => IInv'
<1> SUFFICES ASSUME IInv, Step PROVE IInv'
  OBVIOUS
<1> USE CoordinatorAssumption DEF IInv
<1>1. \A obs \in Results(stepActions) : obs \in Seq(Part)
  <2> SUFFICES ASSUME NEW obs \in Results(stepActions) PROVE obs \in Seq(Part)
    OBVIOUS
  <2> DEFINE n == Len(stepActions)
  <2>1. stepActions \in Seq(Actions) /\ Elems(stepActions) \subseteq Actions /\ n \in Nat
    BY ElemsInSet DEF TypeOK
  <2>2. CASE obs = <<[inv |-> {}, ans |-> Elems(stepActions)]>>
    BY <2>1, <2>2 DEF Part
  <2>3. CASE obs = [i \in 1..n |-> [inv |-> {}, ans |-> {stepActions[i]}]]
    BY <2>1, <2>3 DEF Part
  <2>4. CASE obs = [i \in 1..n |-> [inv |-> {stepActions[n+1-i]}, ans |-> {stepActions[n+1-i]}]]
    <3>1. \A i \in 1..n : n+1-i \in 1..n
      BY <2>1
    <3>2. \A i \in 1..n : stepActions[n+1-i] \in Actions
      BY <2>1, <3>1
    <3> QED
      BY <2>1, <2>4, <3>2 DEF Part
  <2> QED
    BY <2>2, <2>3, <2>4 DEF Results
<1>2. steps < MaxSteps
  BY DEF Step, CountInv, InLoop
<1>3. TypeOK'
  <2>0. NoObs \in Seq(Part)
    BY DEF NoObs
  <2>a. envObs' \in Results(stepActions) \/ envObs' = NoObs
    BY DEF Step
  <2>b. outcome' \in Outcomes /\ envPc' \in {"ready", "close"}
    BY DEF Step, Leave, TypeOK, Outcomes
  <2>1. envObs' \in Seq(Part) /\ envPc' \in {"ready", "close"} /\ outcome' \in Outcomes
    BY <1>1, <2>0, <2>a, <2>b
  <2>2. steps' \in 0..MaxSteps
    BY <1>2 DEF Step, TypeOK
  <2> QED
    BY <2>1, <2>2 DEF Step, TypeOK, fields, exVars
<1>4. CountInv' /\ CloseInv' /\ WindowInv' /\ PhaseInv' /\ DoneMeansEnded'
  BY <1>2 DEF Step, TypeOK, Leave, CountInv, CloseInv, WindowInv, PhaseInv,
     DoneMeansEnded, InLoop, RunOver, HasNone, fields, exVars
<1> QED
  BY <1>3, <1>4

LEMMA CloseFieldsInv ==
  ASSUME IInv, CloseFields, RunOver' \/ ~InLoop',
         UNCHANGED <<agentSeenTurn, lastActions, agentError, envObs, stepActions,
                     steps, outcome, exVars, executed, answers>>,
         UNCHANGED mainPc \/ mainPc' = "dead",
         UNCHANGED envPc \/ envPc' = "join",
         envPc' = "start" => mainPc' = "none"
  PROVE  IInv'
<1> USE CoordinatorAssumption DEF IInv
<1>1. TypeOK'
  <2>0. NoObs \in Seq(Part)
    BY DEF NoObs
  <2>1. CASE closed
    BY <2>1 DEF CloseFields, TypeOK, exVars
  <2>2. CASE ~closed
    BY <2>0, <2>2 DEF CloseFields, TypeOK, exVars
  <2> QED
    BY <2>1, <2>2
<1>2. HasNone(pendingActions') => HasNone(pendingActions)
  BY DEF CloseFields, HasNone, Elems
<1>3. CloseInv'
  BY <1>2 DEF CloseFields, CloseInv, HasNone
<1>4. CountInv' /\ WindowInv' /\ PhaseInv' /\ DoneMeansEnded'
  BY DEF CloseFields, CountInv, WindowInv, PhaseInv, DoneMeansEnded, InLoop, exVars
<1> QED
  BY <1>1, <1>3, <1>4

LEMMA CloseStepInv == IInv /\ (Close \/ MainClose) => IInv' /\ executed' = executed
<1>1. ASSUME IInv, Close PROVE IInv' /\ executed' = executed
  BY <1>1, CloseFieldsInv DEF Close, InLoop
<1>2. ASSUME IInv, MainClose PROVE IInv' /\ executed' = executed
  <2>1. RunOver' /\ (envPc' = "start" => mainPc' = "none")
    BY <1>2 DEF MainClose, RunOver, IInv, PhaseInv, envVars
  <2> QED
    BY <1>2, <2>1, CloseFieldsInv DEF MainClose, envVars
<1> QED
  BY <1>1, <1>2

LEMMA AppendNone ==
  ASSUME NEW q \in Seq(Actions \cup {NoneAction})
  PROVE  /\ Append(q, NoneAction) \in Seq(Actions \cup {NoneAction})
         /\ HasNone(Append(q, NoneAction)) /\ Append(q, NoneAction) # <<>>
<1>1. Append(q, NoneAction)[Len(q) + 1] = NoneAction /\ Len(q) + 1 \in DOMAIN Append(q, NoneAction)
  OBVIOUS
<1> QED
  BY <1>1 DEF HasNone, Elems

LEMMA AppendAction ==
  ASSUME NEW q \in Seq(Actions \cup {NoneAction}), NEW a \in Actions,
         \A b \in Actions : b # NoneAction, ~HasNone(q)
  PROVE  ~HasNone(Append(q, a)) /\ Append(q, a) # <<>>
<1>1. \A i \in 1..Len(q) : q[i] # NoneAction
  BY DEF HasNone, Elems
<1>2. \A i \in 1..(Len(q) + 1) : Append(q, a)[i] # NoneAction
  BY <1>1
<1> QED
  BY <1>2 DEF HasNone, Elems

\* Actions are pairs with a call number from 1; None is not one of them.
LEMMA ActionsAreNotNone == \A b \in Actions : b # NoneAction
  BY CoordinatorAssumption DEF Actions, NoneAction

LEMMA MainStepInv ==
  IInv /\ (GetObservation \/ RunReturns \/ RunRaises \/ SetupRaises) => IInv' /\ executed' = executed
<1> SUFFICES ASSUME IInv, GetObservation \/ RunReturns \/ RunRaises \/ SetupRaises
             PROVE  IInv' /\ executed' = executed
  OBVIOUS
<1> USE CoordinatorAssumption DEF IInv
<1>1. TypeOK'
  BY DEF TypeOK, GetObservation, RunReturns, RunRaises, SetupRaises, fields, envVars, exVars
<1>2. ~RunOver /\ mainPc # "none"
  BY DEF RunOver, GetObservation, RunReturns, RunRaises, SetupRaises
<1>3. CountInv' /\ CloseInv' /\ WindowInv' /\ PhaseInv' /\ DoneMeansEnded'
  BY <1>2 DEF CountInv, CloseInv, WindowInv, PhaseInv, DoneMeansEnded, RunOver, InLoop, HasNone,
     GetObservation, RunReturns, RunRaises, SetupRaises, fields, envVars, exVars
<1> QED
  BY <1>1, <1>3 DEF GetObservation, RunReturns, RunRaises, SetupRaises

LEMMA MainEndInv == IInv /\ (ExecuteNone \/ RecordCrash) => IInv' /\ executed' = executed
<1> USE CoordinatorAssumption DEF IInv
<1>1. ASSUME IInv, ExecuteNone PROVE IInv' /\ executed' = executed
  <2>1. HasNone(Append(pendingActions, NoneAction)) /\ Append(pendingActions, NoneAction) # <<>>
    BY <1>1, AppendNone DEF TypeOK
  <2>a. pendingActions' \in Seq(Actions \cup {NoneAction})
    BY <1>1, AppendNone DEF TypeOK, ExecuteNone
  <2>2. TypeOK'
    BY <1>1, <2>a DEF TypeOK, ExecuteNone, envVars, exVars
  <2>3. CloseInv'
    BY <1>1, <2>1 DEF CloseInv, ExecuteNone, RunOver, InLoop, HasNone, envVars
  <2>4. CountInv' /\ WindowInv' /\ PhaseInv' /\ DoneMeansEnded'
    BY <1>1, <2>1 DEF ExecuteNone, CountInv, WindowInv, PhaseInv, DoneMeansEnded,
       InLoop, envVars, exVars
  <2> QED
    BY <1>1, <2>2, <2>3, <2>4 DEF ExecuteNone
<1>2. ASSUME IInv, RecordCrash PROVE IInv' /\ executed' = executed
  <2>1. TypeOK'
    BY <1>2 DEF TypeOK, RecordCrash, NoObs, envVars, exVars
  <2>2. CountInv' /\ CloseInv' /\ WindowInv' /\ PhaseInv' /\ DoneMeansEnded'
    BY <1>2 DEF RecordCrash, CountInv, CloseInv, WindowInv, PhaseInv, DoneMeansEnded,
       RunOver, InLoop, HasNone, Elems, envVars, exVars
  <2> QED
    BY <1>2, <2>1, <2>2 DEF RecordCrash
<1> QED
  BY <1>1, <1>2

LEMMA CallInv ==
  ASSUME NEW e \in Executors, IInv, Execute(e) \/ SubmitFinishAction(e)
  PROVE  IInv' /\ executed' = executed
<1> USE CoordinatorAssumption DEF IInv
<1> DEFINE a == <<e, calls[e] + 1>>
<1>1. calls[e] \in 0..MaxCalls /\ calls[e] < MaxCalls /\ mainPc = "run" /\ exPc[e] = "idle"
  BY DEF Execute, SubmitFinishAction, CanCall, TypeOK
<1>2. a \in Actions
  BY <1>1 DEF Actions
<1>2a. /\ calls' = [calls EXCEPT ![e] = @ + 1]
       /\ calls \in [Executors -> 0..MaxCalls] /\ calls[e] + 1 \in 1..MaxCalls
  <2>1. calls' = [calls EXCEPT ![e] = @ + 1]
    BY DEF Execute, SubmitFinishAction
  <2>2. calls \in [Executors -> 0..MaxCalls]
    BY DEF TypeOK
  <2> QED
    BY ONLY <1>1, <2>1, <2>2, CoordinatorAssumption
<1>2b. /\ calls' \in [Executors -> 0..MaxCalls] /\ calls'[e] \in 1..MaxCalls
       /\ \A f \in Executors : f # e => calls'[f] = calls[f]
  BY <1>2a
<1>3. /\ mainPc' = mainPc /\ executed' = executed /\ closed' = closed
      /\ UNCHANGED <<turn, currentObservation, agentSeenTurn, lastActions, agentError,
                     envVars, answers>>
  BY DEF Execute, SubmitFinishAction
<1>4. /\ exPc' \in [Executors -> {"idle", "wait"}] /\ exTurn' \in [Executors -> Nat]
      /\ asleep' \subseteq Executors \cup {Env, Main}
      /\ \A f \in Executors : f # e => exPc'[f] = exPc[f]
  BY DEF Execute, SubmitFinishAction, TypeOK
<1>4a. late' \in BOOLEAN
  <2>1. late \in BOOLEAN /\ OutOfTurn \in BOOLEAN
    BY DEF TypeOK, OutOfTurn
  <2>2. late' \in {late, late \/ OutOfTurn}
    BY DEF Execute, SubmitFinishAction
  <2> QED
    BY ONLY <2>1, <2>2
<1>5. CASE closed
  <2>1. pendingActions' = pendingActions
    BY <1>5 DEF Execute, SubmitFinishAction
  <2>2. TypeOK' /\ CountInv'
    BY <1>2b, <1>3, <1>4, <1>4a, <2>1 DEF TypeOK, CountInv, InLoop, envVars
  <2> QED
    BY <1>1, <1>3, <2>1, <2>2 DEF CloseInv, WindowInv, PhaseInv, DoneMeansEnded,
       RunOver, InLoop, HasNone, envVars
<1>6. CASE ~closed
  <2>1. pendingActions' = Append(pendingActions, a) /\ ~HasNone(pendingActions)
    BY <1>6 DEF Execute, SubmitFinishAction, CloseInv
  <2>2. ~HasNone(pendingActions') /\ pendingActions' # <<>>
    BY <1>2, <2>1, AppendAction, ActionsAreNotNone DEF TypeOK
  <2>3. pendingActions' \in Seq(Actions \cup {NoneAction})
    BY <1>2, <2>1 DEF TypeOK
  <2>4. TypeOK' /\ CountInv'
    BY <1>2b, <1>3, <1>4, <1>4a, <2>3 DEF TypeOK, CountInv, InLoop, envVars
  <2> QED
    BY <1>1, <1>3, <1>6, <2>2, <2>4 DEF CloseInv, WindowInv, PhaseInv, DoneMeansEnded,
       RunOver, InLoop, HasNone, envVars
<1> QED
  BY <1>3, <1>5, <1>6

LEMMA WakeInv ==
  ASSUME NEW e \in Executors, IInv, ExecuteWakes(e)
  PROVE  IInv' /\ executed' = executed
<1> USE CoordinatorAssumption DEF IInv
<1>1. CurrentAction(e) \in Actions
  BY DEF ExecuteWakes, CountInv, CurrentAction, Actions
<1>2. Answer(e) \in [act : Actions, got : SUBSET Actions, available : BOOLEAN]
  <2>1. \A p \in Elems(currentObservation) : p.ans \subseteq Actions
    <3>1. Elems(currentObservation) \subseteq Part
      BY ElemsInSet DEF TypeOK
    <3> QED
      BY <3>1 DEF Part
  <2>2. SelectObservation(CurrentAction(e), currentObservation) \subseteq Elems(currentObservation)
    BY Zenon DEF SelectObservation
  <2>3. Reported(SelectObservation(CurrentAction(e), currentObservation)) \subseteq Actions
    BY <2>1, <2>2, Zenon DEF Reported
  <2> QED
    BY <1>1, <2>3 DEF Answer
<1>3. /\ exPc' \in [Executors -> {"idle", "wait"}] /\ agentSeenTurn' \in Int
      /\ asleep' \subseteq Executors \cup {Env, Main}
      /\ \A f \in Executors : exPc'[f] = "wait" => exPc[f] = "wait"
  <2>1. exPc' = exPc \/ exPc' = [exPc EXCEPT ![e] = "idle"]
    BY DEF ExecuteWakes
  <2>2. agentSeenTurn' \in {agentSeenTurn, turn} /\ asleep' \in {asleep, asleep \cup {e}}
    BY DEF ExecuteWakes
  <2>3. agentSeenTurn' \in Int /\ asleep' \subseteq Executors \cup {Env, Main}
    BY <2>2 DEF TypeOK
  <2>4. /\ exPc' \in [Executors -> {"idle", "wait"}]
        /\ \A f \in Executors : exPc'[f] = "wait" => exPc[f] = "wait"
    BY <2>1 DEF TypeOK
  <2> QED
    BY <2>3, <2>4
<1>4. answers' \subseteq [act : Actions, got : SUBSET Actions, available : BOOLEAN]
  <2>1. answers' = answers \/ answers' = answers \cup {Answer(e)}
    BY DEF ExecuteWakes
  <2> QED
    BY <1>2, <2>1 DEF TypeOK
<1>5. UNCHANGED <<turn, currentObservation, pendingActions, lastActions, closed,
                  agentError, envVars, mainPc, exTurn, calls, late, executed>>
  BY DEF ExecuteWakes
<1>6. TypeOK' /\ CountInv'
  BY <1>3, <1>4, <1>5 DEF TypeOK, CountInv, InLoop, envVars
<1> QED
  BY <1>5, <1>6 DEF CloseInv, WindowInv, PhaseInv, DoneMeansEnded, RunOver, InLoop,
     HasNone, envVars

LEMMA NextInv == IInv /\ [Next]_vars => IInv' /\ (closed => executed' = executed)
<1> SUFFICES ASSUME IInv, [Next]_vars
             PROVE  IInv' /\ (closed => executed' = executed)
  OBVIOUS
<1>1. CASE Start \/ ReactRaise \/ AccumulateMore \/ Interrupt \/ Join
  BY <1>1, EnvQuietStep DEF Start, ReactRaise, AccumulateMore, Interrupt, Join
<1>2. CASE React
  BY <1>2, ReactInv
<1>3. CASE WaitForPendingActions
  BY <1>3, WaitInv
<1>4. CASE AccumulateEnd
  BY <1>4, WindowStepInv
<1>5. CASE Step
  BY <1>5, StepInv DEF Step
<1>6. CASE Close \/ MainClose
  BY <1>6, CloseStepInv
<1>7. CASE GetObservation \/ RunReturns \/ RunRaises \/ SetupRaises
  BY <1>7, MainStepInv
<1>8. CASE ExecuteNone \/ RecordCrash
  BY <1>8, MainEndInv
<1>9. ASSUME NEW e \in Executors, Execute(e) \/ SubmitFinishAction(e) \/ ExecuteWakes(e)
      PROVE  IInv' /\ (closed => executed' = executed)
  BY <1>9, CallInv, WakeInv
<1>10. CASE UNCHANGED vars
  BY <1>10 DEF vars, fields, envVars, exVars, IInv, TypeOK, CountInv, CloseInv, WindowInv,
     PhaseInv, DoneMeansEnded, RunOver, InLoop, HasNone
<1> QED
  BY <1>1, <1>2, <1>3, <1>4, <1>5, <1>6, <1>7, <1>8, <1>9, <1>10
     DEF Next, EnvStep, MainStep, Terminated

\* The strengthened invariant holds in every reachable state.
THEOREM Invariance == Spec => []IInv
<1>1. IInv /\ [Next]_vars => IInv'
  BY NextInv
<1> QED
  BY InitInv, <1>1, PTL DEF Spec

\* Type correctness for every number of threads, calls and steps.
THEOREM TypeCorrect == Spec => []TypeOK
  BY Invariance, PTL DEF IInv

\* react() tells the session loop that the agent is done only when the agent's
\* code is over, whatever the threads do.
THEOREM DoneIsTheAgentsDecision == Spec => []DoneMeansEnded
  BY Invariance, PTL DEF IInv

\* After close() or execute(None) no action reaches the benchmark any more.
THEOREM ClosedForActions == Spec => NothingGivenAfterClose
<1>1. IInv /\ [Next]_vars => [closed => executed' = executed]_vars
  BY NextInv
<1> QED
  BY Invariance, <1>1, PTL DEF Spec, NothingGivenAfterClose

------------------------------------------------------------------------------
(* The order in which the calls reach the benchmark.                       *)

\* No action given or queued is a call that its thread has yet to make.
Counted(acts, c) ==
  \A i \in DOMAIN acts : acts[i] # NoneAction => acts[i][2] <= c[acts[i][1]]

OrderInv == GivenInOrder /\ Counted(executed \o pendingActions, calls)

\* All that any step may do to the actions given and queued, and to the count
\* of the calls made.
LEMMA QueueStep ==
  ASSUME [Next]_vars
  PROVE  \/ UNCHANGED <<executed, pendingActions, calls>>
         \/ pendingActions' = <<>> /\ UNCHANGED <<executed, calls>>
         \/ /\ pendingActions' = <<>> /\ executed' = executed \o pendingActions
            /\ calls' = calls
         \/ /\ pendingActions' = Append(pendingActions, NoneAction)
            /\ UNCHANGED <<executed, calls>>
         \/ \E e \in Executors :
              /\ calls[e] < MaxCalls
              /\ calls' = [calls EXCEPT ![e] = @ + 1] /\ executed' = executed
              /\ pendingActions' \in
                   {pendingActions, Append(pendingActions, <<e, calls[e] + 1>>)}
<1> DEFINE Same == UNCHANGED <<executed, pendingActions, calls>>
           Dropped == pendingActions' = <<>> /\ UNCHANGED <<executed, calls>>
           Flushed == /\ pendingActions' = <<>> /\ executed' = executed \o pendingActions
                      /\ calls' = calls
<1>1. ASSUME FlushActions(pendingActions), calls' = calls PROVE Dropped \/ Flushed
  BY <1>1 DEF FlushActions
<1>2. CASE Start \/ ReactRaise \/ AccumulateMore \/ Interrupt \/ Join \/ Step
  BY <1>2 DEF Start, ReactRaise, AccumulateMore, Interrupt, Join, Step, fields, envVars, exVars
<1>3. CASE React \/ WaitForPendingActions \/ AccumulateEnd
  BY <1>1, <1>3 DEF React, WaitForPendingActions, AccumulateEnd, fields, exVars
<1>4. CASE Close \/ MainClose \/ RecordCrash
  BY <1>4 DEF Close, MainClose, CloseFields, RecordCrash, exVars
<1>5. CASE GetObservation \/ RunReturns \/ RunRaises \/ SetupRaises \/ UNCHANGED vars
  BY <1>5 DEF GetObservation, RunReturns, RunRaises, SetupRaises, vars, fields, exVars
<1>6. CASE ExecuteNone
  BY <1>6 DEF ExecuteNone, exVars
<1>7. ASSUME NEW e \in Executors, Execute(e) \/ SubmitFinishAction(e) \/ ExecuteWakes(e)
      PROVE  \/ Same
             \/ /\ calls[e] < MaxCalls
                /\ calls' = [calls EXCEPT ![e] = @ + 1] /\ executed' = executed
                /\ pendingActions' \in
                     {pendingActions, Append(pendingActions, <<e, calls[e] + 1>>)}
  BY <1>7 DEF Execute, SubmitFinishAction, ExecuteWakes, CanCall
<1> QED
  BY <1>2, <1>3, <1>4, <1>5, <1>6, <1>7 DEF Next, EnvStep, MainStep, Terminated

\* What is in order stays so when None, or a thread's next call, is appended.
LEMMA AppendInOrder ==
  ASSUME NEW acts \in Seq(Actions \cup {NoneAction}), NEW a \in Actions \cup {NoneAction},
         NEW c \in [Executors -> Nat], InOrder(acts), Counted(acts, c),
         a # NoneAction => c[a[1]] < a[2]
  PROVE  InOrder(Append(acts, a))
<1> DEFINE more == Append(acts, a)
<1>1. /\ Len(more) = Len(acts) + 1 /\ DOMAIN more = 1..(Len(acts) + 1)
      /\ DOMAIN acts = 1..Len(acts) /\ more[Len(acts) + 1] = a /\ Len(acts) \in Nat
      /\ \A i \in 1..Len(acts) : more[i] = acts[i]
  OBVIOUS
<1>2. \A i \in 1..Len(acts) : acts[i] \in Actions \cup {NoneAction}
  OBVIOUS
<1> HIDE DEF more
<1>3. SUFFICES ASSUME NEW i \in 1..(Len(acts) + 1), NEW j \in 1..(Len(acts) + 1), i < j,
                      more[i] # NoneAction, more[j] # NoneAction, more[i][1] = more[j][1]
               PROVE  more[i][2] < more[j][2]
  BY <1>1 DEF InOrder, more
<1>4. i \in 1..Len(acts) /\ more[i] = acts[i] /\ acts[i] \in Actions
  BY <1>1, <1>2, <1>3
<1>5. CASE j \in 1..Len(acts)
  BY <1>1, <1>3, <1>4, <1>5 DEF InOrder
<1>6. CASE j = Len(acts) + 1
  <2>1. more[j] = a /\ a \in Actions /\ a # NoneAction
    BY <1>1, <1>3, <1>6
  <2>2. acts[i][2] <= c[acts[i][1]] /\ c[a[1]] < a[2] /\ acts[i][1] = a[1]
    BY <1>1, <1>3, <1>4, <2>1 DEF Counted
  <2>3. acts[i][2] \in Int /\ a[2] \in Int /\ c[a[1]] \in Int
    BY <1>4, <2>1 DEF Actions
  <2> QED
    BY <1>4, <2>1, <2>2, <2>3
<1> QED
  BY <1>1, <1>5, <1>6

LEMMA AppendCounted ==
  ASSUME NEW acts \in Seq(Actions \cup {NoneAction}), NEW a \in Actions \cup {NoneAction},
         NEW c, Counted(acts, c), a # NoneAction => a[2] <= c[a[1]]
  PROVE  Counted(Append(acts, a), c)
<1>1. /\ DOMAIN Append(acts, a) = 1..(Len(acts) + 1) /\ Len(acts) \in Nat
      /\ \A i \in 1..Len(acts) : Append(acts, a)[i] = acts[i]
      /\ Append(acts, a)[Len(acts) + 1] = a
  OBVIOUS
<1> QED
  BY <1>1 DEF Counted

\* A larger count still counts; a prefix of what is in order is in order.
LEMMA CountedMore ==
  ASSUME NEW acts \in Seq(Actions \cup {NoneAction}), NEW c \in [Executors -> Nat],
         NEW d \in [Executors -> Nat], \A e \in Executors : c[e] <= d[e],
         Counted(acts, c)
  PROVE  Counted(acts, d)
<1> SUFFICES ASSUME NEW i \in DOMAIN acts, acts[i] # NoneAction
             PROVE  acts[i][2] <= d[acts[i][1]]
  BY DEF Counted
<1>1. acts[i] \in Actions
  OBVIOUS
<1>2. acts[i][1] \in Executors /\ acts[i][2] \in Int
  BY <1>1 DEF Actions
<1>3. acts[i][2] <= c[acts[i][1]] /\ c[acts[i][1]] <= d[acts[i][1]]
  BY <1>2 DEF Counted
<1> QED
  BY <1>2, <1>3

LEMMA PrefixInOrder ==
  ASSUME NEW s \in Seq(Actions), NEW t \in Seq(Actions \cup {NoneAction}), NEW c,
         InOrder(s \o t), Counted(s \o t, c)
  PROVE  InOrder(s \o <<>>) /\ Counted(s \o <<>>, c)
<1>1. /\ DOMAIN s \subseteq DOMAIN (s \o t) /\ s \o <<>> = s
      /\ \A i \in DOMAIN s : (s \o t)[i] = s[i]
  OBVIOUS
<1> QED
  BY <1>1 DEF InOrder, Counted

LEMMA OrderStep == IInv /\ OrderInv /\ [Next]_vars => OrderInv'
<1> SUFFICES ASSUME IInv, OrderInv, [Next]_vars PROVE OrderInv'
  OBVIOUS
<1> DEFINE all == executed \o pendingActions
<1>1. /\ executed \in Seq(Actions) /\ pendingActions \in Seq(Actions \cup {NoneAction})
      /\ calls \in [Executors -> 0..MaxCalls] /\ calls \in [Executors -> Nat]
      /\ MaxCalls \in Nat
  BY CoordinatorAssumption DEF IInv, TypeOK
<1>2. all \in Seq(Actions \cup {NoneAction}) /\ InOrder(all) /\ Counted(all, calls)
  BY <1>1 DEF OrderInv, GivenInOrder
<1>3. CASE UNCHANGED <<executed, pendingActions, calls>>
  BY <1>3, <1>2 DEF OrderInv, GivenInOrder, InOrder, Counted
<1>4. CASE pendingActions' = <<>> /\ UNCHANGED <<executed, calls>>
  BY <1>1, <1>2, <1>4, PrefixInOrder DEF OrderInv, GivenInOrder
<1>5. CASE /\ pendingActions' = <<>> /\ executed' = executed \o pendingActions
           /\ calls' = calls
  <2>1. executed' \o pendingActions' = all
    BY <1>1, <1>5
  <2> QED
    BY <1>2, <1>5, <2>1 DEF OrderInv, GivenInOrder
<1>6. CASE /\ pendingActions' = Append(pendingActions, NoneAction)
           /\ UNCHANGED <<executed, calls>>
  <2>1. executed' \o pendingActions' = Append(all, NoneAction)
    BY <1>1, <1>6
  <2>2. InOrder(Append(all, NoneAction)) /\ Counted(Append(all, NoneAction), calls)
    BY <1>1, <1>2, AppendInOrder, AppendCounted
  <2> QED
    BY <1>6, <2>1, <2>2 DEF OrderInv, GivenInOrder
<1>7. ASSUME NEW e \in Executors, calls[e] < MaxCalls,
             calls' = [calls EXCEPT ![e] = @ + 1], executed' = executed,
             pendingActions' \in {pendingActions, Append(pendingActions, <<e, calls[e] + 1>>)}
      PROVE  OrderInv'
  <2> DEFINE a == <<e, calls[e] + 1>>
  <2>1. /\ calls[e] \in Nat /\ calls' \in [Executors -> Nat] /\ calls'[e] = calls[e] + 1
        /\ \A f \in Executors : calls[f] <= calls'[f]
    BY <1>1, <1>7
  <2>2. a \in Actions /\ a[1] = e /\ a[2] = calls[e] + 1
    BY <1>1, <1>7, <2>1 DEF Actions
  <2>3. Counted(all, calls')
    BY <1>1, <1>2, <2>1, CountedMore
  <2>4. CASE pendingActions' = pendingActions
    BY <1>2, <1>7, <2>3, <2>4 DEF OrderInv, GivenInOrder
  <2>5. CASE pendingActions' = Append(pendingActions, a)
    <3>1. executed' \o pendingActions' = Append(all, a)
      BY <1>1, <1>7, <2>2, <2>5
    <3>2. calls[a[1]] < a[2] /\ a[2] <= calls'[a[1]]
      BY <2>1, <2>2
    <3> HIDE DEF a, all
    <3>3. InOrder(Append(all, a))
      BY <1>1, <1>2, <2>2, <3>2, AppendInOrder
    <3>4. Counted(Append(all, a), calls')
      BY <1>2, <2>2, <2>3, <3>2, AppendCounted
    <3> QED
      BY <3>1, <3>3, <3>4 DEF OrderInv, GivenInOrder
  <2> QED
    BY <1>7, <2>4, <2>5
<1> QED
  BY <1>3, <1>4, <1>5, <1>6, <1>7, QueueStep

\* The benchmark is given each thread's calls in the order they were made and
\* none twice, and what is still queued comes after them, for every instance.
THEOREM CallsGivenInOrder == Spec => []GivenInOrder
<1>1. Init => OrderInv
  BY DEF Init, OrderInv, GivenInOrder, InOrder, Counted
<1>2. IInv /\ OrderInv /\ [Next]_vars => OrderInv'
  BY OrderStep
<1>3. OrderInv => GivenInOrder
  BY DEF OrderInv
<1> QED
  BY Invariance, <1>1, <1>2, <1>3, PTL DEF Spec

------------------------------------------------------------------------------
(* What the observations answer, and what a waiting call gets.             *)

\* Every part reports the effect of the actions it names.
Honest(parts) == \A p \in Elems(parts) : p.inv \subseteq p.ans

\* What is published names only actions it answers; what the session returned
\* and is about to be published is one of the answers to the last actions.
ObservationInv ==
  /\ Honest(currentObservation)
  /\ envPc = "step" => stepActions = lastActions
  /\ envPc \in {"start", "ready"} =>
       \/ lastActions = <<>> /\ Honest(envObs)
       \/ envObs \in Results(lastActions)

\* A waiting call of thread e, made in this turn or before it.
Fresh(e) == exTurn[e] = turn
Answered(e) == CurrentAction(e) \in Reported(Elems(currentObservation))

\* Where the action of a waiting call is, as long as no call was out of turn:
\* queued, in the benchmark, or answered by the observation of a newer turn.
AwaitInv(e) ==
  /\ exTurn[e] <= turn
  /\ envPc \in {"start", "ready", "step"} =>
       Fresh(e) /\ CurrentAction(e) \in Elems(lastActions)
  /\ envPc \in {"wait", "window"} =>
       \/ Fresh(e) /\ CurrentAction(e) \in Elems(pendingActions)
       \/ ~Fresh(e) /\ Answered(e) /\ pendingActions = <<>>
  /\ envPc = "close" => Fresh(e) \/ Answered(e)

Awaited ==
  /\ envPc \in {"start", "ready", "step"} => pendingActions = <<>>
  /\ \A e \in Executors : exPc[e] = "wait" => AwaitInv(e)

RoundInv ==
  /\ envPc \in {"join", "done"} => closed
  /\ late \/ (AnswersCorrespond /\ (closed \/ Awaited))

\* Rewiring drops no part and no answer.
LEMMA RewireReports ==
  ASSUME NEW parts \in Seq(Part), NEW last \in Seq(Actions)
  PROVE  Reported(Elems(RewireObservation(parts, last))) = Reported(Elems(parts))
<1> DEFINE wired == RewireObservation(parts, last)
<1>1. DOMAIN wired = DOMAIN parts /\ \A i \in DOMAIN parts : wired[i].ans = parts[i].ans
  <2>1. CASE Len(parts) = 1 /\ Len(last) > 1 /\ parts[1].inv = {}
    <3>1. wired = <<[inv |-> Elems(last), ans |-> parts[1].ans]>>
      BY <2>1 DEF RewireObservation
    <3> QED
      BY <2>1, <3>1
  <2>2. CASE ~(Len(parts) = 1 /\ Len(last) > 1 /\ parts[1].inv = {})
    <3> DEFINE g(i) == IF parts[i].inv = {}
                         THEN KthRemaining(last, UsedActions(parts), UnfilledUpTo(parts, i))
                         ELSE parts[i].inv
    <3>1. wired = [i \in DOMAIN parts |-> [inv |-> g(i), ans |-> parts[i].ans]]
      BY <2>2, Zenon DEF RewireObservation
    <3> HIDE DEF g, wired
    <3> QED
      BY <3>1
  <2> QED
    BY <2>1, <2>2
<1> HIDE DEF wired
<1>2. \A a : a \in Reported(Elems(wired)) <=> \E i \in DOMAIN parts : a \in parts[i].ans
  BY <1>1 DEF Reported, Elems
<1>3. \A a : a \in Reported(Elems(parts)) <=> \E i \in DOMAIN parts : a \in parts[i].ans
  BY DEF Reported, Elems
<1> QED
  BY <1>2, <1>3 DEF wired

\* When no part names an action, the k-th remaining action is the k-th one.
LEMMA KthOfAll ==
  ASSUME NEW last \in Seq(Actions), NEW k \in 1..Len(last)
  PROVE  KthRemaining(last, {}, k) = {last[k]}
<1> DEFINE Upto(j) == {m \in 1..j : last[m] \notin {}}
<1>1. \A j \in DOMAIN last : Upto(j) = 1..j /\ Cardinality(1..j) = j
  BY FS_Interval
<1>2. KthRemaining(last, {}, k) = {last[j] : j \in {j \in DOMAIN last : Cardinality(Upto(j)) = k}}
  BY DEF KthRemaining
<1>3. \A j \in DOMAIN last : Cardinality(Upto(j)) = j
  BY <1>1
<1> HIDE DEF Upto
<1>4. {j \in DOMAIN last : Cardinality(Upto(j)) = k} = {k}
  BY <1>3
<1> QED
  BY <1>2, <1>4

\* A k-th remaining action is one of the actions.
LEMMA KthIsOne ==
  ASSUME NEW last \in Seq(Actions), NEW used, NEW k
  PROVE  KthRemaining(last, used, k) \subseteq Elems(last)
  BY DEF KthRemaining, Elems

\* However the session answers the last actions, what is published is honest.
LEMMA RewireHonest ==
  ASSUME NEW last \in Seq(Actions), NEW parts \in Results(last)
  PROVE  Honest(RewireObservation(parts, last))
<1> DEFINE n == Len(last)
           wired == RewireObservation(parts, last)
           g(i) == IF parts[i].inv = {}
                     THEN KthRemaining(last, UsedActions(parts), UnfilledUpTo(parts, i))
                     ELSE parts[i].inv
<1>0. n \in Nat /\ DOMAIN last = 1..n
  OBVIOUS
<1>a. ASSUME ~(Len(parts) = 1 /\ n > 1 /\ parts[1].inv = {}),
             \A i \in DOMAIN parts : g(i) \subseteq parts[i].ans
      PROVE  Honest(wired)
  <2>1. wired = [i \in DOMAIN parts |-> [inv |-> g(i), ans |-> parts[i].ans]]
    BY <1>a, Zenon DEF RewireObservation
  <2> HIDE DEF g, wired
  <2> QED
    BY <1>a, <2>1 DEF Honest, Elems
<1>1. CASE parts = <<[inv |-> {}, ans |-> Elems(last)]>>
  <2>1. Len(parts) = 1 /\ DOMAIN parts = {1} /\ parts[1] = [inv |-> {}, ans |-> Elems(last)]
    BY <1>1
  <2>2. CASE n > 1
    <3>1. wired = <<[inv |-> Elems(last), ans |-> Elems(last)]>>
      BY <2>1, <2>2 DEF RewireObservation
    <3> DEFINE all == Elems(last)
    <3> HIDE DEF wired, all
    <3>2. wired = <<[inv |-> all, ans |-> all]>>
      BY <3>1 DEF all
    <3>3. \A p \in Elems(wired) : p = [inv |-> all, ans |-> all]
      BY <3>2 DEF Elems
    <3>4. Honest(wired)
      BY <3>3 DEF Honest
    <3> QED
      BY <3>4 DEF wired
  <2>3. CASE ~(n > 1)
    <3>1. g(1) \subseteq Elems(last)
      BY <2>1, KthIsOne
    <3> HIDE DEF g
    <3> QED
      BY <1>a, <2>1, <2>3, <3>1
  <2> QED
    BY <2>2, <2>3
<1>2. CASE parts = [i \in 1..n |-> [inv |-> {}, ans |-> {last[i]}]]
  <2>1. DOMAIN parts = 1..n /\ Len(parts) = n
    BY <1>0, <1>2
  <2>2. \A i \in 1..n : parts[i].inv = {} /\ parts[i].ans = {last[i]}
    BY <1>2
  <2>3. UsedActions(parts) = {}
    BY <2>1, <2>2 DEF UsedActions, Elems
  <2>4. ASSUME NEW i \in 1..n PROVE g(i) \subseteq parts[i].ans
    <3>1. {j \in 1..i : parts[j].inv = {}} = 1..i
      BY <1>0, <2>2
    <3>2. Cardinality(1..i) = i
      BY <1>0, FS_Interval
    <3>2a. UnfilledUpTo(parts, i) = i
      BY <3>1, <3>2, Zenon DEF UnfilledUpTo
    <3>3. KthRemaining(last, {}, i) = {last[i]}
      BY <1>0, KthOfAll
    <3> QED
      BY <2>2, <2>3, <3>2a, <3>3
  <2> HIDE DEF g
  <2> QED
    BY <1>a, <2>1, <2>4
<1>3. CASE parts = [i \in 1..n |-> [inv |-> {last[n+1-i]}, ans |-> {last[n+1-i]}]]
  <2>1. DOMAIN parts = 1..n /\ Len(parts) = n
    BY <1>0, <1>3
  <2>2. \A i \in 1..n : parts[i].inv = {last[n+1-i]} /\ parts[i].ans = {last[n+1-i]}
    BY <1>3
  <2>3. \A i \in 1..n : g(i) \subseteq parts[i].ans
    BY <2>2
  <2>4. ~(Len(parts) = 1 /\ n > 1 /\ parts[1].inv = {})
    BY <2>1
  <2> HIDE DEF g
  <2> QED
    BY <1>a, <2>1, <2>3, <2>4
<1> QED
  BY <1>1, <1>2, <1>3 DEF Results

\* Every action is answered, however the session groups and orders its parts.
LEMMA ResultsReport ==
  ASSUME NEW acts \in Seq(Actions), NEW obs \in Results(acts)
  PROVE  Elems(acts) \subseteq Reported(Elems(obs))
<1> DEFINE n == Len(acts)
<1> SUFFICES ASSUME NEW i \in 1..n PROVE \E j \in DOMAIN obs : acts[i] \in obs[j].ans
  BY DEF Elems, Reported
<1>0. n \in Nat
  OBVIOUS
<1>1. CASE obs = <<[inv |-> {}, ans |-> Elems(acts)]>>
  <2>1. 1 \in DOMAIN obs /\ obs[1].ans = Elems(acts)
    BY <1>1
  <2>2. acts[i] \in Elems(acts)
    BY DEF Elems
  <2> QED
    BY <2>1, <2>2
<1>2. CASE obs = [j \in 1..n |-> [inv |-> {}, ans |-> {acts[j]}]]
  BY <1>2
<1>3. CASE obs = [j \in 1..n |-> [inv |-> {acts[n+1-j]}, ans |-> {acts[n+1-j]}]]
  <2>1. n+1-i \in 1..n /\ n+1-(n+1-i) = i
    BY <1>0
  <2>2. n+1-i \in DOMAIN obs /\ obs[n+1-i].ans = {acts[i]}
    BY <1>3, <2>1
  <2> QED
    BY <2>2
<1> QED
  BY <1>1, <1>2, <1>3 DEF Results

LEMMA ObservationStep == IInv /\ ObservationInv /\ [Next]_vars => ObservationInv'
<1> SUFFICES ASSUME IInv, ObservationInv, [Next]_vars PROVE ObservationInv'
  OBVIOUS
<1> USE DEF ObservationInv
<1>0. /\ lastActions \in Seq(Actions) /\ stepActions \in Seq(Actions)
      /\ Honest(NoObs)
  BY DEF IInv, TypeOK, Honest, Elems, NoObs
<1>1. ASSUME currentObservation' \in {currentObservation, NoObs},
             UNCHANGED <<lastActions, envVars>>
      PROVE  ObservationInv'
  <2>1. Honest(currentObservation)'
    BY <1>0, <1>1 DEF Honest
  <2> QED
    BY <1>1, <2>1 DEF envVars, Honest
<1>2. ASSUME currentObservation' \in {currentObservation, NoObs},
             UNCHANGED <<lastActions, envObs, stepActions>>,
             envPc' \in {envPc, "wait", "window", "close", "join", "done"}
      PROVE  ObservationInv'
  <2>1. Honest(currentObservation)'
    BY <1>0, <1>2 DEF Honest
  <2> QED
    BY <1>2, <2>1 DEF Honest
<1>3. ASSUME Honest(currentObservation)', FlushActions(pendingActions)
      PROVE  ObservationInv'
  BY <1>3 DEF FlushActions, Leave
<1>4. CASE Start
  BY <1>4 DEF Start, Honest, fields
<1>5. CASE ReactRaise \/ AccumulateMore \/ Interrupt \/ Join
  BY <1>2, <1>5 DEF ReactRaise, AccumulateMore, Interrupt, Join, Leave, fields, envVars
<1>6. CASE React
  <2>1. Honest(PublishedObservation)
    <3>1. CASE lastActions = <<>>
      <4>1. PublishedObservation = envObs /\ envPc = "ready"
        BY <1>6, <3>1 DEF PublishedObservation, React
      <4>2. CASE Honest(envObs)
        BY <4>1, <4>2
      <4>3. CASE envObs \in Results(lastActions)
        <5>1. DOMAIN lastActions = {} /\ Len(lastActions) = 0
          BY <3>1
        <5>2. Elems(lastActions) = {}
          BY <5>1 DEF Elems
        <5>3. \A i \in DOMAIN envObs : envObs[i].inv = {}
          BY <4>3, <5>1 DEF Results
        <5> QED
          BY <4>1, <5>3 DEF Honest, Elems
      <4> QED
        BY <4>1, <4>2, <4>3
    <3>2. CASE lastActions # <<>>
      <4>1. envObs \in Results(lastActions)
        BY <1>6, <3>2 DEF React
      <4> QED
        BY <1>0, <3>2, <4>1, RewireHonest DEF PublishedObservation
    <3> QED
      BY <3>1, <3>2
  <2>2. Honest(currentObservation)'
    BY <1>6, <2>1 DEF React, Honest
  <2>3. CASE FlushActions(pendingActions)
    BY <1>3, <2>2, <2>3
  <2>4. CASE envPc' \in {"wait", "window"}
    BY <2>2, <2>4
  <2> QED
    BY <1>6, <2>3, <2>4 DEF React
<1>7. CASE WaitForPendingActions \/ AccumulateEnd
  <2>1. currentObservation' = currentObservation
    BY <1>7 DEF WaitForPendingActions, AccumulateEnd, fields
  <2>2. CASE FlushActions(pendingActions)
    BY <1>3, <2>1, <2>2 DEF Honest
  <2>3. CASE ~FlushActions(pendingActions)
    <3>1. /\ UNCHANGED <<lastActions, envObs, stepActions>>
          /\ envPc' \in {envPc, "window", "close"}
      BY <1>7, <2>3 DEF WaitForPendingActions, AccumulateEnd, Leave, fields, envVars
    <3> QED
      BY <1>2, <2>1, <3>1
  <2> QED
    BY <2>2, <2>3
<1>8. CASE Step
  <2>1. /\ stepActions = lastActions /\ UNCHANGED <<currentObservation, lastActions>>
        /\ (envPc' = "ready" /\ envObs' \in Results(stepActions)) \/ envPc' = "close"
    BY <1>8 DEF Step, Leave, fields
  <2> QED
    BY <2>1 DEF Honest, Results
<1>9. CASE Close
  BY <1>2, <1>9 DEF Close, CloseFields
<1>10. CASE MainClose \/ RecordCrash \/ ExecuteNone
  BY <1>1, <1>10 DEF MainClose, CloseFields, RecordCrash, ExecuteNone
<1>11. CASE GetObservation \/ RunReturns \/ RunRaises \/ SetupRaises \/ UNCHANGED vars
  BY <1>1, <1>11 DEF GetObservation, RunReturns, RunRaises, SetupRaises, vars, fields
<1>12. ASSUME NEW e \in Executors, Execute(e) \/ SubmitFinishAction(e) \/ ExecuteWakes(e)
       PROVE  ObservationInv'
  BY <1>1, <1>12 DEF Execute, SubmitFinishAction, ExecuteWakes
<1> QED
  BY <1>4, <1>5, <1>6, <1>7, <1>8, <1>9, <1>10, <1>11, <1>12
     DEF Next, EnvStep, MainStep, Terminated

\* A waiting call that wakes up gets the part that answers it, if there is one.
LEMMA SelectionOfHonest ==
  ASSUME NEW a, NEW parts, Honest(parts), a \in Reported(Elems(parts))
  PROVE  a \in Reported(SelectObservation(a, parts))
<1> DEFINE matched == {p \in Elems(parts) : a \in p.inv}
<1>1. CASE matched = {}
  BY <1>1, Zenon DEF SelectObservation
<1>2. CASE matched # {}
  <2>1. SelectObservation(a, parts) = matched
    BY <1>2, Zenon DEF SelectObservation
  <2>2. PICK p \in matched : TRUE
    BY <1>2
  <2>3. a \in p.ans
    BY <2>2 DEF Honest
  <2> QED
    BY <2>1, <2>2, <2>3, Zenon DEF Reported
<1> QED
  BY <1>1, <1>2

\* Only a woken call adds an answer; none is added once closed.
LEMMA AnswersStep ==
  ASSUME IInv, ObservationInv, [Next]_vars
  PROVE  \/ answers' = answers
         \/ \E e \in Executors :
              /\ ~closed /\ exPc[e] = "wait" /\ turn # exTurn[e]
              /\ answers' = answers \cup {Answer(e)}
              /\ Answer(e).available => Answer(e).act \in Answer(e).got
<1>1. ASSUME NEW e \in Executors
      PROVE  Answer(e).available => Answer(e).act \in Answer(e).got
  <2>1. /\ Answer(e).available = (CurrentAction(e) \in Reported(Elems(currentObservation)))
        /\ Answer(e).act = CurrentAction(e)
        /\ Answer(e).got = Reported(SelectObservation(CurrentAction(e), currentObservation))
    BY DEF Answer
  <2> QED
    BY <2>1, SelectionOfHonest DEF ObservationInv
<1>2. CASE Start \/ ReactRaise \/ AccumulateMore \/ Interrupt \/ Join \/ Step
  BY <1>2 DEF Start, ReactRaise, AccumulateMore, Interrupt, Join, Step
<1>3. CASE React \/ WaitForPendingActions \/ AccumulateEnd
  BY <1>3 DEF React, WaitForPendingActions, AccumulateEnd
<1>4. CASE Close \/ MainClose \/ RecordCrash \/ ExecuteNone
  BY <1>4 DEF Close, MainClose, RecordCrash, ExecuteNone
<1>5. CASE GetObservation \/ RunReturns \/ RunRaises \/ SetupRaises \/ UNCHANGED vars
  BY <1>5 DEF GetObservation, RunReturns, RunRaises, SetupRaises, vars
<1>6. ASSUME NEW e \in Executors, Execute(e) \/ SubmitFinishAction(e)
      PROVE  answers' = answers
  BY <1>6 DEF Execute, SubmitFinishAction
<1>7. ASSUME NEW e \in Executors, ExecuteWakes(e)
      PROVE  \/ answers' = answers
             \/ /\ ~closed /\ exPc[e] = "wait" /\ turn # exTurn[e]
                /\ answers' = answers \cup {Answer(e)}
  BY <1>7 DEF ExecuteWakes
<1> QED
  BY <1>1, <1>2, <1>3, <1>4, <1>5, <1>6, <1>7 DEF Next, EnvStep, MainStep, Terminated

\* Selection never hides an answer that the current observation reports, for
\* any number of calls in a round and any order of the session's parts.
THEOREM SelectionKeepsTheAnswer == Spec => []SelectionKeepsAnswer
<1>1. Init => ObservationInv /\ SelectionKeepsAnswer
  <2> SUFFICES ASSUME Init PROVE ObservationInv /\ SelectionKeepsAnswer
    OBVIOUS
  <2>1. /\ Honest(currentObservation) /\ envPc = "start" /\ lastActions = <<>>
        /\ answers = {} /\ envObs = <<[inv |-> {}, ans |-> {}]>>
    BY DEF Init, Honest, Elems, NoObs
  <2>2. Honest(envObs)
    BY <2>1 DEF Honest, Elems
  <2> QED
    BY <2>1, <2>2 DEF ObservationInv, SelectionKeepsAnswer
<1>2. IInv /\ ObservationInv /\ [Next]_vars => ObservationInv'
  BY ObservationStep
<1>3. IInv /\ ObservationInv /\ SelectionKeepsAnswer /\ [Next]_vars => SelectionKeepsAnswer'
  BY AnswersStep DEF SelectionKeepsAnswer
<1> QED
  BY Invariance, <1>1, <1>2, <1>3, PTL DEF Spec

\* Where the calls are is not disturbed by a step that moves no action, and at
\* most takes the environment out of its loop.
LEMMA AwaitedFrame ==
  ASSUME IInv, Awaited,
         UNCHANGED <<turn, currentObservation, pendingActions, exTurn, calls>>,
         \A e \in Executors : exPc'[e] = "wait" => exPc[e] = "wait",
         envPc \notin {"join", "done"},
         \/ envPc' = "close"
         \/ envPc' = envPc /\ lastActions' = lastActions
         \/ /\ envPc \in {"start", "ready", "step"} /\ envPc' \in {"start", "ready", "step"}
            /\ lastActions' = lastActions
         \/ envPc \in {"wait", "window"} /\ envPc' \in {"wait", "window"}
  PROVE  Awaited'
<1>1. ASSUME NEW e \in Executors, exPc'[e] = "wait" PROVE AwaitInv(e)'
  <2>1. AwaitInv(e)
    BY <1>1 DEF Awaited
  <2>2. Fresh(e)' = Fresh(e) /\ Answered(e)' = Answered(e) /\ CurrentAction(e)' = CurrentAction(e)
    BY DEF Fresh, Answered, CurrentAction
  <2>3. /\ Elems(pendingActions)' = Elems(pendingActions)
        /\ lastActions' = lastActions => Elems(lastActions)' = Elems(lastActions)
    BY DEF Elems
  <2>4. CASE envPc' = "close"
    <3>1. envPc \in {"start", "ready", "step", "wait", "window", "close"}
      BY DEF IInv, TypeOK
    <3>2. Fresh(e) \/ Answered(e)
      BY <2>1, <3>1 DEF AwaitInv
    <3> QED
      BY <2>1, <2>2, <2>4, <3>2 DEF AwaitInv
  <2>5. CASE envPc' # "close"
    BY <2>1, <2>2, <2>3, <2>5 DEF AwaitInv
  <2> QED
    BY <2>4, <2>5
<1>2. (envPc \in {"start", "ready", "step"} => pendingActions = <<>>)'
  BY DEF Awaited
<1> QED
  BY <1>1, <1>2 DEF Awaited

\* react() publishes what answers every waiting call.
LEMMA AwaitedReact ==
  ASSUME IInv, ObservationInv, Awaited, React
  PROVE  Awaited'
<1>1. /\ envPc = "ready" /\ pendingActions = <<>> /\ envPc' = "wait"
      /\ turn' = turn + 1 /\ currentObservation' = PublishedObservation
      /\ UNCHANGED <<pendingActions, calls, exPc, exTurn>> /\ turn \in Nat
  BY DEF React, Awaited, IInv, TypeOK, exVars
<1>2. ASSUME NEW e \in Executors, exPc[e] = "wait" PROVE AwaitInv(e)'
  <2>1. exTurn[e] = turn /\ CurrentAction(e) \in Elems(lastActions)
    BY <1>1, <1>2 DEF Awaited, AwaitInv, Fresh
  <2>2. lastActions # <<>>
    BY <2>1 DEF Elems
  <2>3. /\ envObs \in Results(lastActions) /\ lastActions \in Seq(Actions)
        /\ envObs \in Seq(Part)
    BY <1>1, <2>2 DEF ObservationInv, IInv, TypeOK
  <2>4. CurrentAction(e) \in Reported(Elems(PublishedObservation))
    BY <2>1, <2>2, <2>3, ResultsReport, RewireReports DEF PublishedObservation
  <2>5. Answered(e)'
    BY <1>1, <2>4 DEF Answered, CurrentAction
  <2>6. exTurn'[e] # turn' /\ exTurn'[e] <= turn'
    BY <1>1, <2>1
  <2> QED
    BY <1>1, <2>5, <2>6 DEF AwaitInv, Fresh
<1> QED
  BY <1>1, <1>2 DEF Awaited

\* A flush moves the waiting calls' actions from the queue to the benchmark.
LEMMA AwaitedFlush ==
  ASSUME IInv, Awaited, ~closed', envPc \in {"wait", "window"}, pendingActions # <<>>,
         FlushActions(pendingActions), UNCHANGED <<turn, exVars>>
  PROVE  Awaited'
<1>1. /\ pendingActions' = <<>> /\ lastActions' = pendingActions /\ envPc' = "step"
      /\ UNCHANGED <<exPc, exTurn, calls, turn>>
  BY DEF FlushActions, exVars
<1>2. ASSUME NEW e \in Executors, exPc[e] = "wait" PROVE AwaitInv(e)'
  <2>1. exTurn[e] = turn /\ turn <= turn /\ CurrentAction(e) \in Elems(pendingActions)
    BY <1>2 DEF Awaited, AwaitInv, Fresh, IInv, TypeOK
  <2>2. Elems(lastActions)' = Elems(pendingActions)
    BY <1>1 DEF Elems
  <2> QED
    BY <1>1, <2>1, <2>2 DEF AwaitInv, Fresh, CurrentAction
<1> QED
  BY <1>1, <1>2 DEF Awaited

\* A call made in turn joins the queue.
LEMMA AwaitedCall ==
  ASSUME IInv, Awaited, ~closed, ~late', NEW e \in Executors,
         Execute(e) \/ SubmitFinishAction(e)
  PROVE  Awaited'
<1> DEFINE a == <<e, calls[e] + 1>>
           more == Append(pendingActions, a)
<1>1. /\ pendingActions' = more /\ UNCHANGED <<turn, currentObservation, lastActions, envPc>>
      /\ envPc \in {"wait", "window"}
      /\ \A f \in Executors : exPc[f] = "wait" => exTurn[f] = turn
  BY DEF Execute, SubmitFinishAction, OutOfTurn, envVars
<1>2. /\ pendingActions \in Seq(Actions \cup {NoneAction})
      /\ calls \in [Executors -> 0..MaxCalls] /\ turn \in Nat
      /\ exPc \in [Executors -> {"idle", "wait"}] /\ exTurn \in [Executors -> Nat]
  BY DEF IInv, TypeOK
<1>3. exPc[e] = "idle" /\ calls' = [calls EXCEPT ![e] = @ + 1]
  BY DEF Execute, SubmitFinishAction, CanCall
<1>4. Elems(pendingActions) \subseteq Elems(more) /\ a \in Elems(more)
  <2>1. /\ DOMAIN more = 1..(Len(pendingActions) + 1) /\ more[Len(pendingActions) + 1] = a
        /\ Len(pendingActions) \in Nat
        /\ \A i \in 1..Len(pendingActions) : more[i] = pendingActions[i]
    BY <1>2
  <2>2. DOMAIN pendingActions = 1..Len(pendingActions)
    BY <1>2
  <2> HIDE DEF more
  <2> QED
    BY <2>1, <2>2 DEF Elems
<1> HIDE DEF more
<1>5. ASSUME NEW f \in Executors, exPc'[f] = "wait"
      PROVE  exTurn'[f] = turn /\ CurrentAction(f)' \in Elems(more)
  <2>1. CASE f = e
    <3>1. exTurn'[e] = turn
      BY <1>2, <1>3, <1>5, <2>1 DEF Execute, SubmitFinishAction
    <3>2. CurrentAction(e)' = a
      BY <1>2, <1>3 DEF CurrentAction
    <3> QED
      BY <1>4, <2>1, <3>1, <3>2
  <2>2. CASE f # e
    <3>1. exPc[f] = "wait" /\ exTurn'[f] = exTurn[f] /\ calls'[f] = calls[f]
      BY <1>2, <1>3, <1>5, <2>2 DEF Execute, SubmitFinishAction
    <3>2. exTurn[f] = turn
      BY <1>1, <3>1
    <3>3. CurrentAction(f) \in Elems(pendingActions)
      BY <1>1, <3>1, <3>2 DEF Awaited, AwaitInv, Fresh
    <3> QED
      BY <1>4, <3>1, <3>2, <3>3 DEF CurrentAction
  <2> QED
    BY <2>1, <2>2
<1>6. Elems(pendingActions)' = Elems(more)
  BY <1>1 DEF Elems
<1>7. ASSUME NEW f \in Executors, exPc'[f] = "wait" PROVE AwaitInv(f)'
  BY <1>1, <1>2, <1>5, <1>6, <1>7 DEF AwaitInv, Fresh
<1> QED
  BY <1>1, <1>7 DEF Awaited

LEMMA AwaitedStep ==
  ASSUME IInv, ObservationInv, RoundInv, [Next]_vars, ~late', ~late, ~closed', ~closed, Awaited
  PROVE  Awaited'
<1>0. envPc \notin {"join", "done"}
  BY DEF RoundInv
<1> DEFINE Still == /\ UNCHANGED <<turn, currentObservation, pendingActions, exTurn, calls>>
                    /\ \A e \in Executors : exPc'[e] = "wait" => exPc[e] = "wait"
<1>1. CASE Start \/ Step
  <2>1. Still /\ lastActions' = lastActions
    BY <1>1 DEF Start, Step, fields, exVars
  <2> QED
    BY <1>0, <1>1, <2>1, AwaitedFrame DEF Start, Step, Leave
<1>2. CASE ReactRaise \/ Interrupt
  <2>1. Still /\ envPc' = "close"
    BY <1>2 DEF ReactRaise, Interrupt, Leave, fields, exVars
  <2> QED
    BY <1>0, <2>1, AwaitedFrame
<1>3. CASE React
  BY <1>3, AwaitedReact
<1>4. CASE WaitForPendingActions \/ AccumulateEnd
  <2>1. envPc \in {"wait", "window"} /\ UNCHANGED <<turn, currentObservation, exVars>>
    BY <1>4 DEF WaitForPendingActions, AccumulateEnd, fields
  <2>2. CASE FlushActions(pendingActions) /\ pendingActions # <<>>
    BY <2>1, <2>2, AwaitedFlush
  <2>3. CASE ~(FlushActions(pendingActions) /\ pendingActions # <<>>)
    <3>1. /\ pendingActions' = pendingActions
          /\ envPc' \in {"close", "wait", "window"}
      BY <1>4, <2>3 DEF WaitForPendingActions, AccumulateEnd, Leave, fields, envVars,
         IInv, WindowInv
    <3>2. Still
      BY <2>1, <3>1 DEF exVars
    <3> QED
      BY <1>0, <2>1, <3>1, <3>2, AwaitedFrame
  <2> QED
    BY <2>2, <2>3
<1>5. CASE \/ AccumulateMore \/ GetObservation \/ RunReturns \/ RunRaises \/ SetupRaises
           \/ UNCHANGED vars
  <2>1. Still /\ UNCHANGED <<lastActions, envPc>>
    BY <1>5 DEF AccumulateMore, GetObservation, RunReturns, RunRaises, SetupRaises, vars,
       fields, envVars, exVars
  <2> QED
    BY <1>0, <2>1, AwaitedFrame
<1>6. ASSUME Close \/ MainClose \/ RecordCrash \/ ExecuteNone \/ Join PROVE FALSE
  BY <1>0, <1>6 DEF Close, MainClose, CloseFields, RecordCrash, ExecuteNone, Join
<1>7. ASSUME NEW e \in Executors, Execute(e) \/ SubmitFinishAction(e) PROVE Awaited'
  BY <1>7, AwaitedCall
<1>8. ASSUME NEW e \in Executors, ExecuteWakes(e) PROVE Awaited'
  <2>1. exPc' \in {exPc, [exPc EXCEPT ![e] = "idle"]}
    BY <1>8 DEF ExecuteWakes
  <2>2. \A f \in Executors : exPc'[f] = "wait" => exPc[f] = "wait"
    BY <2>1 DEF IInv, TypeOK
  <2>3. Still /\ UNCHANGED <<lastActions, envPc>>
    BY <1>8, <2>2 DEF ExecuteWakes, envVars
  <2> QED
    BY <1>0, <2>3, AwaitedFrame
<1> QED
  BY <1>1, <1>2, <1>3, <1>4, <1>5, <1>6, <1>7, <1>8 DEF Next, EnvStep, MainStep, Terminated

\* The flags only rise, and the environment joins only what it has closed.
LEMMA FlagsStep ==
  ASSUME IInv, RoundInv, [Next]_vars
  PROVE  /\ closed => closed'
         /\ late => late'
         /\ envPc' \in {"join", "done"} => closed'
<1>0. envPc \in {"join", "done"} => closed
  BY DEF RoundInv
<1>1. CASE Start \/ ReactRaise \/ AccumulateMore \/ Interrupt \/ Join \/ Step
  BY <1>0, <1>1 DEF Start, ReactRaise, AccumulateMore, Interrupt, Join, Step, Leave,
     fields, envVars, exVars
<1>b. closed \in BOOLEAN /\ late \in BOOLEAN
  BY DEF IInv, TypeOK
<1>2. CASE React \/ WaitForPendingActions \/ AccumulateEnd
  <2>1. ASSUME FlushActions(pendingActions)
        PROVE  (closed => closed') /\ envPc' \notin {"join", "done"}
    BY <1>b, <2>1 DEF FlushActions, Leave
  <2>2. late' = late
    BY <1>2 DEF React, WaitForPendingActions, AccumulateEnd, exVars
  <2> QED
    BY <1>2, <2>1, <2>2 DEF React, WaitForPendingActions, AccumulateEnd, Leave, fields, envVars
<1>3. CASE Close \/ MainClose \/ RecordCrash \/ ExecuteNone
  BY <1>0, <1>3 DEF Close, MainClose, CloseFields, RecordCrash, ExecuteNone, envVars, exVars
<1>4. CASE GetObservation \/ RunReturns \/ RunRaises \/ SetupRaises \/ UNCHANGED vars
  BY <1>0, <1>4 DEF GetObservation, RunReturns, RunRaises, SetupRaises, vars, fields,
     envVars, exVars
<1>5. ASSUME NEW e \in Executors, Execute(e) \/ SubmitFinishAction(e) \/ ExecuteWakes(e)
      PROVE  /\ closed => closed'
             /\ late => late'
             /\ envPc' \in {"join", "done"} => closed'
  <2>1. closed' = closed /\ envPc' = envPc
    BY <1>5 DEF Execute, SubmitFinishAction, ExecuteWakes, envVars
  <2>2. late' \in {late, late \/ OutOfTurn}
    BY <1>5 DEF Execute, SubmitFinishAction, ExecuteWakes
  <2>3. late => late'
    BY <1>b, <2>2 DEF OutOfTurn
  <2> QED
    BY <1>0, <2>1, <2>3
<1> QED
  BY <1>1, <1>2, <1>3, <1>4, <1>5 DEF Next, EnvStep, MainStep, Terminated

LEMMA RoundStep == IInv /\ ObservationInv /\ RoundInv /\ [Next]_vars => RoundInv'
<1> SUFFICES ASSUME IInv, ObservationInv, RoundInv, [Next]_vars, ~late'
             PROVE  RoundInv'
  BY FlagsStep DEF RoundInv
<1>1. ~late /\ AnswersCorrespond /\ (closed \/ Awaited)
  BY FlagsStep DEF RoundInv
<1>2. AnswersCorrespond'
  <2>1. ASSUME NEW e \in Executors, ~closed, exPc[e] = "wait", turn # exTurn[e],
               answers' = answers \cup {Answer(e)},
               Answer(e).available => Answer(e).act \in Answer(e).got
        PROVE  AnswersCorrespond'
    <3>1. AwaitInv(e)
      BY <1>1, <2>1 DEF Awaited
    <3>2. envPc \notin {"join", "done"}
      BY <2>1 DEF RoundInv
    <3>3. Answered(e)
      BY <2>1, <3>1, <3>2 DEF AwaitInv, Fresh, IInv, TypeOK
    <3>4. Answer(e).available
      BY <3>3 DEF Answered, Answer
    <3> QED
      BY <1>1, <2>1, <3>4 DEF AnswersCorrespond
  <2>2. CASE answers' = answers
    BY <1>1, <2>2 DEF AnswersCorrespond
  <2> QED
    BY <2>1, <2>2, AnswersStep
<1>3. closed' \/ Awaited'
  BY <1>1, AwaitedStep, FlagsStep
<1> QED
  BY <1>2, <1>3, FlagsStep DEF RoundInv

\* As long as the calls come in rounds, every call gets the effect of its own
\* action, for any number of threads and calls, with or without the window.
THEOREM EveryRoundIsAnswered == Spec => []RoundsAreAnswered
<1>1. Init => ObservationInv /\ RoundInv
  <2> SUFFICES ASSUME Init PROVE ObservationInv /\ RoundInv
    OBVIOUS
  <2>1. /\ Honest(currentObservation) /\ envPc = "start" /\ lastActions = <<>>
        /\ answers = {} /\ envObs = <<[inv |-> {}, ans |-> {}]>>
        /\ pendingActions = <<>> /\ \A e \in Executors : exPc[e] = "idle"
    BY DEF Init, Honest, Elems, NoObs
  <2>2. Honest(envObs)
    BY <2>1 DEF Honest, Elems
  <2> QED
    BY <2>1, <2>2 DEF ObservationInv, RoundInv, AnswersCorrespond, Awaited
<1>2. IInv /\ ObservationInv /\ [Next]_vars => ObservationInv'
  BY ObservationStep
<1>3. IInv /\ ObservationInv /\ RoundInv /\ [Next]_vars => RoundInv'
  BY RoundStep
<1>4. RoundInv => RoundsAreAnswered
  BY DEF RoundInv, RoundsAreAnswered
<1> QED
  BY Invariance, <1>1, <1>2, <1>3, <1>4, PTL DEF Spec
=============================================================================
