--------------------------- MODULE LearningAgents ---------------------------
(***************************************************************************)
(* The continual-learning agents side by side: an evaluation uses one of   *)
(* them, and the stores of the others stay as they are.                    *)
(***************************************************************************)
EXTENDS AceAgent, HarnessAgent, AutoskillAgent, ReasoningBankAgent, AmemAgent

Init ==
  /\ SessionsInit
  /\ AceInit /\ HarnessInit /\ AutoskillInit /\ RbInit /\ AmemInit
  /\ (method # "ace" => frequency = 1) /\ (method # "a_mem" => threshold = 1)

\* The session loop drives an agent whose store it does not touch.
Drive == \E s \in Sessions : Live(s)

Next ==
  \/ /\ method = "ace"
     /\ AceNext \/ (Drive /\ UNCHANGED aceVars)
     /\ UNCHANGED <<harnessVars, autoskillVars, rbVars, amemVars>>
  \/ /\ method = "harness"
     /\ HarnessNext \/ (Drive /\ UNCHANGED harnessVars)
     /\ UNCHANGED <<aceVars, autoskillVars, rbVars, amemVars>>
  \/ /\ method = "autoskill"
     /\ AutoskillNext \/ (Drive /\ UNCHANGED autoskillVars)
     /\ UNCHANGED <<aceVars, harnessVars, rbVars, amemVars>>
  \/ /\ method = "reasoning_bank"
     /\ RbNext \/ (Drive /\ UNCHANGED rbVars)
     /\ UNCHANGED <<aceVars, harnessVars, autoskillVars, amemVars>>
  \/ /\ method = "a_mem"
     /\ AmemNext \/ (Drive /\ UNCHANGED amemVars)
     /\ UNCHANGED <<aceVars, harnessVars, autoskillVars, rbVars>>
  \/ Over /\ UNCHANGED <<session, aceVars, harnessVars, autoskillVars, rbVars, amemVars>>

Spec == Init /\ [][Next]_<<session, aceVars, harnessVars, autoskillVars, rbVars, amemVars>>

\* One type invariant for what the agents share and each agent's own state.
TypeOK ==
  /\ method \in Methods /\ workers \in Nat \ {0} /\ training \in BOOLEAN
  /\ reacts \in [Sessions -> 0..MaxReacts]
  /\ heard \in [Sessions -> BOOLEAN] /\ acted \in [Sessions -> BOOLEAN]
  /\ told \in [Sessions -> BOOLEAN]
  /\ met \subseteq {p \in SUBSET Sessions : Cardinality(p) = 2}
  /\ AceTypeOK /\ HarnessTypeOK /\ AutoskillTypeOK /\ RbTypeOK /\ AmemTypeOK
=============================================================================
