---------------------- MODULE CoordinatorObservations ----------------------
(***************************************************************************)
(* The two pure functions of AgentCoordinator that attach observations to  *)
(* the actions they answer (adapters/agents/coordinator.py):               *)
(* _rewire_observation, applied when the environment publishes, and        *)
(* _select_observation_for_action, applied when a waiting execute() wakes. *)
(*                                                                         *)
(* An observation is a sequence of parts (Observation.to_observation_list).*)
(* A part carries inv, its invoking_actions, which the code reads and      *)
(* fills in, and ans, the actions whose effect it really reports, which    *)
(* only the properties look at.                                            *)
(***************************************************************************)
EXTENDS Integers, Sequences, FiniteSets

\* The set of elements of a sequence.
Elems(s) == {s[i] : i \in DOMAIN s}

\* The actions some part already names.
UsedActions(parts) == UNION {p.inv : p \in Elems(parts)}

\* How many parts among the first i have no invoking action yet.
UnfilledUpTo(parts, i) == Cardinality({j \in 1..i : parts[j].inv = {}})

\* Mutant of KthRemaining: remaining actions are popped from the end.
KthRemainingFromEnd(last, used, k) ==
  {last[j] : j \in {j \in DOMAIN last :
     /\ last[j] \notin used
     /\ Cardinality({m \in j..Len(last) : last[m] \notin used}) = k}}

\* The k-th of the actions no part names (remaining[k]), as a set that is
\* empty when there are fewer.
KthRemaining(last, used, k) ==
  {last[j] : j \in {j \in DOMAIN last :
     /\ last[j] \notin used
     /\ Cardinality({m \in 1..j : last[m] \notin used}) = k}}

\* _rewire_observation: with one part and several last actions the part gets
\* all of them; otherwise the parts without invoking actions take, in order,
\* the remaining last actions.
RewireObservation(parts, last) ==
  IF Len(parts) = 1 /\ Len(last) > 1 /\ parts[1].inv = {}
    THEN <<[inv |-> Elems(last), ans |-> parts[1].ans]>>
    ELSE [i \in DOMAIN parts |->
           [inv |-> IF parts[i].inv = {}
                      THEN KthRemaining(last, UsedActions(parts), UnfilledUpTo(parts, i))
                      ELSE parts[i].inv,
            ans |-> parts[i].ans]]

\* _select_observation_for_action: the parts that name the action, or the
\* whole observation (after a warning) when none does.
SelectObservation(a, parts) ==
  LET matched == {p \in Elems(parts) : a \in p.inv}
  IN  IF matched = {} THEN Elems(parts) ELSE matched
=============================================================================
