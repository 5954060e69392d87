-------------------------- MODULE MCLearningAgents --------------------------
\* LearningAgents on small instances.
EXTENDS LearningAgents, TLC

\* The stores tell sessions apart, not which is which.
Symmetry == Permutations(Sessions)

\* Two sessions one after the other, with and without training feedback, or at
\* once, and three one after the other where one has to recall what another
\* linked to a third; of the agents for which two at once are enough.
InPairs ==
  LET Small == {"ace", "harness", "a_mem"} IN
    [method : Small, workers : {1}, training : BOOLEAN, tasks : {2}]
      \cup [method : Small, workers : {2}, training : {FALSE}, tasks : {2}]
      \cup [method : {"a_mem"}, workers : {1}, training : {FALSE}, tasks : {3}]

\* Three sessions on two threads, of the agents where it takes a third: two merge
\* into a skill, or one appends while another reads a store that has a memory.
ThreeOnTwo ==
  [method : {"autoskill", "reasoning_bank"}, workers : {2}, training : {FALSE}, tasks : {3}]

SmallEvaluations == InPairs \cup ThreeOnTwo
=============================================================================
