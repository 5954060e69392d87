----------------------- MODULE MCLearningExperiment -----------------------
EXTENDS LearningExperiment

\* Two benchmarks, the first of two tasks.
MCBlock == <<1, 1, 2>>
=============================================================================
