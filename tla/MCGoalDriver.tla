---- MODULE MCGoalDriver ----
\* One run, or two bare goals in one repository, which share a directory.
EXTENDS GoalDriver, TLC

CONSTANTS r1, r2, d1, h1, h2

OneDir == [r \in Runs |-> d1]

HandlerSymmetry == Permutations(Handlers)
====
