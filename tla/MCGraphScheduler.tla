---- MODULE MCGraphScheduler ----
\* Two nodes; a chain and a fan-out plan; option sets of each run.
EXTENDS GraphScheduler, TLC

CONSTANTS a, b, h1, h2

MCNodes == {a, b}

Chain == [nodes |-> {a, b}, deps |-> [n \in MCNodes |-> IF n = b THEN {a} ELSE {}]]
Fan == [nodes |-> {a, b}, deps |-> [n \in MCNodes |-> {}]]

BothPlans == {Chain, Fan}
ChainOnly == {Chain}
FanOnly == {Fan}

Opt(review, gate2, wt, cap) ==
    [review |-> review, gate2 |-> gate2, worktrees |-> wt, cap |-> cap]

Unattended == {Opt(FALSE, FALSE, TRUE, 1), Opt(FALSE, FALSE, TRUE, 2)}
Alone == {Opt(FALSE, FALSE, TRUE, 1)}
Plain == {Opt(FALSE, FALSE, FALSE, 1)}
Gated == {Opt(TRUE, TRUE, TRUE, 1)}

HandlerSymmetry == Permutations(Handlers)
====
