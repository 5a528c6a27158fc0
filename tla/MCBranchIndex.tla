---------------------------- MODULE MCBranchIndex ---------------------------
(***************************************************************************)
(* BranchIndex with an agent's branch and its upstream.                    *)
(***************************************************************************)
EXTENDS BranchIndex

CONSTANTS agent, upstream, p1, p2, b1, b2, m1, m2

MCOrder == <<agent, upstream>>
Narrow  == [m \in Models |-> IF m = m1 THEN 1 ELSE 2]
SafetyBudget == [write |-> 2, fault |-> 1, crash |-> 1, restart |-> 1, job |-> 1, switch |-> 1]

(* At most three of these events in one run, and m1 configured at first:   *)
(* which of the two it is makes no difference.                             *)
Spent(e)  == Budget[e] - budget[e]
FewEvents ==
    /\ Spent("write") + Spent("fault") + Spent("crash") + Spent("restart") + Spent("job") <= 3
    /\ Spent("switch") = 0 => embedder = m1
=============================================================================
