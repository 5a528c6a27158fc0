---------------------------- MODULE MCBranchSync ----------------------------
(***************************************************************************)
(* BranchSync on two paths and two contents.                               *)
(***************************************************************************)
EXTENDS BranchSync, TLC

CONSTANTS p1, p2, b1, b2

MCPaths == {p1, p2}
MCBlobs == {b1, b2}

(* A fact at p1, nothing at p2.                                             *)
MCRoots == {(p1 :> b1) @@ (p2 :> Absent)}

(* A new fact, an edit, a delete, a rename (write and delete in one commit). *)
MCChanges ==
    {[files |-> p2 :> b1, deletes |-> {}],
     [files |-> p1 :> b2, deletes |-> {}],
     [files |-> <<>>,     deletes |-> {p1}],
     [files |-> p2 :> b2, deletes |-> {p1}]}

Events(write, mainMoves, rewrite, fault) ==
    [k \in BudgetKinds |-> CASE k = "write" -> write
                             [] k = "main" -> mainMoves
                             [] k = "rewrite" -> rewrite
                             [] k = "fault" -> fault]

(* Enough for writes on either side of a merge, a criss-cross, a rewind of what
   was merged, and one thing going wrong.                                   *)
SafetyBudget == Events(2, 2, 1, 1)

(* Four of them, a fault counting for two.                                  *)
AnyLeft == [BudgetKinds -> 0 .. 2]
FewLeft ==
    {left \in AnyLeft :
        LET spent(k) == SafetyBudget[k] - left[k]
        IN  spent("write") + spent("main") + spent("rewrite") + 2 * spent("fault") <= 4}

(* Main moves twice and is never rewritten; anything may fail once.         *)
LivenessBudget == Events(2, 2, 0, 1)

(* Main moves twice and nothing fails.                                      *)
MergeBudget == Events(2, 2, 0, 0)
=============================================================================
