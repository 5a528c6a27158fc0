----------------------------- MODULE WorkQueue ------------------------------
(***************************************************************************)
(* What the synthesis pipeline promises of its work items and sessions     *)
(* (store/pipeline_index.go, AnswerPipelineWorkItem and                    *)
(* AdvancePipelineSessionPhase): an item is taken by one caller, and what  *)
(* its answer asks for is done once or, when that caller dies, not at all; *)
(* a session's phases follow each other and none comes twice.              *)
(***************************************************************************)
CONSTANTS Items, Sessions

VARIABLES
    work,   \* where each item is
    stage   \* the phase of each session

Init ==
    /\ work = [i \in Items |-> "none"]
    /\ stage = [s \in Sessions |-> "work"]

Places == {"none", "open", "taken", "applied", "lost"}

(* Some items that are at one place move on to another.                     *)
Move(from, to) ==
    /\ work' \in [Items -> Places]
    /\ \A i \in Items :
          work'[i] # work[i] => work[i] = from /\ work'[i] = to
    /\ UNCHANGED stage

Enqueue == Move("none", "open")
Lose    == Move("taken", "lost")

(* One item does.                                                           *)
Hand(i, from, to) ==
    /\ work[i] = from
    /\ work' = [work EXCEPT ![i] = to]
    /\ UNCHANGED stage

Take(i)  == Hand(i, "open", "taken")
Apply(i) == Hand(i, "taken", "applied")

Follows(from, to) == <<from, to>> \in {<<"work", "reflect">>, <<"reflect", "done">>}

Advance(s) ==
    /\ \E to \in {"reflect", "done"} :
          /\ Follows(stage[s], to)
          /\ stage' = [stage EXCEPT ![s] = to]
    /\ UNCHANGED work

Next ==
    \/ Enqueue \/ Lose
    \/ \E i \in Items : Take(i) \/ Apply(i)
    \/ \E s \in Sessions : Advance(s)

Spec == Init /\ [][Next]_<<work, stage>>
=============================================================================
