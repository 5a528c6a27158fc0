-------------------------- MODULE MCPipelineSession -------------------------
(***************************************************************************)
(* PipelineSession with two callers.                                       *)
(***************************************************************************)
EXTENDS PipelineSession

CONSTANTS c1, c2

(* No item at all, or two that a follow-up comes between.                   *)
MCPlans == {<<>>, <<"discover", "distill">>}

(* The latter alone.                                                        *)
MCOnePlan == {<<"discover", "distill">>}
=============================================================================
