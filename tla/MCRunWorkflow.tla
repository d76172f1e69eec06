----------------------------- MODULE MCRunWorkflow -----------------------------
(* Two processes, of a planning and an implementing tool: the second may   *)
(* take over what the first owns, not the other way round.                 *)
EXTENDS RunWorkflow

CONSTANTS p1, p2, plan, implement

MCProcs == {p1, p2}
MCTools == {plan, implement}
MCToolOf == [p \in MCProcs |-> IF p = p1 THEN plan ELSE implement]
MCTakeovers == {<<implement, plan>>}
=============================================================================
