---------------------------- MODULE MCPlanGraphs ----------------------------
(***************************************************************************)
(* All graphs of three channels with dependsOn lists of up to two entries, *)
(* over their ids and one that does not exist, with unique ids and with a  *)
(* repeated one.                                                           *)
(***************************************************************************)
EXTENDS PlanGraphs

CONSTANTS a, b, c, ghost

Lists == UNION {[1..n -> Ids] : n \in 0..2}

SmallGraphs ==
  {[id |-> i, dependsOn |-> d] : i \in {<<a, b, c>>, <<a, b, a>>}, d \in [Positions -> Lists]}
=============================================================================
