---------------------------- MODULE MCCostBudget ----------------------------
(***************************************************************************)
(* Small instances of CostBudget: two channels and a synthesis over two    *)
(* depths, prices of 0 to 2 and ceilings around what they sum up to.       *)
(***************************************************************************)
EXTENDS CostBudget

CONSTANTS prov

Plan ==
  [deps |-> [c \in Channels |-> {}], rank |-> [c \in Channels |-> 1],
   provider |-> [c \in Channels |-> prov],
   synthesis |-> TRUE, recursionEnabled |-> TRUE, maxDepth |-> 2, ceiling |-> FALSE,
   globalCap |-> 4, providerCap |-> [p \in Providers |-> NULL],
   sequential |-> TRUE, before |-> 1, after |-> 1, carried |-> {}]

SmallPlans == {Plan, [Plan EXCEPT !.carried = {1}],
               [Plan EXCEPT !.deps = [c \in Channels |-> IF c = 2 THEN {1} ELSE {}],
                            !.rank = [c \in Channels |-> c]]}

SmallBudgets ==
  [price : [Units -> 0..2], perRun : {NULL, 0, 2, 3, 5}, perChannel : {NULL, 1}]
=============================================================================
