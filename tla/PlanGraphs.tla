----------------------------- MODULE PlanGraphs -----------------------------
(***************************************************************************)
(* A pipeline on its way to a run: its graph is checked by                 *)
(* validate-pipeline, and whatever that says the executor plans it.        *)
(***************************************************************************)
EXTENDS ExecutionPlan, PipelineValidator

Init == graph \in Graphs /\ PlanInit /\ ValidatorInit

Checked == verdict \in {"accepted", "rejected"}
Planned == planned \in {"yes", "threw"}

vars == <<graph, planVars, validatorVars>>

Next ==
  \/ ValidatorNext /\ UNCHANGED <<graph, planVars>>
  \/ Checked /\ PlanNext /\ UNCHANGED <<graph, validatorVars>>
  \/ Checked /\ Planned /\ UNCHANGED vars

Spec == Init /\ [][Next]_vars

FairSpec == Spec /\ WF_vars(Next)

\* The gate and the planner agree.  A graph validate-pipeline accepts is never
\* refused by the executor, has unique ids and is planned with every dependency
\* first; and when neither ids nor the entries of a dependsOn list repeat, the
\* gate accepts whatever the executor can plan.
GateAgrees ==
  Planned =>
    /\ verdict = "accepted" => planned = "yes" /\ UniqueIds /\ DependenciesFirst
    /\ UniqueIds /\ NoRepeats /\ planned = "yes" => verdict = "accepted"

\* Both walks end, on cyclic and malformed graphs as well.
BothEnd == <>(Checked /\ Planned)
=============================================================================
