------------------------------ MODULE CostBudget ------------------------------
(***************************************************************************)
(* CostBudgetPolicy of core/src/policies at work: PipelineExecutor with it *)
(* as the one registered enforcement policy, so that the hooks' verdicts   *)
(* follow from what the run knows it has spent.                            *)
(*                                                                         *)
(* Costs are whole numbers: what an answer of a unit costs, 0 when its     *)
(* provider returns no cost.  A unit that fails has no usage.              *)
(***************************************************************************)
EXTENDS PipelineExecutor, Sums

CONSTANT Budgets   \* prices and ceilings a run may have

\* perRun is the per-run ceiling with the safety margin taken off; a ceiling that
\* is not configured is NULL.
BudgetType == [price : [Units -> Nat], perRun : Nat \cup {NULL}, perChannel : Nat \cup {NULL}]

ASSUME BudgetsAssumption == Budgets \subseteq BudgetType
ASSUME OnePolicy == \A p \in Plans : p.before = 1 /\ p.after = 1

VARIABLE budget

CostOf(x, s) == IF s \in {"error", "timeout"} THEN 0 ELSE budget.price[x]

\* Fault: only the depth that is running counts.
KnownCost_ThisDepth ==
  Total([i \in {j \in DOMAIN channels : channels[j].depth = depth} |->
           CostOf(channels[i].channel, channels[i].status)])

\* sumCost over result.channels: carried results count, syntheses do not.
KnownCost == Total([i \in DOMAIN channels |-> CostOf(channels[i].channel, channels[i].status)])

\* The ceiling is reached by a cost that is equal to it.
Reached(cost) == budget.perRun # NULL /\ cost >= budget.perRun

\* Fault: the unit that just ran is left out of the sum.
TooMuch_WithoutThis ==
  \/ budget.perChannel # NULL /\ CostOf(cur, st[cur]) > budget.perChannel
  \/ Reached(KnownCost)

\* afterChannel halts on the unit's own cost or on the sum with it.
TooMuch ==
  \/ budget.perChannel # NULL /\ CostOf(cur, st[cur]) > budget.perChannel
  \/ Reached(KnownCost + CostOf(cur, st[cur]))

BudgetInit == Init /\ budget \in Budgets

Ungated ==
  \/ StartDepth \/ Carry \/ EnterLevel \/ EndLevels \/ Decide \/ Finish \/ PluginThrows
  \/ EnterGate
  \/ \E s \in Statuses : SettleGated(s)
  \/ ThrowGated \/ RecordChannel \/ RecordSynthesis
  \/ ExternalAbort

BudgetNext ==
  /\ \/ Ungated
     \/ Abort /\ Reached(KnownCost)
     \/ Proceed /\ ~Reached(KnownCost)
     \/ AfterHook("halt") /\ TooMuch
     \/ AfterHook("continue") /\ ~TooMuch
     \/ Over
  /\ UNCHANGED budget

BudgetSpec == BudgetInit /\ [][BudgetNext]_<<vars, budget>>

-----------------------------------------------------------------------------

Spent(E) == Total([e \in E |-> CostOf(e.unit, e.status)])

CarriedCost == Total([c \in plan.carried |-> budget.price[c]])

ChannelRuns == {e \in ended : e.unit # Synth}

\* However depths, carried results and failures add up, the channels of a run
\* never cost more than the ceiling and one channel: the one whose cost was not
\* known yet when the others were within it.
OvershootByOne ==
  budget.perRun # NULL /\ ChannelRuns # {} =>
    \E e \in ChannelRuns :
      Spent(ChannelRuns \ {e}) + CarriedCost < budget.perRun

\* A run that ends with its channels at the ceiling, or in which any unit cost
\* more than a channel may, was halted: it is never reported as having run out
\* its plan, and no depth after that unit's was begun.
HaltedAtCeiling ==
  pc = "returned" =>
    /\ budget.perRun # NULL /\ ChannelRuns # {} /\ Spent(ChannelRuns) + CarriedCost >= budget.perRun
         => halted
    /\ \A e \in ended : budget.perChannel # NULL /\ CostOf(e.unit, e.status) > budget.perChannel
         => halted /\ \A f \in ended : f.depth <= e.depth

\* docs/policy.md: maxCostUsdPerRun is a hard ceiling on the summed channel cost
\* of the whole run; docs/architecture.md: synthesis is just another channel.  So
\* once everything the run has executed sums up to the ceiling nothing starts.
CeilingIsHard ==
  [][runs' # runs /\ budget.perRun # NULL => Spent(ended) < budget.perRun]_<<vars, budget>>
=============================================================================
