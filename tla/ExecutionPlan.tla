---------------------------- MODULE ExecutionPlan ----------------------------
(***************************************************************************)
(* The levels of an execution plan: topoLevels of core/src/executor and    *)
(* the part of buildExecutionPlan that calls it.  One round of Kahn's      *)
(* algorithm is one step.                                                  *)
(***************************************************************************)
EXTENDS ChannelGraph

VARIABLES
  planned,    \* "no", "running", then "yes", or "threw"
  indegree,   \* unresolved dependencies, by id
  remaining,  \* ids not placed yet
  levels      \* the levels so far, each a set of positions

planVars == <<planned, indegree, remaining, levels>>

PlanInit == planned = "no" /\ indegree = <<>> /\ remaining = {} /\ levels = <<>>

\* Without any dependsOn there is one level, or none.
PlanFlat ==
  /\ planned = "no" /\ Flat
  /\ planned' = "yes"
  /\ levels' = IF Positions = {} THEN <<>> ELSE <<Positions>>
  /\ UNCHANGED <<indegree, remaining>>

\* The dependencies are counted; an unknown one is refused.
StartPlan ==
  /\ planned = "no" /\ ~Flat
  /\ IF HasUnknown
       THEN planned' = "threw" /\ UNCHANGED <<indegree, remaining>>
       ELSE planned' = "running" /\ indegree' = InDegrees /\ remaining' = DeclaredIds
  /\ UNCHANGED levels

Ready == {p \in Positions : graph.id[p] \in remaining /\ indegree[graph.id[p]] = 0}

IdsOf(S) == {graph.id[p] : p \in S}

\* Fault: a dependency listed twice is only counted down once.
CountedDown_Once(i, S) ==
  Cardinality({p \in Positions : graph.id[p] = i /\ Mentions(p, S) # {}})

\* The entries of lists of channels named i that mention an id of S.
CountedDown(i, S) ==
  Cardinality(UNION {{p} \X Mentions(p, S) : p \in {q \in Positions : graph.id[q] = i}})

\* Fault: a channel is ready once its first dependency is.
Round_Eager ==
  /\ planned = "running" /\ remaining # {} /\ Ready # {}
  /\ levels' = Append(levels, Ready)
  /\ remaining' = remaining \ IdsOf(Ready)
  /\ indegree' = [i \in DOMAIN indegree |->
       IF i \in remaining' /\ CountedDown(i, IdsOf(Ready)) > 0 THEN 0 ELSE indegree[i]]
  /\ UNCHANGED planned

\* The next level: whatever has no unresolved dependency left.
Round ==
  /\ planned = "running" /\ remaining # {} /\ Ready # {}
  /\ levels' = Append(levels, Ready)
  /\ remaining' = remaining \ IdsOf(Ready)
  /\ indegree' = [i \in DOMAIN indegree |->
       IF i \in remaining' THEN indegree[i] - CountedDown(i, IdsOf(Ready)) ELSE indegree[i]]
  /\ UNCHANGED planned

\* Fault: the loop only ends once everything is placed.
EndPlan_NeverThrows ==
  /\ planned = "running" /\ remaining = {}
  /\ planned' = "yes"
  /\ UNCHANGED <<indegree, remaining, levels>>

\* Nothing remains, or nothing is ready: then the rest is cyclic.
EndPlan ==
  /\ planned = "running" /\ (remaining = {} \/ Ready = {})
  /\ planned' = IF remaining = {} THEN "yes" ELSE "threw"
  /\ UNCHANGED <<indegree, remaining, levels>>

PlanNext == PlanFlat \/ StartPlan \/ Round \/ EndPlan

-----------------------------------------------------------------------------
(***************************************************************************)
(* Properties.                                                             *)
(***************************************************************************)

Placed == UNION {levels[l] : l \in DOMAIN levels}

\* No channel is on two levels.
PlacedOnce == \A l, m \in DOMAIN levels : l # m => levels[l] \cap levels[m] = {}

\* Every dependency of a placed channel is on an earlier level.
DependenciesFirst ==
  \A l \in DOMAIN levels : \A p \in levels[l], q \in Positions :
    Before(q, p) => \E m \in 1..(l - 1) : q \in levels[m]

\* While the planner works and whatever it ends with, a channel it has placed
\* is on one level only and has every channel it depends on before it,
\* as long as ids are unique.
LevelsOrdered == UniqueIds => PlacedOnce /\ DependenciesFirst

\* The reference: in an acyclic graph without unknown ids each channel has
\* exactly one rank, one more than the highest rank it depends on.
Ranks == {r \in [Positions -> Positions] :
            \A p \in Positions :
              LET below == {q \in Positions : Before(q, p)} IN
              /\ \A q \in below : r[q] < r[p]
              /\ r[p] = 1 \/ \E q \in below : r[q] = r[p] - 1}

\* The plan is the reference: the planner throws exactly when the graph has an
\* unknown dependency or a cycle, and otherwise every channel is on the level of
\* its rank, so as early as its dependencies allow and never dropped.
MatchesReference ==
  UniqueIds =>
    /\ planned = "threw" => HasUnknown \/ Ranks = {}
    /\ planned = "yes" =>
         /\ ~HasUnknown
         /\ \E r \in Ranks : \A p \in Positions : r[p] \in DOMAIN levels /\ p \in levels[r[p]]

=============================================================================
