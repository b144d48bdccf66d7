---------------------------- MODULE ChannelGraph ----------------------------
(***************************************************************************)
(* The dependency graph a pipeline declares (core/src/specs): a list of    *)
(* channels, each with an id and the ids it dependsOn.  PipelineSpec is    *)
(* all that is checked when a pipeline is loaded: ids may repeat, and      *)
(* dependsOn may repeat an id or name one that does not exist.             *)
(***************************************************************************)
EXTENDS Integers, Sequences, FiniteSets

CONSTANTS
  NumChannels,  \* channels in the list
  Ids,          \* the ids written in the pipeline
  Graphs        \* the graphs considered

Positions == 1..NumChannels

\* id and dependsOn of the channel at each position of the list.
GraphType == [id : [Positions -> Ids], dependsOn : [Positions -> Seq(Ids)]]

ASSUME GraphsAssumption == NumChannels \in Nat /\ Graphs \subseteq GraphType

VARIABLE graph

DeclaredIds == {graph.id[p] : p \in Positions}

\* The ids among which p lists a dependency.
Deps(p) == {graph.dependsOn[p][k] : k \in DOMAIN graph.dependsOn[p]}

\* How often p's list names an id of S.
Mentions(p, S) == {k \in DOMAIN graph.dependsOn[p] : graph.dependsOn[p][k] \in S}

Flat == \A p \in Positions : graph.dependsOn[p] = <<>>

HasUnknown == \E p \in Positions : ~(Deps(p) \subseteq DeclaredIds)

\* Map.set in list order: the last channel with an id decides what the map holds.
LastWith(i) == CHOOSE p \in Positions :
                 graph.id[p] = i /\ \A q \in Positions : graph.id[q] = i => q <= p

\* The indegree map both walks start from.
InDegrees == [i \in DeclaredIds |-> Len(graph.dependsOn[LastWith(i)])]

\* q must have run before p may.
Before(q, p) == graph.id[q] \in Deps(p)

UniqueIds == \A p, q \in Positions : graph.id[p] = graph.id[q] => p = q

NoRepeats == \A p \in Positions : Cardinality(Deps(p)) = Len(graph.dependsOn[p])
=============================================================================
