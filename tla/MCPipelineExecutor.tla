-------------------------- MODULE MCPipelineExecutor --------------------------
(***************************************************************************)
(* Small instances of PipelineExecutor: three channels over two providers, *)
(* the dependency graphs of three channels that matter, tight and loose    *)
(* caps, recursion to depth 2, policies with up to two hooks, and resumed  *)
(* runs.                                                                   *)
(***************************************************************************)
EXTENDS PipelineExecutor, FiniteSetsExt

CONSTANTS p1, p2

Flat   == [c \in Channels |-> {}]
Chain  == [c \in Channels |-> IF c = 1 THEN {} ELSE {c - 1}]
Fork   == [c \in Channels |-> IF c = 1 THEN {} ELSE {1}]
Join   == [c \in Channels |-> IF c = 1 THEN {2, 3} ELSE {}]

\* The only ranking that puts a channel right behind its last dependency.
Ranking(deps) ==
  CHOOSE r \in [Channels -> 1..NumChannels] :
    \A c \in Channels : r[c] = IF deps[c] = {} THEN 1 ELSE 1 + Max({r[d] : d \in deps[c]})

Concurrent(deps, depths, global) ==
  [deps |-> deps, rank |-> Ranking(deps),
   provider |-> [c \in Channels |-> IF c = 2 THEN p2 ELSE p1],
   synthesis |-> TRUE, recursionEnabled |-> depths > 1, maxDepth |-> depths, ceiling |-> FALSE,
   globalCap |-> global, providerCap |-> [p \in Providers |-> IF p = p1 THEN 1 ELSE NULL],
   sequential |-> FALSE, before |-> 0, after |-> 0, carried |-> {}]

Gated(deps, depths, before, after) ==
  [Concurrent(deps, depths, 1) EXCEPT !.sequential = TRUE, !.before = before, !.after = after]

ConcurrentPlans ==
  {Concurrent(Flat, 1, 1), Concurrent(Flat, 1, 2), Concurrent(Flat, 1, 4), Concurrent(Join, 1, 2),
   Concurrent(Chain, 0, 2), Concurrent(Fork, 2, 2),
   [Concurrent(Flat, 1, 2) EXCEPT !.providerCap = [p \in Providers |-> NULL]],
   [Concurrent(Join, 2, 2) EXCEPT !.synthesis = FALSE, !.ceiling = TRUE]}

ResumedPlans ==
  {[Concurrent(Join, 2, 2) EXCEPT !.carried = {2}],
   [Concurrent(Chain, 1, 2) EXCEPT !.carried = {1, 2}],
   [Concurrent(Flat, 1, 2) EXCEPT !.carried = Channels],
   [Gated(Fork, 1, 1, 1) EXCEPT !.carried = {1}]}

GatedPlans ==
  {Gated(Flat, 1, 0, 0), Gated(Flat, 1, 2, 1), Gated(Join, 1, 1, 2), Gated(Fork, 2, 0, 1),
   [Gated(Chain, 2, 1, 0) EXCEPT !.synthesis = FALSE]}

SmallPlans == ConcurrentPlans \cup ResumedPlans \cup GatedPlans
=============================================================================
