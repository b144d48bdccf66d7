-------------------------- MODULE PipelineValidator --------------------------
(***************************************************************************)
(* detectGraphIssues of core/src/validation: the check validate-pipeline   *)
(* makes of a dependency graph.  One visit of the work queue is one step.  *)
(* The order of the queue decides nothing, so it is a set here.            *)
(***************************************************************************)
EXTENDS ChannelGraph

VARIABLES
  verdict,   \* "none", "running", then "accepted" or "rejected"
  degree,    \* unresolved dependencies, by id
  queue,     \* ids whose dependencies are resolved
  removed    \* ids visited

validatorVars == <<verdict, degree, queue, removed>>

ValidatorInit == verdict = "none" /\ degree = <<>> /\ queue = {} /\ removed = {}

\* Unknown dependencies are reported first; otherwise the walk begins with the
\* channels that have none.
StartValidation ==
  /\ verdict = "none"
  /\ IF HasUnknown
       THEN verdict' = "rejected" /\ UNCHANGED <<degree, queue>>
       ELSE /\ verdict' = "running"
            /\ degree' = InDegrees
            /\ queue' = {i \in DeclaredIds : InDegrees[i] = 0}
  /\ UNCHANGED removed

\* The channels named j that list i, however often they list it.
Listing(j, i) == {p \in Positions : graph.id[p] = j /\ i \in Deps(p)}

\* Fault: a channel joins the queue as soon as one dependency of it is visited.
Visit_Eager(i) ==
  /\ verdict = "running" /\ i \in queue
  /\ removed' = removed \cup {i}
  /\ degree' = [j \in DOMAIN degree |->
       IF j \in removed' THEN degree[j] ELSE degree[j] - Cardinality(Listing(j, i))]
  /\ queue' = (queue \ {i}) \cup {j \in DOMAIN degree : j \notin removed' /\ Listing(j, i) # {}}
  /\ UNCHANGED verdict

\* One id is taken off the queue; each channel behind it is counted down by one.
Visit(i) ==
  /\ verdict = "running" /\ i \in queue
  /\ removed' = removed \cup {i}
  /\ degree' = [j \in DOMAIN degree |->
       IF j \in removed' THEN degree[j] ELSE degree[j] - Cardinality(Listing(j, i))]
  /\ queue' = (queue \ {i}) \cup {j \in DOMAIN degree : degree[j] > 0 /\ degree'[j] <= 0}
  /\ UNCHANGED verdict

\* Whatever was not visited is reported as cyclic.
EndValidation ==
  /\ verdict = "running" /\ queue = {}
  /\ verdict' = IF Cardinality(removed) < NumChannels THEN "rejected" ELSE "accepted"
  /\ UNCHANGED <<degree, queue, removed>>

ValidatorNext == StartValidation \/ (\E i \in Ids : Visit(i)) \/ EndValidation
=============================================================================
