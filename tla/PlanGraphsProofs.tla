--------------------------- MODULE PlanGraphsProofs ---------------------------
(***************************************************************************)
(* Theorems about the planner and the gate in front of it, for every       *)
(* dependency graph a pipeline can declare.                                *)
(***************************************************************************)
EXTENDS PlanGraphs, FunctionTheorems, FiniteSetTheorems, SequenceTheorems, WellFoundedInduction,
        TLAPS

-----------------------------------------------------------------------------
(***************************************************************************)
(* The invariants.                                                         *)
(***************************************************************************)

\* Every nonempty set of these ids has a channel that depends on none of the set:
\* what acyclic means without naming an order.
Founded(S) == \A T \in SUBSET S : T # {} =>
                \E p \in Positions : graph.id[p] \in T /\ Deps(p) \cap T = {}

\* The contrary: a set of ids whose channels all wait for one another.
Stuck == \E T \in SUBSET DeclaredIds :
           T # {} /\ \A p \in Positions : graph.id[p] \in T => Deps(p) \cap T # {}

\* The channels a channel depends on have all gone before.
Closed(S) == \A p \in Positions : graph.id[p] \in S => Deps(p) \subseteq S

PlanTypes ==
  /\ graph \in Graphs
  /\ planned \in {"no", "running", "yes", "threw"}
  /\ levels \in Seq(SUBSET Positions)
  /\ planned = "no" => levels = <<>> /\ remaining = {}
  /\ planned \in {"running", "yes"} => remaining \subseteq DeclaredIds /\ ~HasUnknown
  /\ planned = "yes" => remaining = {}
  /\ planned = "running" => DOMAIN indegree = DeclaredIds

\* What is counted: the entries of a channel that remaining ones have yet to resolve.
Counted ==
  planned = "running" =>
    \A p \in Positions : graph.id[p] \in remaining =>
      indegree[graph.id[p]] = Cardinality(Mentions(p, remaining))

\* Where the channels are: on some level unless their id remains.
Located ==
  planned \in {"running", "yes"} =>
    \A p \in Positions : graph.id[p] \notin remaining <=> \E l \in DOMAIN levels : p \in levels[l]

\* What is placed depends on nothing else, and is placed as early as it can be:
\* a level has only channels that wait for one of the level before.
Settled == DeclaredIds \ remaining

Earliest ==
  planned \in {"running", "yes"} =>
    /\ Founded(Settled) /\ Closed(Settled)
    /\ \A l \in DOMAIN levels : l > 1 => \A p \in levels[l] : \E q \in levels[l - 1] : Before(q, p)
    /\ levels # <<>> =>
         \A p \in Positions : graph.id[p] \in remaining /\ Mentions(p, remaining) = {} =>
           \E q \in levels[Len(levels)] : Before(q, p)
    /\ Len(levels) <= Cardinality({p \in Positions : graph.id[p] \notin remaining})

\* The planner gives up only on what nobody could order.
Refused == planned = "threw" => HasUnknown \/ Stuck

PlanInv ==
  PlanTypes /\ (UniqueIds => Counted /\ Located /\ PlacedOnce /\ DependenciesFirst /\ Earliest /\ Refused)

\* The gate: what is visited, what waits for a visit, and how far the rest is.
GateTypes ==
  /\ graph \in Graphs
  /\ verdict \in {"none", "running", "accepted", "rejected"}
  /\ removed \subseteq DeclaredIds /\ queue \subseteq DeclaredIds
  /\ verdict = "none" => removed = {} /\ queue = {}
  /\ verdict \in {"running", "accepted"} => ~HasUnknown
  /\ verdict = "running" => DOMAIN degree = DeclaredIds
  /\ verdict = "accepted" => Cardinality(removed) >= NumChannels

Visited ==
  /\ queue \cap removed = {}
  /\ Founded(removed) /\ Closed(removed)
  /\ verdict = "running" => degree \in [DeclaredIds -> Int]
  /\ verdict = "running" =>
       \A p \in Positions :
         /\ graph.id[p] \notin removed =>
              degree[graph.id[p]] = Len(graph.dependsOn[p]) - Cardinality(Deps(p) \cap removed)
         /\ graph.id[p] \in queue => degree[graph.id[p]] <= 0
         /\ graph.id[p] \notin queue \cup removed => degree[graph.id[p]] > 0

Rejected == verdict = "rejected" => HasUnknown \/ (NoRepeats => Stuck)

GateInv == GateTypes /\ (UniqueIds => Visited /\ Rejected)

\* The gate is through before the planner begins.
InTurn == planned # "no" => Checked

-----------------------------------------------------------------------------
(***************************************************************************)
(* The graph and the operators both walks are made of.                     *)
(***************************************************************************)

\* A list of channels, each with a finite list of ids.
LEMMA GraphTypes ==
  ASSUME graph \in Graphs
  PROVE  /\ NumChannels \in Nat /\ graph \in GraphType
         /\ \A p \in Positions : /\ graph.dependsOn[p] \in Seq(Ids)
                               /\ Len(graph.dependsOn[p]) \in Nat
                               /\ DOMAIN graph.dependsOn[p] = 1..Len(graph.dependsOn[p])
BY GraphsAssumption DEF GraphType

\* Positions, ids and dependencies are finitely many, the ids at most as many as
\* the channels, and as many exactly when no two channels share one.
LEMMA IdsCounted ==
  ASSUME graph \in Graphs
  PROVE  /\ IsFiniteSet(Positions) /\ Cardinality(Positions) = NumChannels
         /\ IsFiniteSet(DeclaredIds) /\ Cardinality(DeclaredIds) <= NumChannels
         /\ Cardinality(DeclaredIds) = NumChannels <=> UniqueIds
<1>1. IsFiniteSet(Positions) /\ Cardinality(Positions) = NumChannels
  <2>1. NumChannels \in Nat /\ 1 \in Int
    BY GraphsAssumption
  <2>2. Cardinality(1..NumChannels) = IF 1 > NumChannels THEN 0 ELSE NumChannels - 1 + 1
    BY <2>1, FS_Interval
  <2>3. IsFiniteSet(1..NumChannels)
    BY <2>1, FS_Interval
  <2> QED BY <2>1, <2>2, <2>3 DEF Positions
<1> DEFINE name == [p \in Positions |-> graph.id[p]]
<1>2. name \in Surjection(Positions, DeclaredIds)
  BY DEF Surjection, DeclaredIds
<1>3. /\ IsFiniteSet(DeclaredIds) /\ Cardinality(DeclaredIds) <= Cardinality(Positions)
      /\ Cardinality(DeclaredIds) = Cardinality(Positions) <=> name \in Injection(Positions, DeclaredIds)
  BY <1>1, <1>2, FS_Surjection
<1>4. name \in Injection(Positions, DeclaredIds) <=> UniqueIds
  BY <1>2 DEF Injection, IsInjective, Surjection, UniqueIds
<1> QED BY <1>1, <1>3, <1>4

\* The ids a list names are finitely many, at most its length.
LEMMA DepsCounted ==
  ASSUME graph \in Graphs, NEW p \in Positions
  PROVE  IsFiniteSet(Deps(p)) /\ Cardinality(Deps(p)) \in Nat
         /\ Cardinality(Deps(p)) <= Len(graph.dependsOn[p])
<1> DEFINE list == graph.dependsOn[p]
           n == Len(list)
<1>1. n \in Nat /\ DOMAIN list = 1..n
  BY GraphTypes
<1> HIDE DEF n
<1>2. IsFiniteSet(1..n) /\ Cardinality(1..n) = n
  <2>1. IsFiniteSet(1..n) /\ Cardinality(1..n) = IF 1 > n THEN 0 ELSE n - 1 + 1
    BY <1>1, FS_Interval
  <2> QED BY <1>1, <2>1
<1> DEFINE entry == [k \in 1..n |-> list[k]]
<1>3. entry \in Surjection(1..n, Deps(p))
  BY <1>1 DEF Surjection, Deps
<1>4. IsFiniteSet(Deps(p)) /\ Cardinality(Deps(p)) <= Cardinality(1..n)
  BY <1>2, <1>3, FS_Surjection
<1> QED BY <1>2, <1>4, FS_CardinalityType DEF n

\* The entries of a list that name an id of a set, and how they add up.
LEMMA MentionsCounted ==
  ASSUME graph \in Graphs, NEW p \in Positions, NEW S
  PROVE  /\ IsFiniteSet(Mentions(p, S)) /\ Cardinality(Mentions(p, S)) \in Nat
         /\ Cardinality(Mentions(p, S)) = 0 <=> Deps(p) \cap S = {}
         /\ Deps(p) \subseteq S => Cardinality(Mentions(p, S)) = Len(graph.dependsOn[p])
<1> DEFINE n == Len(graph.dependsOn[p])
           M == Mentions(p, S)
<1>1. n \in Nat /\ DOMAIN graph.dependsOn[p] = 1..n
  BY GraphTypes
<1>2. M \subseteq 1..n /\ (Deps(p) \subseteq S => M = 1..n)
  BY <1>1 DEF Mentions, Deps
<1>3. M = {} <=> Deps(p) \cap S = {}
  BY DEF Mentions, Deps
<1> HIDE DEF n, M
<1>4. IsFiniteSet(1..n) /\ Cardinality(1..n) = n
  <2>1. IsFiniteSet(1..n) /\ Cardinality(1..n) = IF 1 > n THEN 0 ELSE n - 1 + 1
    BY <1>1, FS_Interval
  <2> QED BY <1>1, <2>1
<1>5. IsFiniteSet(M)
  BY <1>2, <1>4, FS_Subset
<1>6. Cardinality(M) \in Nat /\ (Cardinality(M) = 0 <=> M = {})
  BY <1>5, FS_CardinalityType, FS_EmptySet
<1> QED BY <1>2, <1>3, <1>4, <1>5, <1>6 DEF M, n

\* What a list names in a set is what it names in either part of it.
LEMMA MentionsSplit ==
  ASSUME graph \in Graphs, NEW p \in Positions, NEW S, NEW T \in SUBSET S
  PROVE  Cardinality(Mentions(p, S)) = Cardinality(Mentions(p, S \ T)) + Cardinality(Mentions(p, T))
<1> DEFINE A == Mentions(p, S \ T)
           B == Mentions(p, T)
           C == Mentions(p, S)
<1>1. C = A \cup B /\ A \cap B = {}
  BY DEF Mentions
<1>2. IsFiniteSet(A) /\ IsFiniteSet(B) /\ Cardinality(A) \in Nat /\ Cardinality(B) \in Nat
  BY MentionsCounted
<1> HIDE DEF A, B, C
<1>3. Cardinality(A \cup B) = Cardinality(A) + Cardinality(B) - Cardinality(A \cap B)
  BY <1>2, FS_Union
<1>4. Cardinality(A \cap B) = 0 /\ Cardinality(C) = Cardinality(A \cup B)
  BY <1>1, FS_EmptySet, Zenon
<1>5. Cardinality(C) = Cardinality(A) + Cardinality(B)
  BY <1>2, <1>3, <1>4
<1> QED BY <1>5 DEF A, B, C

\* With unique ids the map both walks start from holds each channel's own list.
LEMMA OwnList ==
  ASSUME graph \in Graphs, UniqueIds
  PROVE  /\ \A p \in Positions : InDegrees[graph.id[p]] = Len(graph.dependsOn[p])
         /\ InDegrees \in [DeclaredIds -> Nat]
<1>1. \A p \in Positions : LastWith(graph.id[p]) = p
  <2> SUFFICES ASSUME NEW p \in Positions PROVE LastWith(graph.id[p]) = p
    OBVIOUS
  <2>1. graph.id[p] = graph.id[p] /\ \A q \in Positions : graph.id[q] = graph.id[p] => q <= p
    BY GraphTypes DEF UniqueIds, Positions
  <2>2. \A q \in Positions : graph.id[q] = graph.id[p] => q = p
    BY DEF UniqueIds
  <2> QED BY <2>1, <2>2 DEF LastWith
<1>2. \A p \in Positions : graph.id[p] \in DeclaredIds
  BY DEF DeclaredIds
<1>3. \A p \in Positions : InDegrees[graph.id[p]] = Len(graph.dependsOn[p])
  BY <1>1, <1>2 DEF InDegrees
<1>4. \A i \in DeclaredIds : \E p \in Positions : i = graph.id[p]
  BY DEF DeclaredIds
<1>5. InDegrees \in [DeclaredIds -> Nat]
  <2>1. \A i \in DeclaredIds : InDegrees[i] \in Nat
    BY <1>3, <1>4, GraphTypes
  <2> QED BY <2>1 DEF InDegrees
<1> QED BY <1>3, <1>5

\* A founded set stays founded when ids join it whose channels depend on it only.
LEMMA FoundedGrows ==
  ASSUME NEW S, NEW N \in SUBSET DeclaredIds, Founded(S), Closed(S),
         \A p \in Positions : graph.id[p] \in N => Deps(p) \subseteq S
  PROVE  Founded(S \cup N) /\ Closed(S \cup N)
<1>1. ASSUME NEW T \in SUBSET (S \cup N), T # {}
      PROVE  \E p \in Positions : graph.id[p] \in T /\ Deps(p) \cap T = {}
  <2>1. CASE T \cap S # {}
    <3>1. PICK p \in Positions : graph.id[p] \in T \cap S /\ Deps(p) \cap (T \cap S) = {}
      BY <2>1 DEF Founded
    <3>2. Deps(p) \subseteq S
      BY <3>1 DEF Closed
    <3> QED BY <3>1, <3>2
  <2>2. CASE T \cap S = {}
    <3>1. PICK i \in T : i \in N
      BY <1>1, <2>2
    <3>2. PICK p \in Positions : graph.id[p] = i
      BY <3>1 DEF DeclaredIds
    <3>3. Deps(p) \subseteq S
      BY <3>1, <3>2
    <3> QED BY <2>2, <3>1, <3>2, <3>3
  <2> QED BY <2>1, <2>2
<1> QED BY <1>1 DEF Founded, Closed

\* Nobody is stuck where everything is founded.
LEMMA FoundedIsNotStuck ==
  ASSUME Founded(DeclaredIds)
  PROVE  ~Stuck
BY DEF Founded, Stuck

\* Nothing has a rank in a graph with channels that wait for one another: the one
\* with the lowest rank would depend on one lower still.
LEMMA StuckHasNoRanks ==
  ASSUME graph \in Graphs, Stuck
  PROVE  Ranks = {}
<1> SUFFICES ASSUME NEW r \in Ranks PROVE FALSE
  OBVIOUS
<1>1. PICK T \in SUBSET DeclaredIds :
        T # {} /\ \A p \in Positions : graph.id[p] \in T => Deps(p) \cap T # {}
  BY DEF Stuck
<1> DEFINE U == {p \in Positions : graph.id[p] \in T}
<1>2. U # {}
  BY <1>1 DEF DeclaredIds
<1>3. \A p \in U : \E q \in U : Before(q, p)
  BY <1>1 DEF DeclaredIds, Before
<1>4. \A p, q \in U : Before(q, p) => r[q] < r[p]
  BY DEF Ranks
<1>5. \A p \in U : r[p] \in Nat
  BY GraphTypes DEF Ranks, Positions
<1> HIDE DEF U
<1> DEFINE heights == {r[p] : p \in U}
<1>6. heights \subseteq Nat /\ heights # {}
  BY <1>2, <1>5
<1> HIDE DEF heights
<1>7. \E x \in heights : \A y \in heights : ~(<<y, x>> \in OpToRel(<, Nat))
  BY <1>6, WFMin, NatLessThanWellFounded, Zenon
<1>8. \E x \in heights : \A y \in heights : ~(y < x)
  BY <1>6, <1>7, Zenon DEF OpToRel
<1>9. PICK p \in U : \A q \in U : ~(r[q] < r[p])
  BY <1>8 DEF heights
<1> QED BY <1>3, <1>4, <1>9

-----------------------------------------------------------------------------
(***************************************************************************)
(* The planner.                                                            *)
(***************************************************************************)

\* The part of the invariant that speaks of unique ids.
Ordered == Counted /\ Located /\ PlacedOnce /\ DependenciesFirst /\ Earliest /\ Refused

\* Without dependencies everything is on one level.
LEMMA FlatKeeps ==
  ASSUME PlanTypes, PlanFlat, graph' = graph
  PROVE  PlanTypes' /\ Ordered'
<1>1. /\ planned' = "yes" /\ remaining' = {}
      /\ levels' = IF Positions = {} THEN <<>> ELSE <<Positions>>
      /\ \A p \in Positions : graph.dependsOn[p] = <<>>
  BY DEF PlanFlat, PlanTypes, Flat
<1>2. \A p \in Positions : Deps(p) = {} /\ (Deps(p) = {})'
  BY <1>1 DEF Deps
<1>3. ~HasUnknown'
  BY <1>2 DEF HasUnknown
<1>4. PlanTypes'
  <2>1. levels' \in Seq(SUBSET Positions)
    <3>1. <<>> \in Seq(SUBSET Positions)
      BY EmptySeq
    <3>2. Positions \in SUBSET Positions
      OBVIOUS
    <3>3. <<Positions>> \in Seq(SUBSET Positions)
      BY <3>2
    <3> QED BY <1>1, <3>1, <3>3
  <2>2. graph' \in Graphs
    BY DEF PlanTypes
  <2> QED BY <1>1, <1>3, <2>1, <2>2 DEF PlanTypes
<1>5. /\ DOMAIN levels' = IF Positions = {} THEN {} ELSE {1}
      /\ Positions # {} => levels'[1] = Positions /\ Len(levels') = 1
      /\ Positions = {} => Len(levels') = 0
  BY <1>1
<1>6. Counted' /\ Refused'
  BY <1>1 DEF Counted, Refused
<1>7. Located'
  BY <1>1, <1>5 DEF Located
<1>8. PlacedOnce'
  BY <1>5 DEF PlacedOnce
<1>9. DependenciesFirst'
  BY <1>2, <1>5 DEF DependenciesFirst, Before
<1>10. Earliest'
  <2>1. (Founded(Settled) /\ Closed(Settled))'
    BY <1>2 DEF Founded, Closed, Settled, DeclaredIds
  <2>2. Len(levels') <= Cardinality({p \in Positions : graph'.id[p] \notin remaining'})
    <3> DEFINE done == {p \in Positions : graph'.id[p] \notin remaining'}
    <3>1. done = Positions
      BY <1>1
    <3>2. IsFiniteSet(Positions) /\ Cardinality(Positions) = NumChannels /\ NumChannels \in Nat
      BY IdsCounted, GraphTypes DEF PlanTypes
    <3>3. Positions # {} => NumChannels >= 1
      BY <3>2 DEF Positions
    <3> HIDE DEF done
    <3>4. Cardinality(done) = NumChannels
      BY <3>1, <3>2
    <3>5. Len(levels') <= Cardinality(done)
      BY <1>5, <3>2, <3>3, <3>4
    <3> QED BY <3>5 DEF done
  <2>3. (\A l \in DOMAIN levels : l > 1 => \A p \in levels[l] : \E q \in levels[l - 1] : Before(q, p))'
    BY <1>5
  <2> QED BY <1>1, <2>1, <2>2, <2>3 DEF Earliest
<1> QED BY <1>4, <1>6, <1>7, <1>8, <1>9, <1>10 DEF Ordered

\* The dependencies are counted, or one of them is unknown.
LEMMA StartKeeps ==
  ASSUME PlanTypes, StartPlan, graph' = graph
  PROVE  PlanTypes' /\ (UniqueIds => Ordered')
<1>1. levels' = <<>> /\ DOMAIN levels' = {} /\ Len(levels') = 0
  BY DEF StartPlan, PlanTypes
<1>2. CASE HasUnknown
  <2>1. planned' = "threw" /\ HasUnknown'
    BY <1>2 DEF StartPlan, HasUnknown, Deps, DeclaredIds
  <2>2. PlanTypes'
    BY <1>1, <2>1 DEF PlanTypes
  <2>3. Ordered'
    BY <1>1, <2>1 DEF Ordered, Counted, Located, PlacedOnce, DependenciesFirst, Earliest, Refused
  <2> QED BY <2>2, <2>3
<1>3. CASE ~HasUnknown
  <2>1. planned' = "running" /\ indegree' = InDegrees /\ remaining' = DeclaredIds
    BY <1>3 DEF StartPlan
  <2>2. ~HasUnknown' /\ DeclaredIds' = DeclaredIds /\ \A p \in Positions : graph.id[p] \in DeclaredIds
    BY <1>3 DEF HasUnknown, Deps, DeclaredIds
  <2>3. PlanTypes'
    BY <1>1, <2>1, <2>2 DEF PlanTypes, InDegrees
  <2>4. ASSUME UniqueIds PROVE Ordered'
    <3>1. Counted'
      <4> SUFFICES ASSUME NEW p \in Positions
                   PROVE  InDegrees[graph.id[p]] = Cardinality(Mentions(p, DeclaredIds))
        BY <2>1 DEF Counted, Mentions
      <4>1. Deps(p) \subseteq DeclaredIds
        BY <1>3 DEF HasUnknown
      <4>2. graph \in Graphs
        BY DEF PlanTypes
      <4> QED BY <2>4, <4>1, <4>2, MentionsCounted, OwnList
    <3>2. Located' /\ PlacedOnce' /\ DependenciesFirst' /\ Refused'
      BY <1>1, <2>1, <2>2 DEF Located, PlacedOnce, DependenciesFirst, Refused
    <3>3. Settled' = {}
      BY <2>1, <2>2 DEF Settled
    <3>4. (Founded(Settled) /\ Closed(Settled))'
      BY <3>3 DEF Founded, Closed
    <3>5. Len(levels') <= Cardinality({p \in Positions : graph'.id[p] \notin remaining'})
      <4>1. {p \in Positions : graph'.id[p] \notin remaining'} = {}
        BY <2>1, <2>2
      <4> QED BY <1>1, <4>1, FS_EmptySet
    <3>6. Earliest'
      BY <1>1, <3>4, <3>5 DEF Earliest
    <3> QED BY <3>1, <3>2, <3>6 DEF Ordered
  <2> QED BY <2>3, <2>4
<1> QED BY <1>2, <1>3

\* With unique ids a round counts a channel down by the entries of its own list.
LEMMA OwnCount ==
  ASSUME graph \in Graphs, UniqueIds, NEW p \in Positions, NEW S
  PROVE  CountedDown(graph.id[p], S) = Cardinality(Mentions(p, S))
<1> DEFINE M == Mentions(p, S)
           mine == {p} \X M
<1>1. {q \in Positions : graph.id[q] = graph.id[p]} = {p}
  BY DEF UniqueIds
<1>2. UNION {{q} \X Mentions(q, S) : q \in {q \in Positions : graph.id[q] = graph.id[p]}} = mine
  BY <1>1
<1>3. IsFiniteSet(M)
  BY MentionsCounted
<1> HIDE DEF M
<1> DEFINE pair == [k \in M |-> <<p, k>>]
<1>4. pair \in Bijection(M, mine)
  <2>1. pair \in [M -> mine]
    OBVIOUS
  <2>2. \A k, m \in M : pair[k] = pair[m] => k = m
    OBVIOUS
  <2>3. \A x \in mine : \E k \in M : pair[k] = x
    OBVIOUS
  <2> QED BY <2>1, <2>2, <2>3 DEF Bijection, Injection, IsInjective, Surjection
<1>5. Cardinality(mine) = Cardinality(M)
  <2>1. ExistsBijection(M, mine)
    BY <1>4 DEF ExistsBijection
  <2> QED BY <1>3, <2>1, FS_Bijection
<1> HIDE DEF mine
<1> QED BY <1>2, <1>5 DEF M, CountedDown

\* A round appends one level and takes its ids from what remains.
LEMMA RoundTypes ==
  ASSUME PlanTypes, Round, graph' = graph
  PROVE  /\ PlanTypes' /\ planned = "running" /\ planned' = "running" /\ ~HasUnknown
         /\ DeclaredIds' = DeclaredIds
         /\ Ready # {} /\ Ready \subseteq Positions
         /\ IdsOf(Ready) \subseteq remaining /\ remaining \subseteq DeclaredIds
         /\ remaining' = remaining \ IdsOf(Ready)
         /\ Len(levels) \in Nat /\ Len(levels') = Len(levels) + 1
         /\ DOMAIN levels = 1..Len(levels) /\ DOMAIN levels' = 1..(Len(levels) + 1)
         /\ levels'[Len(levels) + 1] = Ready
         /\ \A l \in 1..Len(levels) : levels'[l] = levels[l]
<1>1. /\ planned = "running" /\ planned' = "running" /\ Ready # {}
      /\ levels' = Append(levels, Ready) /\ remaining' = remaining \ IdsOf(Ready)
      /\ DOMAIN indegree' = DOMAIN indegree
  BY DEF Round
<1>2. Ready \subseteq Positions /\ IdsOf(Ready) \subseteq remaining
  BY DEF Ready, IdsOf
<1>3. ~HasUnknown /\ ~HasUnknown' /\ DeclaredIds' = DeclaredIds /\ remaining \subseteq DeclaredIds
  BY <1>1 DEF PlanTypes, HasUnknown, Deps, DeclaredIds
<1>4. levels \in Seq(SUBSET Positions) /\ Ready \in SUBSET Positions
  BY <1>2 DEF PlanTypes
<1> HIDE DEF Ready
<1>5. /\ levels' \in Seq(SUBSET Positions)
      /\ Len(levels) \in Nat /\ Len(levels') = Len(levels) + 1
      /\ DOMAIN levels = 1..Len(levels) /\ DOMAIN levels' = 1..(Len(levels) + 1)
      /\ levels'[Len(levels) + 1] = Ready
      /\ \A l \in 1..Len(levels) : levels'[l] = levels[l]
  BY <1>1, <1>4
<1>6. PlanTypes'
  BY <1>1, <1>3, <1>5 DEF PlanTypes
<1> QED BY <1>1, <1>2, <1>3, <1>5, <1>6

\* Whoever is ready depends on settled ids only, and nobody shares its id.
LEMMA ReadyIsFree ==
  ASSUME PlanTypes, UniqueIds, Counted, planned = "running", ~HasUnknown
  PROVE  /\ \A p \in Ready : graph.id[p] \in remaining /\ Mentions(p, remaining) = {}
         /\ \A p \in Ready : Deps(p) \subseteq Settled
         /\ \A p \in Positions : graph.id[p] \in IdsOf(Ready) <=> p \in Ready
         /\ \A p \in Positions : graph.id[p] \in remaining /\ p \notin Ready =>
              \E i \in Deps(p) : i \in remaining
<1>1. graph \in Graphs
  BY DEF PlanTypes
<1>2. \A p \in Positions : graph.id[p] \in remaining =>
        (p \in Ready <=> Deps(p) \cap remaining = {})
  BY <1>1, MentionsCounted DEF Counted, Ready
<1>3. \A p \in Ready : p \in Positions /\ graph.id[p] \in remaining
  BY DEF Ready
<1>4. \A p \in Positions : graph.id[p] \in IdsOf(Ready) <=> p \in Ready
  BY <1>3 DEF IdsOf, UniqueIds
<1>5. \A p \in Positions : Deps(p) \subseteq DeclaredIds
  BY DEF HasUnknown
<1>6. \A p \in Positions : Deps(p) \cap remaining = {} => Mentions(p, remaining) = {}
  BY DEF Deps, Mentions
<1> QED BY <1>2, <1>3, <1>4, <1>5, <1>6 DEF Settled

\* One round of the planner.
LEMMA RoundKeeps ==
  ASSUME PlanTypes, Round, graph' = graph, UniqueIds, Ordered
  PROVE  Ordered'
<1> DEFINE n == Len(levels)
<1>1. /\ planned = "running" /\ planned' = "running" /\ DeclaredIds' = DeclaredIds
      /\ Ready # {} /\ Ready \subseteq Positions
      /\ IdsOf(Ready) \subseteq remaining /\ remaining \subseteq DeclaredIds
      /\ remaining' = remaining \ IdsOf(Ready)
      /\ n \in Nat /\ Len(levels') = n + 1
      /\ DOMAIN levels = 1..n /\ DOMAIN levels' = 1..(n + 1)
      /\ levels'[n + 1] = Ready /\ \A l \in 1..n : levels'[l] = levels[l]
  BY RoundTypes
<1>2. ~HasUnknown /\ Counted
  BY RoundTypes DEF Ordered
<1>a. \A p \in Ready : graph.id[p] \in remaining /\ Mentions(p, remaining) = {}
  BY <1>1, <1>2, ReadyIsFree
<1>b. \A p \in Ready : Deps(p) \subseteq Settled
  BY <1>1, <1>2, ReadyIsFree
<1>c. \A p \in Positions : graph.id[p] \in IdsOf(Ready) <=> p \in Ready
  BY <1>1, <1>2, ReadyIsFree
<1>d. \A p \in Positions : graph.id[p] \in remaining /\ p \notin Ready =>
        \E i \in Deps(p) : i \in remaining
  BY <1>1, <1>2, ReadyIsFree
<1>3. \A p \in Positions : graph.id[p] \in DeclaredIds
  BY DEF DeclaredIds
<1>g. graph \in Graphs
  BY DEF PlanTypes
<1>4. Counted'
  <2> SUFFICES ASSUME NEW p \in Positions, graph.id[p] \in remaining'
               PROVE  indegree'[graph.id[p]] = Cardinality(Mentions(p, remaining'))
    BY DEF Counted, Mentions
  <2>1. indegree[graph.id[p]] = Cardinality(Mentions(p, remaining))
    BY <1>1 DEF Ordered, Counted
  <2>2. indegree'[graph.id[p]] = indegree[graph.id[p]] - CountedDown(graph.id[p], IdsOf(Ready))
    <3>1. DOMAIN indegree = DeclaredIds
      BY <1>1 DEF PlanTypes
    <3> QED BY <1>3, <3>1 DEF Round
  <2>3. CountedDown(graph.id[p], IdsOf(Ready)) = Cardinality(Mentions(p, IdsOf(Ready)))
    BY <1>g, OwnCount
  <2>4. Cardinality(Mentions(p, remaining)) =
          Cardinality(Mentions(p, remaining \ IdsOf(Ready))) + Cardinality(Mentions(p, IdsOf(Ready)))
    BY <1>1, <1>g, MentionsSplit
  <2>5. /\ Cardinality(Mentions(p, remaining \ IdsOf(Ready))) \in Nat
        /\ Cardinality(Mentions(p, IdsOf(Ready))) \in Nat
    BY <1>g, MentionsCounted
  <2>6. Cardinality(Mentions(p, remaining')) = Cardinality(Mentions(p, remaining \ IdsOf(Ready)))
    BY <1>1
  <2> QED BY <2>1, <2>2, <2>3, <2>4, <2>5, <2>6
<1>5. Located'
  <2> SUFFICES ASSUME NEW p \in Positions
               PROVE  graph.id[p] \notin remaining' <=> \E l \in DOMAIN levels' : p \in levels'[l]
    BY DEF Located
  <2>1. graph.id[p] \notin remaining <=> \E l \in 1..n : p \in levels[l]
    BY <1>1 DEF Ordered, Located
  <2>2. (\E l \in DOMAIN levels' : p \in levels'[l]) <=> (\E l \in 1..n : p \in levels[l]) \/ p \in Ready
    BY <1>1
  <2> QED BY <1>1, <1>c, <2>1, <2>2
<1>6. \A p \in Ready : \A l \in 1..n : p \notin levels[l]
  BY <1>1, <1>a DEF Ordered, Located
<1>7. PlacedOnce'
  <2>1. \A l, m \in 1..n : l # m => levels[l] \cap levels[m] = {}
    BY <1>1 DEF Ordered, PlacedOnce
  <2> QED BY <1>1, <1>6, <2>1 DEF PlacedOnce
<1>8. DependenciesFirst'
  <2> SUFFICES ASSUME NEW l \in 1..(n + 1), NEW p \in levels'[l], NEW q \in Positions, Before(q, p)
               PROVE  \E m \in 1..(l - 1) : q \in levels'[m]
    BY <1>1 DEF DependenciesFirst, Before, Deps
  <2>1. CASE l \in 1..n
    <3>1. \E m \in 1..(l - 1) : q \in levels[m]
      BY <1>1, <2>1 DEF Ordered, DependenciesFirst
    <3> QED BY <1>1, <2>1, <3>1
  <2>2. CASE l = n + 1
    <3>1. p \in Ready
      BY <1>1, <2>2
    <3>2. graph.id[q] \notin remaining
      BY <1>b, <3>1 DEF Before, Settled
    <3>3. \E m \in 1..n : q \in levels[m]
      BY <1>1, <3>2 DEF Ordered, Located
    <3> QED BY <1>1, <2>2, <3>3
  <2> QED BY <1>1, <2>1, <2>2
<1>9. Earliest'
  <2>1. (Founded(Settled) /\ Closed(Settled))'
    <3>1. Settled' = Settled \cup IdsOf(Ready)
      BY <1>1 DEF Settled
    <3>2. Founded(Settled) /\ Closed(Settled)
      BY <1>1 DEF Ordered, Earliest
    <3>3. IdsOf(Ready) \in SUBSET DeclaredIds
      BY <1>1
    <3>4. \A p \in Positions : graph.id[p] \in IdsOf(Ready) => Deps(p) \subseteq Settled
      BY <1>1, <1>b, <1>c
    <3>5. Founded(Settled \cup IdsOf(Ready)) /\ Closed(Settled \cup IdsOf(Ready))
      BY <3>2, <3>3, <3>4, FoundedGrows
    <3> QED BY <3>1, <3>5 DEF Founded, Closed, Deps
  <2>2. ASSUME NEW l \in 1..(n + 1), l > 1, NEW p \in levels'[l]
        PROVE  \E q \in levels'[l - 1] : Before(q, p)
    <3>1. CASE l \in 1..n
      <4>1. \E q \in levels[l - 1] : Before(q, p)
        BY <1>1, <2>2, <3>1 DEF Ordered, Earliest
      <4> QED BY <1>1, <2>2, <3>1, <4>1
    <3>2. CASE l = n + 1
      <4>1. p \in Ready /\ levels # <<>>
        BY <1>1, <2>2, <3>2
      <4>2. \E q \in levels[n] : Before(q, p)
        BY <1>1, <1>a, <4>1 DEF Ordered, Earliest
      <4> QED BY <1>1, <2>2, <3>2, <4>2
    <3> QED BY <1>1, <3>1, <3>2
  <2>3. ASSUME NEW p \in Positions, graph.id[p] \in remaining', Mentions(p, remaining') = {}
        PROVE  \E q \in Ready : Before(q, p)
    <3>1. graph.id[p] \in remaining /\ p \notin Ready
      BY <1>1, <1>c, <2>3
    <3>2. PICK i \in Deps(p) : i \in remaining
      BY <1>d, <3>1
    <3>3. i \notin remaining'
      BY <2>3 DEF Deps, Mentions
    <3>4. i \in IdsOf(Ready)
      BY <1>1, <3>2, <3>3
    <3> QED BY <3>2, <3>4 DEF IdsOf, Before
  <2>4. Len(levels') <= Cardinality({p \in Positions : graph'.id[p] \notin remaining'})
    <3> DEFINE was == {p \in Positions : graph.id[p] \notin remaining}
               is == {p \in Positions : graph'.id[p] \notin remaining'}
    <3>1. n <= Cardinality(was)
      BY <1>1 DEF Ordered, Earliest
    <3>2. was \subseteq is /\ was # is /\ is \subseteq Positions
      <4>1. was \subseteq is /\ is \subseteq Positions
        BY <1>1
      <4>2. PICK p \in Ready : p \in Positions
        BY <1>1
      <4>3. p \in is /\ p \notin was
        BY <1>1, <1>a, <1>c, <4>2
      <4> QED BY <4>1, <4>3
    <3> HIDE DEF was, is
    <3>3. IsFiniteSet(is) /\ IsFiniteSet(was)
      BY <1>g, <3>2, IdsCounted, FS_Subset
    <3>4. Cardinality(was) <= Cardinality(is) /\ Cardinality(was) # Cardinality(is)
      BY <3>2, <3>3, FS_Subset
    <3>5. Cardinality(was) \in Nat /\ Cardinality(is) \in Nat
      BY <3>3, FS_CardinalityType
    <3>6. n + 1 <= Cardinality(is)
      BY <1>1, <3>1, <3>4, <3>5
    <3> QED BY <1>1, <3>6 DEF is
  <2>5. (\A l \in DOMAIN levels : l > 1 => \A p \in levels[l] : \E q \in levels[l - 1] : Before(q, p))'
    BY <1>1, <2>2 DEF Before, Deps
  <2>6. (\A p \in Positions : graph.id[p] \in remaining /\ Mentions(p, remaining) = {} =>
           \E q \in levels[Len(levels)] : Before(q, p))'
    BY <1>1, <2>3 DEF Before, Deps, Mentions
  <2> QED BY <2>1, <2>4, <2>5, <2>6 DEF Earliest
<1>10. Refused'
  BY <1>1 DEF Refused
<1> QED BY <1>4, <1>5, <1>7, <1>8, <1>9, <1>10 DEF Ordered

\* The planner is through, or gives up.
LEMMA EndKeeps ==
  ASSUME PlanTypes, EndPlan, graph' = graph
  PROVE  PlanTypes' /\ (UniqueIds /\ Ordered => Ordered')
<1>1. /\ planned = "running" /\ (remaining = {} \/ Ready = {})
      /\ planned' = IF remaining = {} THEN "yes" ELSE "threw"
      /\ UNCHANGED <<indegree, remaining, levels>>
  BY DEF EndPlan
<1>2. ~HasUnknown /\ ~HasUnknown' /\ DeclaredIds' = DeclaredIds
  BY <1>1 DEF PlanTypes, HasUnknown, Deps, DeclaredIds
<1>3. PlanTypes'
  BY <1>1, <1>2 DEF PlanTypes
<1>4. ASSUME UniqueIds, Ordered PROVE Ordered'
  <2>1. PlacedOnce' /\ DependenciesFirst'
    BY <1>1, <1>4 DEF Ordered, PlacedOnce, DependenciesFirst, Before, Deps
  <2>2. Located' /\ Counted'
    BY <1>1, <1>4 DEF Ordered, Located, Counted
  <2>3. Earliest'
    <3>1. Earliest
      BY <1>4 DEF Ordered
    <3>2. (Founded(Settled) /\ Closed(Settled))'
      <4>1. Settled' = Settled /\ Founded(Settled) /\ Closed(Settled)
        BY <1>1, <1>2, <3>1 DEF Earliest, Settled
      <4>2. \A p : Deps(p)' = Deps(p)
        BY DEF Deps
      <4>3. Founded(Settled)'
        BY <4>1, <4>2 DEF Founded
      <4>4. Closed(Settled)'
        BY <4>1, <4>2 DEF Closed
      <4> QED BY <4>3, <4>4
    <3>3. \A p, q : Before(q, p)' <=> Before(q, p)
      BY DEF Before, Deps
    <3>4. \A p : Mentions(p, remaining)' = Mentions(p, remaining)
      BY <1>1 DEF Mentions
    <3> QED BY <1>1, <3>1, <3>2, <3>3, <3>4 DEF Earliest
  <2>4. Refused'
    <3> SUFFICES ASSUME planned' = "threw" PROVE Stuck'
      BY DEF Refused
    <3>1. remaining # {} /\ Ready = {} /\ remaining \subseteq DeclaredIds
      BY <1>1 DEF PlanTypes
    <3>2. \A p \in Positions : graph.id[p] \in remaining /\ p \notin Ready =>
            \E i \in Deps(p) : i \in remaining
      BY <1>1, <1>2, <1>4, ReadyIsFree DEF Ordered
    <3>3. \A p \in Positions : graph.id[p] \in remaining => Deps(p) \cap remaining # {}
      BY <3>1, <3>2
    <3>4. \A p : Deps(p)' = Deps(p)
      BY DEF Deps
    <3> QED BY <1>2, <3>1, <3>3, <3>4 DEF Stuck
  <2> QED BY <2>1, <2>2, <2>3, <2>4 DEF Ordered
<1> QED BY <1>3, <1>4

\* What the planner does not touch, it does not disturb.
LEMMA PlanRests ==
  ASSUME PlanInv, UNCHANGED <<graph, planVars>>
  PROVE  PlanInv'
<1>1. UNCHANGED <<graph, planned, indegree, remaining, levels>>
  BY DEF planVars
<1>2. PlanTypes'
  BY <1>1 DEF PlanInv, PlanTypes, HasUnknown, Deps, DeclaredIds
<1>3. ASSUME UniqueIds' PROVE Ordered'
  <2>1. UniqueIds
    BY <1>1, <1>3 DEF UniqueIds
  <2>2. /\ \A p : Deps(p)' = Deps(p) /\ \A q : Before(q, p)' <=> Before(q, p)
        /\ \A p : Mentions(p, remaining)' = Mentions(p, remaining)
        /\ DeclaredIds' = DeclaredIds /\ Settled' = Settled /\ (HasUnknown' <=> HasUnknown)
    BY <1>1 DEF Deps, Before, Mentions, DeclaredIds, Settled, HasUnknown
  <2>3. Counted /\ Located /\ PlacedOnce /\ DependenciesFirst /\ Earliest /\ Refused
    BY <2>1 DEF PlanInv
  <2>4. Counted'
    BY <1>1, <2>2, <2>3 DEF Counted
  <2>5. Located' /\ PlacedOnce'
    BY <1>1, <2>3 DEF Located, PlacedOnce
  <2>6. DependenciesFirst'
    BY <1>1, <2>2, <2>3 DEF DependenciesFirst
  <2>7. Earliest'
    <3>1. Founded(Settled) => Founded(Settled)'
      BY <1>1, <2>2 DEF Founded
    <3>2. Closed(Settled) => Closed(Settled)'
      BY <1>1, <2>2 DEF Closed
    <3> QED BY <1>1, <2>2, <2>3, <3>1, <3>2 DEF Earliest
  <2>8. Refused'
    BY <1>1, <2>2, <2>3 DEF Refused, Stuck
  <2> QED BY <2>4, <2>5, <2>6, <2>7, <2>8 DEF Ordered
<1> QED BY <1>2, <1>3 DEF PlanInv, Ordered

\* What each step of the planner keeps.
LEMMA PlanSteps ==
  ASSUME PlanInv, PlanNext, graph' = graph
  PROVE  PlanInv'
<1>1. PlanTypes /\ (UniqueIds => Ordered)
  BY DEF PlanInv, Ordered
<1>2. UniqueIds' => UniqueIds
  BY DEF UniqueIds
<1>3. PlanTypes' /\ (UniqueIds => Ordered')
  BY <1>1, FlatKeeps, StartKeeps, RoundTypes, RoundKeeps, EndKeeps DEF PlanNext
<1> QED BY <1>2, <1>3 DEF PlanInv, Ordered

\* The planner's invariant, whatever validate-pipeline does meanwhile.
THEOREM PlannerInvariant == Spec => []PlanInv
<1>1. Init => PlanInv
  <2> SUFFICES ASSUME Init PROVE PlanInv
    OBVIOUS
  <2>1. PlanTypes
    <3>1. <<>> \in Seq(SUBSET Positions)
      BY EmptySeq
    <3> QED BY <3>1 DEF Init, PlanInit, PlanTypes
  <2>2. Counted /\ Located /\ PlacedOnce /\ DependenciesFirst /\ Earliest /\ Refused
    BY DEF Init, PlanInit, Counted, Located, PlacedOnce, DependenciesFirst, Earliest, Refused
  <2> QED BY <2>1, <2>2 DEF PlanInv
<1>2. PlanInv /\ [Next]_vars => PlanInv'
  <2> SUFFICES ASSUME PlanInv, [Next]_vars PROVE PlanInv'
    OBVIOUS
  <2>1. UNCHANGED <<graph, planVars>> \/ (PlanNext /\ graph' = graph)
    BY DEF Next, vars
  <2> QED BY <2>1, PlanRests, PlanSteps
<1> QED BY <1>1, <1>2, PTL DEF Spec

\* While the planner works and whatever it ends with, a channel it has placed is
\* on one level only, after every channel it depends on.
THEOREM LevelsAreOrdered == Spec => []LevelsOrdered
<1>1. PlanInv => LevelsOrdered
  BY DEF PlanInv, LevelsOrdered
<1> QED BY <1>1, PlannerInvariant, PTL

\* The level of each channel is its rank.
LEMMA LevelsAreRanks ==
  ASSUME PlanInv, UniqueIds, planned = "yes"
  PROVE  \E r \in Ranks : \A p \in Positions : r[p] \in DOMAIN levels /\ p \in levels[r[p]]
<1>1. /\ Located /\ PlacedOnce /\ DependenciesFirst /\ Earliest
      /\ remaining = {} /\ levels \in Seq(SUBSET Positions) /\ graph \in Graphs
  BY DEF PlanInv, PlanTypes
<1>2. DOMAIN levels = 1..Len(levels) /\ Len(levels) \in Nat /\ NumChannels \in Nat
  BY <1>1, GraphTypes
<1>3. Len(levels) <= NumChannels
  <2> DEFINE done == {p \in Positions : graph.id[p] \notin remaining}
  <2>1. Len(levels) <= Cardinality(done)
    BY <1>1 DEF Earliest
  <2>2. done = Positions
    BY <1>1
  <2>3. Cardinality(Positions) = NumChannels
    BY <1>1, IdsCounted
  <2> HIDE DEF done
  <2> QED BY <2>1, <2>2, <2>3
<1>4. \A p \in Positions : \E l \in DOMAIN levels : p \in levels[l]
  BY <1>1 DEF Located
<1> DEFINE level(p) == CHOOSE l \in DOMAIN levels : p \in levels[l]
           r == [p \in Positions |-> level(p)]
<1>5. \A p \in Positions : r[p] \in DOMAIN levels /\ p \in levels[r[p]]
  BY <1>4
<1>6. r \in [Positions -> Positions]
  <2>1. \A p \in Positions : r[p] \in Positions
    BY <1>2, <1>3, <1>5 DEF Positions
  <2> QED BY <2>1
<1> HIDE DEF r
<1>7. \A p \in Positions, l \in DOMAIN levels : p \in levels[l] => l = r[p]
  BY <1>1, <1>5 DEF PlacedOnce
<1>8. \A p, q \in Positions : Before(q, p) => r[q] < r[p]
  <2> SUFFICES ASSUME NEW p \in Positions, NEW q \in Positions, Before(q, p) PROVE r[q] < r[p]
    OBVIOUS
  <2>1. PICK m \in 1..(r[p] - 1) : q \in levels[m]
    BY <1>1, <1>5 DEF DependenciesFirst
  <2>2. m \in DOMAIN levels
    BY <1>2, <1>5
  <2> QED BY <1>2, <1>5, <1>7, <2>1, <2>2
<1>9. \A p \in Positions : r[p] = 1 \/ \E q \in Positions : Before(q, p) /\ r[q] = r[p] - 1
  <2> SUFFICES ASSUME NEW p \in Positions, r[p] # 1
               PROVE  \E q \in Positions : Before(q, p) /\ r[q] = r[p] - 1
    OBVIOUS
  <2>1. r[p] > 1 /\ r[p] - 1 \in DOMAIN levels
    BY <1>2, <1>5
  <2>2. PICK q \in levels[r[p] - 1] : Before(q, p)
    BY <1>1, <1>5, <2>1 DEF Earliest
  <2>3. q \in Positions
    BY <1>1, <2>1
  <2> QED BY <1>7, <2>1, <2>2, <2>3
<1>10. r \in Ranks
  <2> SUFFICES ASSUME NEW p \in Positions
               PROVE  LET below == {q \in Positions : Before(q, p)} IN
                      /\ \A q \in below : r[q] < r[p]
                      /\ r[p] = 1 \/ \E q \in below : r[q] = r[p] - 1
    BY <1>6 DEF Ranks
  <2> QED BY <1>8, <1>9
<1> QED BY <1>5, <1>10

\* The planner throws only at an unknown dependency or a cycle, where no channel
\* has a rank; and what it plans puts every channel on the level of its rank.
THEOREM PlanIsReference == Spec => []MatchesReference
<1>1. PlanInv => MatchesReference
  <2> SUFFICES ASSUME PlanInv, UniqueIds
               PROVE  /\ planned = "threw" => HasUnknown \/ Ranks = {}
                      /\ planned = "yes" =>
                           /\ ~HasUnknown
                           /\ \E r \in Ranks : \A p \in Positions :
                                r[p] \in DOMAIN levels /\ p \in levels[r[p]]
    BY DEF MatchesReference
  <2>1. graph \in Graphs /\ (planned = "yes" => ~HasUnknown)
    BY DEF PlanInv, PlanTypes
  <2>2. planned = "threw" => HasUnknown \/ Ranks = {}
    BY <2>1, StuckHasNoRanks DEF PlanInv, Refused
  <2> QED BY <2>1, <2>2, LevelsAreRanks
<1> QED BY <1>1, PlannerInvariant, PTL

-----------------------------------------------------------------------------
(***************************************************************************)
(* The gate.                                                               *)
(***************************************************************************)

\* The walk begins with the channels without a dependency.
LEMMA StartValidationKeeps ==
  ASSUME GateTypes, StartValidation, graph' = graph
  PROVE  GateTypes' /\ (UniqueIds => Visited' /\ Rejected')
<1>1. DeclaredIds' = DeclaredIds /\ (HasUnknown' <=> HasUnknown) /\ removed' = {} /\ graph \in Graphs
  BY DEF StartValidation, GateTypes, DeclaredIds, HasUnknown, Deps
<1>2. (Founded(removed) /\ Closed(removed))'
  BY <1>1 DEF Founded, Closed
<1>3. CASE HasUnknown
  <2>1. verdict' = "rejected" /\ queue' = {}
    BY <1>3 DEF StartValidation, GateTypes
  <2> QED BY <1>1, <1>2, <1>3, <2>1 DEF GateTypes, Visited, Rejected
<1>4. CASE ~HasUnknown
  <2>1. verdict' = "running" /\ degree' = InDegrees /\ queue' = {i \in DeclaredIds : InDegrees[i] = 0}
    BY <1>4 DEF StartValidation
  <2>2. GateTypes'
    BY <1>1, <1>4, <2>1 DEF GateTypes, InDegrees
  <2>3. ASSUME UniqueIds PROVE Visited'
    <3>1. InDegrees \in [DeclaredIds -> Nat]
      BY <1>1, <2>3, OwnList
    <3>2. ASSUME NEW p \in Positions
          PROVE  /\ graph.id[p] \in DeclaredIds
                 /\ InDegrees[graph.id[p]] = Len(graph.dependsOn[p]) /\ Len(graph.dependsOn[p]) \in Nat
                 /\ Cardinality(Deps(p)' \cap removed') = 0
      <4>1. InDegrees[graph.id[p]] = Len(graph.dependsOn[p]) /\ Len(graph.dependsOn[p]) \in Nat
        BY <1>1, <2>3, OwnList, GraphTypes
      <4>2. Deps(p)' \cap removed' = {}
        BY <1>1
      <4> QED BY <4>1, <4>2, FS_EmptySet DEF DeclaredIds
    <3>3. degree' \in [DeclaredIds' -> Int] /\ queue' \cap removed' = {}
      BY <1>1, <2>1, <3>1
    <3> QED BY <1>1, <1>2, <2>1, <3>1, <3>2, <3>3 DEF Visited
  <2> QED BY <2>1, <2>2, <2>3 DEF Rejected
<1> QED BY <1>3, <1>4

\* With unique ids a channel lists an id or it does not.
LEMMA OwnListing ==
  ASSUME UniqueIds, NEW p \in Positions, NEW i
  PROVE  Cardinality(Listing(graph.id[p], i)) = IF i \in Deps(p) THEN 1 ELSE 0
<1>1. Listing(graph.id[p], i) = IF i \in Deps(p) THEN {p} ELSE {}
  BY DEF Listing, UniqueIds
<1> QED BY <1>1, FS_Singleton, FS_EmptySet

\* A visit moves one id out of the queue and may bring others in.
LEMMA VisitTypes ==
  ASSUME GateTypes, NEW i \in Ids, Visit(i), graph' = graph
  PROVE  /\ GateTypes' /\ graph \in Graphs /\ DeclaredIds' = DeclaredIds /\ ~HasUnknown
         /\ verdict = "running" /\ verdict' = "running"
         /\ i \in queue /\ i \in DeclaredIds /\ removed' = removed \cup {i}
         /\ \A j \in DeclaredIds : degree'[j] = IF j \in removed' THEN degree[j]
                                               ELSE degree[j] - Cardinality(Listing(j, i))
         /\ DOMAIN degree' = DeclaredIds
         /\ degree' = [j \in DeclaredIds |-> degree'[j]]
         /\ queue' = (queue \ {i}) \cup {j \in DeclaredIds : degree[j] > 0 /\ degree'[j] <= 0}
<1>1. /\ DOMAIN degree = DeclaredIds /\ i \in DeclaredIds /\ graph \in Graphs /\ ~HasUnknown
      /\ verdict = "running" /\ verdict' = "running" /\ i \in queue /\ removed' = removed \cup {i}
  BY DEF Visit, GateTypes
<1>2. degree' = [j \in DeclaredIds |->
        IF j \in removed' THEN degree[j] ELSE degree[j] - Cardinality(Listing(j, i))]
  BY <1>1 DEF Visit
<1>3. queue' = (queue \ {i}) \cup {j \in DeclaredIds : degree[j] > 0 /\ degree'[j] <= 0}
  BY <1>1 DEF Visit
<1>4. DeclaredIds' = DeclaredIds /\ ~HasUnknown'
  BY <1>1 DEF DeclaredIds, HasUnknown, Deps
<1>5. GateTypes'
  BY <1>1, <1>2, <1>3, <1>4 DEF GateTypes
<1>6. degree' = [j \in DeclaredIds |-> degree'[j]]
  BY <1>2
<1> QED BY <1>1, <1>2, <1>3, <1>4, <1>5, <1>6

\* Whoever waits in the queue depends on visited ids only.
LEMMA QueueIsFree ==
  ASSUME GateTypes, Visited, verdict = "running", NEW p \in Positions, graph.id[p] \in queue
  PROVE  Deps(p) \subseteq removed
<1> DEFINE D == Deps(p)
           V == D \cap removed
<1>1. graph \in Graphs /\ graph.id[p] \notin removed
  BY DEF GateTypes, Visited
<1>2. IsFiniteSet(D) /\ Cardinality(D) \in Nat /\ Cardinality(D) <= Len(graph.dependsOn[p])
      /\ Len(graph.dependsOn[p]) \in Nat
  BY <1>1, DepsCounted, GraphTypes
<1>3. /\ degree[graph.id[p]] = Len(graph.dependsOn[p]) - Cardinality(V)
      /\ degree[graph.id[p]] <= 0
  BY <1>1 DEF Visited
<1>4. V \in SUBSET D
  OBVIOUS
<1> HIDE DEF D
<1>5. Cardinality(V) <= Cardinality(D) /\ (Cardinality(D) = Cardinality(V) => D = V) /\ IsFiniteSet(V)
  BY <1>2, <1>4, FS_Subset
<1>6. Cardinality(V) \in Nat
  BY <1>5, FS_CardinalityType
<1>7. Cardinality(D) = Cardinality(V)
  BY <1>2, <1>3, <1>5, <1>6
<1> QED BY <1>5, <1>7 DEF D

\* Taking an id off the queue counts down whatever lists it.
LEMMA VisitKeeps ==
  ASSUME GateTypes, NEW i \in Ids, Visit(i), graph' = graph, UniqueIds, Visited
  PROVE  Visited' /\ Rejected'
<1>1. /\ graph \in Graphs /\ DeclaredIds' = DeclaredIds
      /\ verdict = "running" /\ verdict' = "running"
      /\ i \in queue /\ i \in DeclaredIds /\ removed' = removed \cup {i} /\ DOMAIN degree' = DeclaredIds
      /\ \A j \in DeclaredIds : degree'[j] = IF j \in removed' THEN degree[j]
                                            ELSE degree[j] - Cardinality(Listing(j, i))
      /\ queue' = (queue \ {i}) \cup {j \in DeclaredIds : degree[j] > 0 /\ degree'[j] <= 0}
      /\ degree' = [j \in DeclaredIds |-> degree'[j]]
  BY VisitTypes
<1>2. /\ queue \cap removed = {} /\ i \notin removed /\ queue \subseteq DeclaredIds
      /\ degree \in [DeclaredIds -> Int]
      /\ Founded(removed) /\ Closed(removed)
  BY <1>1 DEF Visited, GateTypes
<1>3. \A p : Deps(p)' = Deps(p)
  BY DEF Deps
<1>4. \A p \in Positions : /\ graph.id[p] \in DeclaredIds
                          /\ Cardinality(Listing(graph.id[p], i)) = IF i \in Deps(p) THEN 1 ELSE 0
  BY OwnListing DEF DeclaredIds
<1>5. \A j \in DeclaredIds : \E p \in Positions : j = graph.id[p]
  BY DEF DeclaredIds
<1>6. degree' \in [DeclaredIds' -> Int]
  <2>1. \A j \in DeclaredIds : degree'[j] \in Int
    BY <1>1, <1>2, <1>4, <1>5
  <2> QED BY <1>1, <2>1
<1>7. (Founded(removed) /\ Closed(removed))'
  <2>1. \A p \in Positions : graph.id[p] \in {i} => Deps(p) \subseteq removed
    BY <1>1, QueueIsFree
  <2>2. {i} \in SUBSET DeclaredIds
    BY <1>1
  <2>3. Founded(removed \cup {i}) /\ Closed(removed \cup {i})
    BY <1>2, <2>1, <2>2, FoundedGrows
  <2>4. Founded(removed)'
    BY <1>1, <1>3, <2>3 DEF Founded
  <2>5. Closed(removed)'
    BY <1>1, <1>3, <2>3 DEF Closed
  <2> QED BY <2>4, <2>5
<1>8. queue' \cap removed' = {}
  <2> SUFFICES ASSUME NEW j \in queue', j \in removed' PROVE FALSE
    OBVIOUS
  <2>1. j \notin queue \ {i}
    BY <1>1, <1>2
  <2>2. j \in DeclaredIds /\ degree[j] > 0 /\ degree'[j] <= 0 /\ degree'[j] = degree[j]
    BY <1>1, <2>1
  <2> QED BY <1>2, <2>2
<1>9. ASSUME NEW p \in Positions, graph.id[p] \notin removed'
      PROVE  /\ degree'[graph.id[p]] = Len(graph.dependsOn[p]) - Cardinality(Deps(p) \cap removed')
             /\ graph.id[p] \in queue' => degree'[graph.id[p]] <= 0
             /\ graph.id[p] \notin queue' => degree'[graph.id[p]] > 0
  <2> DEFINE V == Deps(p) \cap removed
             W == Deps(p) \cap removed'
  <2>1. IsFiniteSet(V) /\ Cardinality(V) \in Nat /\ Len(graph.dependsOn[p]) \in Nat
    <3>1. IsFiniteSet(Deps(p)) /\ V \in SUBSET Deps(p)
      BY <1>1, DepsCounted
    <3>2. IsFiniteSet(V)
      BY <3>1, FS_Subset
    <3> QED BY <1>1, <3>2, FS_CardinalityType, GraphTypes
  <2>2. /\ degree[graph.id[p]] = Len(graph.dependsOn[p]) - Cardinality(V)
        /\ graph.id[p] \in queue => degree[graph.id[p]] <= 0
        /\ graph.id[p] \notin queue => degree[graph.id[p]] > 0
    BY <1>1, <1>9 DEF Visited
  <2>3. degree'[graph.id[p]] = degree[graph.id[p]] - (IF i \in Deps(p) THEN 1 ELSE 0)
    BY <1>1, <1>4, <1>9
  <2>4. W = (IF i \in Deps(p) THEN V \cup {i} ELSE V) /\ i \notin V
    BY <1>1, <1>2
  <2> HIDE DEF V, W
  <2>5. Cardinality(W) = Cardinality(V) + (IF i \in Deps(p) THEN 1 ELSE 0)
    <3>1. CASE i \in Deps(p)
      <4>1. Cardinality(V \cup {i}) = Cardinality(V) + 1
        BY <2>1, <2>4, FS_AddElement
      <4>2. W = V \cup {i}
        BY <2>4, <3>1
      <4> HIDE <2>4
      <4> QED BY <3>1, <4>1, <4>2
    <3>2. CASE i \notin Deps(p)
      BY <2>1, <2>4, <3>2
    <3> QED BY <3>1, <3>2
  <2>6. degree'[graph.id[p]] = Len(graph.dependsOn[p]) - Cardinality(W)
    BY <2>1, <2>2, <2>3, <2>5
  <2>7. graph.id[p] # i /\ graph.id[p] \in DeclaredIds
    BY <1>1, <1>4, <1>9
  <2>8. graph.id[p] \in queue' => degree'[graph.id[p]] <= 0
    BY <1>1, <2>1, <2>2, <2>3, <2>7
  <2>9. graph.id[p] \notin queue' => degree'[graph.id[p]] > 0
    BY <1>1, <2>1, <2>2, <2>3, <2>6, <2>7, <1>2, <1>6
  <2> QED BY <2>6, <2>8, <2>9 DEF W
<1>10. Visited'
  <2>1. \A p \in Positions : graph.id[p] \in queue' => graph.id[p] \notin removed'
    BY <1>8
  <2> QED BY <1>3, <1>6, <1>7, <1>8, <1>9, <2>1 DEF Visited
<1> QED BY <1>1, <1>10 DEF Rejected

\* Whatever was not visited waits for something else that was not.
LEMMA EndValidationKeeps ==
  ASSUME GateTypes, EndValidation, graph' = graph
  PROVE  GateTypes' /\ (UniqueIds /\ Visited => Visited' /\ Rejected')
<1>1. /\ verdict = "running" /\ queue = {} /\ UNCHANGED <<degree, queue, removed>>
      /\ verdict' = IF Cardinality(removed) < NumChannels THEN "rejected" ELSE "accepted"
      /\ graph \in Graphs /\ removed \subseteq DeclaredIds /\ ~HasUnknown
  BY DEF EndValidation, GateTypes
<1>2. DeclaredIds' = DeclaredIds /\ ~HasUnknown' /\ \A p : Deps(p)' = Deps(p)
  BY <1>1 DEF DeclaredIds, HasUnknown, Deps
<1>3. IsFiniteSet(removed) /\ Cardinality(removed) \in Nat /\ NumChannels \in Nat
  <2>1. IsFiniteSet(removed)
    BY <1>1, IdsCounted, FS_Subset
  <2> QED BY <1>1, <2>1, FS_CardinalityType, GraphTypes
<1>4. GateTypes'
  BY <1>1, <1>2, <1>3 DEF GateTypes
<1>5. ASSUME UniqueIds, Visited PROVE Visited' /\ Rejected'
  <2>1. Visited'
    <3>1. Founded(removed) /\ Closed(removed) /\ queue \cap removed = {}
      BY <1>5 DEF Visited
    <3>2. Founded(removed)'
      BY <1>1, <1>2, <3>1 DEF Founded
    <3>3. Closed(removed)'
      BY <1>1, <1>2, <3>1 DEF Closed
    <3>4. verdict' # "running"
      BY <1>1
    <3> QED BY <1>1, <3>1, <3>2, <3>3, <3>4 DEF Visited
  <2>2. ASSUME verdict' = "rejected", NoRepeats PROVE Stuck
    <3> DEFINE rest == DeclaredIds \ removed
    <3>1. rest # {}
      <4>1. Cardinality(DeclaredIds) = NumChannels
        BY <1>1, <1>5, IdsCounted
      <4>2. Cardinality(removed) < NumChannels
        BY <1>1, <2>2
      <4>3. removed # DeclaredIds
        BY <1>3, <4>1, <4>2
      <4> QED BY <1>1, <4>3
    <3>2. ASSUME NEW p \in Positions, graph.id[p] \in rest
          PROVE  Deps(p) \cap rest # {}
      <4> DEFINE V == Deps(p) \cap removed
      <4>1. degree[graph.id[p]] = Len(graph.dependsOn[p]) - Cardinality(V) /\ degree[graph.id[p]] > 0
        BY <1>1, <1>5, <3>2 DEF Visited
      <4>2. Cardinality(Deps(p)) = Len(graph.dependsOn[p])
        BY <2>2 DEF NoRepeats
      <4>3. Len(graph.dependsOn[p]) \in Nat
        BY <1>1, GraphTypes
      <4>4. V # Deps(p)
        <5> SUFFICES ASSUME V = Deps(p) PROVE FALSE
          OBVIOUS
        <5> HIDE DEF V
        <5>1. Cardinality(V) = Len(graph.dependsOn[p])
          BY <4>2
        <5> QED BY <4>1, <4>3, <5>1
      <4>5. Deps(p) \subseteq DeclaredIds
        BY <1>1 DEF HasUnknown
      <4> QED BY <4>4, <4>5
    <3>3. rest \in SUBSET DeclaredIds
      OBVIOUS
    <3> HIDE DEF rest
    <3> QED BY <3>1, <3>2, <3>3 DEF Stuck
  <2>3. Rejected'
    <3>1. NoRepeats' => NoRepeats
      BY <1>2 DEF NoRepeats
    <3>2. Stuck => Stuck'
      BY <1>2 DEF Stuck
    <3> QED BY <2>2, <3>1, <3>2 DEF Rejected
  <2> QED BY <2>1, <2>3
<1> QED BY <1>4, <1>5

\* What the gate does not touch, it does not disturb.
LEMMA GateRests ==
  ASSUME GateInv, UNCHANGED <<graph, validatorVars>>
  PROVE  GateInv'
<1>1. UNCHANGED <<graph, verdict, degree, queue, removed>>
  BY DEF validatorVars
<1>2. /\ \A p : Deps(p)' = Deps(p)
      /\ DeclaredIds' = DeclaredIds /\ (HasUnknown' <=> HasUnknown) /\ (UniqueIds' <=> UniqueIds)
  BY <1>1 DEF Deps, DeclaredIds, HasUnknown, UniqueIds
<1>3. (NoRepeats' <=> NoRepeats) /\ (Stuck' <=> Stuck)
  BY <1>1, <1>2 DEF NoRepeats, Stuck
<1>4. GateTypes'
  BY <1>1, <1>2 DEF GateInv, GateTypes
<1>5. Visited => Visited'
  <2>1. Founded(removed) => Founded(removed)'
    BY <1>1, <1>2 DEF Founded
  <2>2. Closed(removed) => Closed(removed)'
    BY <1>1, <1>2 DEF Closed
  <2> QED BY <1>1, <1>2, <2>1, <2>2 DEF Visited
<1>6. Rejected => Rejected'
  BY <1>1, <1>2, <1>3 DEF Rejected
<1> QED BY <1>2, <1>4, <1>5, <1>6 DEF GateInv

\* What each step of the gate keeps.
LEMMA GateSteps ==
  ASSUME GateInv, ValidatorNext, graph' = graph
  PROVE  GateInv'
<1>1. UniqueIds' => UniqueIds
  BY DEF UniqueIds
<1>2. GateTypes' /\ (UniqueIds => Visited' /\ Rejected')
  BY StartValidationKeeps, VisitTypes, VisitKeeps, EndValidationKeeps DEF GateInv, ValidatorNext
<1> QED BY <1>1, <1>2 DEF GateInv

\* The gate's invariant, whatever the planner does after it.
THEOREM GateInvariant == Spec => [](GateInv /\ InTurn)
<1>1. Init => GateInv /\ InTurn
  <2> SUFFICES ASSUME Init PROVE GateInv /\ InTurn
    OBVIOUS
  <2>1. GateTypes /\ Rejected /\ InTurn
    BY DEF Init, ValidatorInit, PlanInit, GateTypes, Rejected, InTurn
  <2>2. Visited
    BY DEF Init, ValidatorInit, Visited, Founded, Closed
  <2> QED BY <2>1, <2>2 DEF GateInv
<1>2. GateInv /\ InTurn /\ [Next]_vars => GateInv' /\ InTurn'
  <2> SUFFICES ASSUME GateInv, InTurn, [Next]_vars PROVE GateInv' /\ InTurn'
    OBVIOUS
  <2>1. GateInv'
    <3>1. UNCHANGED <<graph, validatorVars>> \/ (ValidatorNext /\ graph' = graph)
      BY DEF Next, vars
    <3> QED BY <3>1, GateRests, GateSteps
  <2>2. InTurn'
    <3>1. ASSUME ValidatorNext, UNCHANGED <<graph, planVars>> PROVE InTurn'
      <4>1. verdict \in {"none", "running"}
        BY <3>1 DEF ValidatorNext, StartValidation, Visit, EndValidation
      <4> QED BY <3>1, <4>1 DEF InTurn, Checked, planVars
    <3>2. ASSUME Checked, UNCHANGED validatorVars PROVE InTurn'
      BY <3>2 DEF InTurn, Checked, validatorVars
    <3>3. ASSUME UNCHANGED vars PROVE InTurn'
      BY <3>3 DEF InTurn, Checked, vars, planVars, validatorVars
    <3> QED BY <3>1, <3>2, <3>3 DEF Next, vars
  <2> QED BY <2>1, <2>2
<1> QED BY <1>1, <1>2, PTL DEF Spec

\* What the gate accepts has unique ids and an order.
LEMMA AcceptedIsFounded ==
  ASSUME GateInv, verdict = "accepted"
  PROVE  UniqueIds /\ Founded(DeclaredIds) /\ ~HasUnknown
<1>1. /\ graph \in Graphs /\ removed \subseteq DeclaredIds /\ ~HasUnknown
      /\ Cardinality(removed) >= NumChannels
  BY DEF GateInv, GateTypes
<1>2. /\ IsFiniteSet(DeclaredIds) /\ Cardinality(DeclaredIds) <= NumChannels /\ NumChannels \in Nat
      /\ (Cardinality(DeclaredIds) = NumChannels => UniqueIds)
  BY <1>1, IdsCounted, GraphTypes
<1>3. /\ Cardinality(removed) <= Cardinality(DeclaredIds) /\ IsFiniteSet(removed)
      /\ (Cardinality(DeclaredIds) = Cardinality(removed) => DeclaredIds = removed)
  BY <1>1, <1>2, FS_Subset
<1>4. Cardinality(removed) \in Nat /\ Cardinality(DeclaredIds) \in Nat
  BY <1>2, <1>3, FS_CardinalityType
<1>5. Cardinality(DeclaredIds) = NumChannels /\ Cardinality(DeclaredIds) = Cardinality(removed)
  BY <1>1, <1>2, <1>3, <1>4
<1>6. UniqueIds /\ DeclaredIds = removed
  BY <1>2, <1>3, <1>5
<1> QED BY <1>1, <1>6 DEF GateInv, Visited

\* A graph validate-pipeline accepts is planned, every dependency first; and when
\* nothing in it repeats, validate-pipeline accepts what the executor can plan.
THEOREM GateAndPlannerAgree == Spec => []GateAgrees
<1>1. PlanInv /\ GateInv /\ InTurn => GateAgrees
  <2> SUFFICES ASSUME PlanInv, GateInv, InTurn, Planned
               PROVE  /\ verdict = "accepted" => planned = "yes" /\ UniqueIds /\ DependenciesFirst
                      /\ UniqueIds /\ NoRepeats /\ planned = "yes" => verdict = "accepted"
    BY DEF GateAgrees
  <2>1. ASSUME verdict = "accepted" PROVE planned = "yes" /\ UniqueIds /\ DependenciesFirst
    <3>1. UniqueIds /\ ~Stuck /\ ~HasUnknown
      BY <2>1, AcceptedIsFounded, FoundedIsNotStuck
    <3> QED BY <3>1 DEF PlanInv, Refused, Planned
  <2>2. ASSUME UniqueIds, NoRepeats, planned = "yes" PROVE verdict = "accepted"
    <3>1. ~HasUnknown /\ Settled = DeclaredIds /\ Founded(Settled)
      BY <2>2 DEF PlanInv, PlanTypes, Earliest, Settled
    <3>2. ~Stuck
      BY <3>1, FoundedIsNotStuck
    <3> QED BY <2>2, <3>1, <3>2 DEF GateInv, Rejected, InTurn, Checked
  <2> QED BY <2>1, <2>2
<1> QED BY <1>1, PlannerInvariant, GateInvariant, PTL
=============================================================================
