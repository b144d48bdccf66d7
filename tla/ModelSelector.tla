----------------------------- MODULE ModelSelector -----------------------------
(***************************************************************************)
(* ModelSelector.select: each of a list of providers runs one pipeline a   *)
(* number of times, what the runs were like is summed up per provider, and *)
(* the providers are ranked by a weighted score.  The executor is what it  *)
(* answers: one of RunOutcomes, or it throws.  Scores are exact fractions, *)
(* what floating point makes of them is left out.                          *)
(***************************************************************************)
EXTENDS Integers, Sequences, FiniteSets, Sums

CONSTANTS
  ProviderLists, \* as given on the command line, possibly repeating
  RunsOption,    \* what --runs may be: integers, or NaN for what is no number
  NaN,
  RunOutcomes,   \* what run() may answer
  WeightOptions  \* weights that may be given, in twentieths, for some respects

Unreported == -1  \* a cost no channel of a run reported

\* What a run is made of: its channels with its synthesis, with what they cost
\* and how long they took.
ASSUME OutcomesAssumption ==
  \A run \in RunOutcomes :
    /\ run.valid \in BOOLEAN
    /\ run.channels \in Seq([valid : BOOLEAN, cost : Nat \cup {Unreported}, latency : Nat])

ASSUME OptionsAssumption ==
  /\ \A list \in ProviderLists : Len(list) \in Nat
  /\ RunsOption \subseteq Int \cup {NaN} /\ NaN \notin Int

Respects == {"validation", "conformance", "cost", "latency"}

\* A weight of 0 is in the documentation's own example; negative ones and what is
\* no number are left out.
ASSUME WeightsAssumption ==
  \A given \in WeightOptions : DOMAIN given \subseteq Respects /\ \A f \in DOMAIN given : given[f] \in Nat

VARIABLES
  providers, runsOption, weights,
  aggs,  \* per provider of the list, as far as it was reached
  log    \* per provider, for each of its runs the answer, in a tuple, or <<>>

options == <<providers, runsOption, weights>>
selectVars == <<options, aggs, log>>

\* DEFAULT_WEIGHTS, in twentieths, but for the weights that are given.
DefaultWeights == [validation |-> 8, conformance |-> 6, cost |-> 3, latency |-> 3]
MergedWeights(given) ==
  [f \in Respects |-> IF f \in DOMAIN given THEN given[f] ELSE DefaultWeights[f]]

\* Math.max(1, NaN) is NaN, and no loop variable is below it.
Runs == IF runsOption = NaN THEN 0 ELSE IF runsOption < 1 THEN 1 ELSE runsOption

NewAgg == [runs |-> 0, validationPasses |-> 0, conformingChannels |-> 0, totalChannels |-> 0,
           costSum |-> 0, costSamples |-> 0, latencySum |-> 0, errors |-> 0]

\* The provider that was reached last has run as often as it shall.
RoundsOver == aggs # <<>> => aggs[Len(aggs)].runs = Runs
Finished == Len(aggs) = Len(providers) /\ RoundsOver

SelectInit ==
  /\ providers \in ProviderLists /\ runsOption \in RunsOption
  /\ weights \in {MergedWeights(given) : given \in WeightOptions}
  /\ aggs = <<>> /\ log = <<>>

----------------------------------------------------------------------------
\* Unreported when no channel reported a cost.
CostedParts(run) == {c \in DOMAIN run.channels : run.channels[c].cost # Unreported}
SumCost(run) ==
  IF CostedParts(run) = {} THEN Unreported
  ELSE Total([c \in CostedParts(run) |-> run.channels[c].cost])

SumLatency(run) == Total([c \in DOMAIN run.channels |-> run.channels[c].latency])

Conformance(run) == Cardinality({c \in DOMAIN run.channels : run.channels[c].valid})

\* Fault: runs without a cost count as samples.
WithRun_CountsFree(agg, run) ==
  [agg EXCEPT !.runs = @ + 1,
              !.validationPasses = @ + IF run.valid THEN 1 ELSE 0,
              !.conformingChannels = @ + Conformance(run),
              !.totalChannels = @ + Len(run.channels),
              !.costSum = @ + IF SumCost(run) = Unreported THEN 0 ELSE SumCost(run),
              !.costSamples = @ + 1,
              !.latencySum = @ + SumLatency(run)]

\* The aggregate with one more run, that answered.
WithRun(agg, run) ==
  [agg EXCEPT !.runs = @ + 1,
              !.validationPasses = @ + IF run.valid THEN 1 ELSE 0,
              !.conformingChannels = @ + Conformance(run),
              !.totalChannels = @ + Len(run.channels),
              !.costSum = @ + IF SumCost(run) = Unreported THEN 0 ELSE SumCost(run),
              !.costSamples = @ + IF SumCost(run) = Unreported THEN 0 ELSE 1,
              !.latencySum = @ + SumLatency(run)]

\* The loop over providers starts its next round.
NextProvider ==
  /\ Len(aggs) < Len(providers) /\ RoundsOver
  /\ aggs' = Append(aggs, NewAgg) /\ log' = Append(log, <<>>)
  /\ UNCHANGED options

Logged(outcome) == log' = [log EXCEPT ![Len(log)] = Append(@, outcome)]

RunOnce ==
  /\ ~RoundsOver
  /\ \E run \in RunOutcomes :
       /\ aggs' = [aggs EXCEPT ![Len(aggs)] = WithRun(@, run)]
       /\ Logged(<<run>>)
  /\ UNCHANGED options

RunThrows ==
  /\ ~RoundsOver
  /\ aggs' = [aggs EXCEPT ![Len(aggs)].runs = @ + 1, ![Len(aggs)].errors = @ + 1]
  /\ Logged(<<>>)
  /\ UNCHANGED options

SelectNext == NextProvider \/ RunOnce \/ RunThrows

SelectSpec == SelectInit /\ [][SelectNext]_selectVars

----------------------------------------------------------------------------
(* Fractions, as pairs of a numerator and a positive denominator.          *)
Over(n, d) == IF d > 0 THEN <<n, d>> ELSE <<0, 1>>
Leq(x, y) == x[1] * y[2] <= y[1] * x[2]
Less(x, y) == ~Leq(y, x)
Plus(x, y) == <<x[1] * y[2] + y[1] * x[2], x[2] * y[2]>>
Times(k, x) == <<k * x[1], x[2]>>
Biggest(S) == CHOOSE x \in S : \A y \in S : Leq(y, x)

\* Fault: the share of the worst counts for the provider instead of against it.
Inverted_Not(x, worst) == IF worst[1] = 0 THEN <<1, 1>> ELSE <<x[1] * worst[2], x[2] * worst[1]>>

\* 1 - x / worst, and 1 when the worst is 0.
Inverted(x, worst) ==
  IF worst[1] = 0 THEN <<1, 1>> ELSE <<x[2] * worst[1] - x[1] * worst[2], x[2] * worst[1]>>

\* A provider without any cost counts as costing nothing.
StatsOf(a) ==
  [validation |-> Over(a.validationPasses, a.runs),
   conformance |-> Over(a.conformingChannels, a.totalChannels),
   cost |-> Over(a.costSum, a.costSamples),
   latency |-> Over(a.latencySum, a.runs - a.errors)]

Score(p) ==
  LET stats == [q \in DOMAIN aggs |-> StatsOf(aggs[q])]
      worst(f) == Biggest({<<0, 1>>} \cup {stats[q][f] : q \in DOMAIN aggs})
  IN Plus(Plus(Times(weights.validation, stats[p].validation),
               Times(weights.conformance, stats[p].conformance)),
          Plus(Times(weights.cost, Inverted(stats[p].cost, worst("cost"))),
               Times(weights.latency, Inverted(stats[p].latency, worst("latency")))))

\* The sort is stable: equal scores stay in the order of the list.
Ahead(q, p) == Less(Score(p), Score(q)) \/ (q < p /\ Leq(Score(p), Score(q)))

\* The place in the report of a provider of the list.
Place(p) == 1 + Cardinality({q \in DOMAIN aggs : Ahead(q, p)})

None == 0
\* The provider on the first place.
Recommendation == IF aggs = <<>> THEN None ELSE CHOOSE p \in DOMAIN aggs : Place(p) = 1

\* The provider printed first, as `select-model` prints it.
SelectCommand == IF Recommendation = None THEN "none" ELSE providers[Recommendation]

----------------------------------------------------------------------------
\* Of what the runs of a provider answered: those that came back, those of them
\* with a cost, and what the runs were like.
CameBack(runs) == {n \in DOMAIN runs : runs[n] # <<>>}
Costed(runs) == {n \in CameBack(runs) : SumCost(runs[n][1]) # Unreported}

Passes(runs) == Cardinality({n \in CameBack(runs) : runs[n][1].valid})
Share(runs) == Over(Total([n \in CameBack(runs) |-> Conformance(runs[n][1])]),
                    Total([n \in CameBack(runs) |-> Len(runs[n][1].channels)]))
MeanCost(runs) == Over(Total([n \in Costed(runs) |-> SumCost(runs[n][1])]), Cardinality(Costed(runs)))
MeanLatency(runs) ==
  Over(Total([n \in CameBack(runs) |-> SumLatency(runs[n][1])]), Cardinality(CameBack(runs)))

\* At least as good in the respects that have a weight: as many runs passed, as
\* large a share of the channels conforms, neither the mean cost nor the mean
\* latency is higher.
Dominates(runs, others) ==
  /\ weights.validation > 0 => Passes(others) <= Passes(runs)
  /\ weights.conformance > 0 => Leq(Share(others), Share(runs))
  /\ weights.cost > 0 => Leq(MeanCost(runs), MeanCost(others))
  /\ weights.latency > 0 => Leq(MeanLatency(runs), MeanLatency(others))

\* Every provider has a place of its own, and none is behind one that did worse
\* in some respect that has a weight and better in none.  Throwing is cheap and
\* fast: one whose runs all threw is before one whose runs all passed only when
\* validation weighs less than cost and latency together, or just as much, as
\* with the weights of docs/model-selection.md, and it is named first.
RankingSound ==
  Finished =>
    \A p, q \in DOMAIN aggs :
      LET first  == Place(p)
          second == Place(q)
      IN /\ first \in DOMAIN aggs /\ (p # q => first # second)
         /\ first < second =>
              /\ Dominates(log[q], log[p]) => Dominates(log[p], log[q])
              /\ CameBack(log[p]) = {} /\ Passes(log[q]) = Runs /\ Runs > 0 =>
                   \/ weights.validation < weights.cost + weights.latency
                   \/ weights.validation = weights.cost + weights.latency /\ p < q
=============================================================================
