SPECIFICATION Spec
CONSTANTS
  RunSet <- MCRunSet
  MaxRuns = 2
  Values <- MCValues
  OutputChanges <- DiffParsed
  Today = 3
  NaN = NaN
  ProviderLists <- MCProviderLists
  RunsOption <- MCRunsOption
  RunOutcomes <- MCRunOutcomes
  WeightOptions <- MCWeightOptions
CHECK_DEADLOCK FALSE
INVARIANTS
  DiffExplains
  DiffSound
  StatsAddUp
  RankingSound
