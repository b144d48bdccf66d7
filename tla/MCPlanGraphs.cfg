SPECIFICATION FairSpec
CONSTANTS
  a = a
  b = b
  c = c
  ghost = ghost
  Ids = {a, b, c, ghost}
  NumChannels = 3
  Graphs <- SmallGraphs
INVARIANTS
  LevelsOrdered
  MatchesReference
  GateAgrees
PROPERTIES
  BothEnd
