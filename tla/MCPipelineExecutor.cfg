SPECIFICATION FairSpec
CONSTANTS
  NumChannels = 3
  p1 = p1
  p2 = p2
  Providers = {p1, p2}
  Plans <- SmallPlans
  Statuses = {"ok", "schema_error", "error"}
  MayLack = {"schema_error"}
  NULL = NULL
INVARIANTS
  TypeOK
  CapsRespected
  DependencyOrder
  AtMostOncePerDepth
  DecisionTrail
  ResultsInPlanOrder
  NothingLost
  HonestStatus
PROPERTIES
  NoStartAfterStop
  Settles
