SPECIFICATION FairSpec
CONSTANTS
  MaxExtra = 3
  NULL = NULL
  Configs <- SmallConfigs
INVARIANTS
  TypeOK
  CallBudget
  RepairOnlyAfterRepairable
  ResultIsLastAnswer
  GivesUpOnlyWhenSpent
PROPERTIES
  Settles
  RefinesContract
