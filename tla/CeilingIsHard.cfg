SPECIFICATION BudgetSpec
CONSTANTS
  NumChannels = 2
  prov = prov
  Providers = {prov}
  Plans <- SmallPlans
  Statuses = {"ok", "error"}
  MayLack = {}
  Budgets <- SmallBudgets
  NULL = NULL
PROPERTY CeilingIsHard
