\* A host routes work while other sessions move the missions of its scope.
SPECIFICATION Spec
CONSTANTS
  Requests <- MCRequests
  Intents = {"correction"}
  Chains = {"reconciliation"}
  Level = 1
  Consumptions <- MCConsumptions
  MaxMissions = 2
  MaxStirs = 1
  MaxAnswers = 3
  NoUnit = NoUnit
INVARIANTS
  BudgetKept
  AdmittedLawfully

  
  
CHECK_DEADLOCK FALSE
