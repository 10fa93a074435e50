SPECIFICATION BenchSpec
CONSTANTS
  Targets <- MCTargets
  Plans <- MCPlans
  Delays = {300}
  MaxClock = 300
  MaxPlan = 2
INVARIANTS
  TrialsAreFresh
  RecoveryIsEarned
  ValidIsContained
CHECK_DEADLOCK FALSE
