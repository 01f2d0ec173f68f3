SPECIFICATION FairSpec
CONSTANTS
  NVar = 4
  MaxClause = 8
  LevelBits = 64
  Analyzers <- FirstUip
  DecVar <- FirstThree
  InitVars = 4
  Menu <- LockMenu
  Assumptions <- LockAssumptions
  MaxSolves = 2
  ConflictLimits <- ShortLimit
  LearntLimits <- LowSlack
  Budgets <- SomeBudgets
  PhaseCache = FALSE
  Phases <- Positive
  MayStop = TRUE
PROPERTIES
  SolveReturns
  StopHonoured
  ImplementsOracle
ACTION_CONSTRAINT WholeMenu
