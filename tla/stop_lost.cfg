SPECIFICATION Spec
CONSTANTS
  NVar = 3
  MaxClause = 4
  LevelBits = 64
  Analyzers <- FirstUip
  DecVar <- VarsAll
  InitVars = 3
  Menu <- StopMenu
  Assumptions <- StopAssumptions
  MaxSolves = 1
  ConflictLimits <- ShortLimit
  LearntLimits <- ShortLimit
  Budgets <- NoBudgets
  PhaseCache = FALSE
  Phases <- BothPhases
  MayStop = TRUE
INVARIANTS
  StopStaysInEffect
