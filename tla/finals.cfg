SPECIFICATION Spec
CONSTANTS
  NVar = 3
  MaxClause = 4
  LevelBits = 64
  Analyzers <- FirstUip
  DecVar <- VarsAll
  InitVars = 3
  Menu <- FinalsMenu
  Assumptions <- FinalsAssumptions
  MaxSolves = 1
  ConflictLimits <- ShortLimit
  LearntLimits <- ShortLimit
  Budgets <- NoBudgets
  PhaseCache = FALSE
  Phases <- BothPhases
  MayStop = FALSE
INVARIANTS
  FinalsAreAssumptions
