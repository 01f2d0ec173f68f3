SPECIFICATION Spec
CONSTANTS
  NVar = 5
  MaxClause = 6
  LevelBits = 2
  Analyzers <- BothUips
  DecVar <- FirstFour
  InitVars = 5
  Menu <- LearnMenu
  Assumptions <- NoAssumptions
  MaxSolves = 1
  ConflictLimits <- ShortLimit
  LearntLimits <- SomeSlack
  Budgets <- NoBudgets
  PhaseCache = FALSE
  Phases <- Positive
  MayStop = FALSE
INVARIANTS
  NoError
  LearntEntailed
  LearntAsserts
  WatchedTwice
PROPERTIES
  ReasonStays
  ImplementsTrail
ACTION_CONSTRAINT OneFormula
