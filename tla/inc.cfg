SPECIFICATION Spec
CONSTANTS
  NVar = 3
  MaxClause = 4
  LevelBits = 64
  Analyzers <- FirstUip
  DecVar <- VarsAll
  InitVars = 2
  Menu <- IncMenu
  Assumptions <- IncAssumptions
  MaxSolves = 2
  ConflictLimits <- ShortLimit
  LearntLimits <- ShortLimit
  Budgets <- NoBudgets
  PhaseCache = TRUE
  Phases <- BothPhases
  MayStop = FALSE
INVARIANTS
  TypeOK
  HeapCovers
  BinaryPaired
  PropagationComplete
  ReasonsHold
  SatSound
  UnsatSound
  ConflictsExplain
  InsaneIsUnsat
  TrailIsAssignment
  MarkersOrdered
  LevelsMatchMarkers
PROPERTIES
  ImplementsOracle
