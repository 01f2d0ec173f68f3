CONSTANTS
  NVar = 4
  MaxClause = 0
  DecVar = {1, 2, 4}
  Prepared = 2
  Bumps = {1}
  ActLimit = 2
SPECIFICATION HeapSpec
INVARIANTS HeapTypeOK HeapIsInverse HeapOrdered
PROPERTIES ImplementsQueue
CHECK_DEADLOCK TRUE
