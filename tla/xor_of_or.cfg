SPECIFICATION Spec
CONSTANTS
  NClient = 9
  MaxVars = 13
  IntWidth = 5
  Sessions <- XorOfOr
  Exprs <- SomeExprs
  AigLists <- SomeAigs
INVARIANTS
  ExprIsSatisfied
