SPECIFICATION Spec
CONSTANTS
  NVar = 2
  MaxClause = 0
  Clauses <- ThreeClauses
  Queries <- NoneOrTwo
  Amounts <- SmallBudgets
  MaxSolves = 2
  MaxCount = 2
INVARIANT
  UnknownIsOfThisCall
