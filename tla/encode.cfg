SPECIFICATION Spec
CONSTANTS
  NClient = 9
  MaxVars = 14
  IntWidth = 5
  Sessions <- EncodeSessions
  Exprs <- SomeExprs
  AigLists <- SomeAigs
INVARIANTS
  CountTypeOK
  Sound
  NothingLost
  Exact
  ModelCompletes
  MoreExact
  MoreComplete
  ThrownOnlyIfUnsat
  OneHot
