SPECIFICATION Spec
CONSTANTS
  Parts = {1, 2}
  Kinds = {"iso4"}
  MaxRivals = 1
  CollidingAt = {1}
  CollisionPos <- Resolvable
  Loss = FALSE
\* the session returns
CHECK_DEADLOCK FALSE
INVARIANTS
  SelectIsWhole
PROPERTIES
  SessionReturns
