SPECIFICATION Spec
CONSTANTS
  Parts = {1, 2, 3}
  Kinds <- AnyKind
  MaxRivals = 2
  CollidingAt = {1, 2, 3}
  CollisionPos <- Edges
  Loss = TRUE
\* a lost answer stops the session
CHECK_DEADLOCK FALSE
INVARIANTS
  TypeOK
  NoMutualBlock
  HaltEchoEndsSession
  AnswerInStep
PROPERTIES
  FieldOffAfterReturn
  SessionOrder
