SPECIFICATION Spec
CONSTANTS
  OutPackets <- Out64
  InPackets <- In63
  Answers <- AnswerCounts
  MaxRuns = 3
  MaxCommands = 2
  Kills = TRUE
  Stalls = FALSE
CHECK_DEADLOCK FALSE
INVARIANTS
  TypeOK
  FramesOwn
  CommandsUnmixed
PROPERTIES
  LinkSpec
  Answered
