SPECIFICATION FairSpec
CONSTANTS
  Callers = {c1, c2}
  Settings <- MCSettings
  Width = 3
  MaxLength = 6
INVARIANTS TypeOK ClosedInOrder AnswersMatchLog RepliesMatchLog AnswersCounted FetchInRange
PROPERTIES ShutdownCompletes
CHECK_DEADLOCK FALSE
