SPECIFICATION FairSpec
CONSTANTS
  Flights = {f1, f2}
  None = None
  MaxMessages = 2
  MaxLength = 2
  MaxBytes = 4
  Text <- Texts
  MaxTurns = 3
INVARIANTS
  TypeOK
  RepliesFollowQuestions
  SentConversation
  StatusIsRight
PROPERTY ButtonsComeBack
CHECK_DEADLOCK FALSE
