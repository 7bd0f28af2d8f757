SPECIFICATION FairChatSpec
CONSTANTS
  MaxId = 3
  MaxAnswers = 1
  Keep = 3
  MaxUpsets = 1
  MaxEarly = 0
  Limit <- MCLimit
INVARIANTS RepliesNeedUpsets
 
CHECK_DEADLOCK FALSE
