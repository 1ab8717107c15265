SPECIFICATION RepliesSpec
CONSTANTS
  MaxQuestions = 4
  MaxReplyFaults = 2
INVARIANTS
  AnswersInOrder
  ApprovedAndOnce
PROPERTIES
  QuestionsServed
  HeldUntilDecided
CHECK_DEADLOCK FALSE
