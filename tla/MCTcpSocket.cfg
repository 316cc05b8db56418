SPECIFICATION Spec
CONSTANTS
  Width = 10
  MaxLen = 7
  AnswerLen = 4
  MaxAnswers = 2
  MaxSignals = 2
  LinkMayFail = TRUE
INVARIANTS TypeOK SentInOrder RecvCounts
PROPERTY CallReturns
CHECK_DEADLOCK FALSE
