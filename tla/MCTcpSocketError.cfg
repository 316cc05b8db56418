SPECIFICATION Spec
CONSTANTS
  Width = 10
  MaxLen = 3
  AnswerLen = 4
  MaxAnswers = 1
  MaxSignals = 0
  LinkMayFail = TRUE
PROPERTY SendErrorReported
CHECK_DEADLOCK FALSE
