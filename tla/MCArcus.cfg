SPECIFICATION Spec
CONSTANTS
  Object <- MCObject
  MaxObjects = 3
  MaxMessages = 2
INVARIANTS
  AnswersTheList
  NothingHalfAnswered
PROPERTIES
  EndsWhenDown
  TakesMessages
CHECK_DEADLOCK FALSE
