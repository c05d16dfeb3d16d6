CONSTANTS
  a = a
  b = b
  p1 = p1
  p2 = p2
  End <- MCEnd
  Process <- MCProcess
  From <- MCFrom
  Declared <- MCDeclared
  MaxMsgs = 4
SPECIFICATION Spec
CHECK_DEADLOCK FALSE
INVARIANTS TypeOK LinesAreDelivered QuestionsStayOpen ReapIsFinal
PROPERTIES CountedFirst
