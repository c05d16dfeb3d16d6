CONSTANTS
  s1 = s1
  s2 = s2
  Sender <- MCSender
  MaxMsgs = 2
  MaxSends = 1
  MaxClosed = 1
  MaxBoots = 2
SPECIFICATION FairSpec
CHECK_DEADLOCK FALSE
INVARIANTS TypeOK NoQuestionLost MidTurnIsVisible
PROPERTIES Handled StopIsHonoured
