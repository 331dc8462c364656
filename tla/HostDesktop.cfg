CONSTANTS
  Session = {s1, s2}
  None = None
  MaxRun = 2
  MaxWindow = 2
SPECIFICATION FairSpec
INVARIANTS
  TypeOK
  OneSessionAtATime
  AnswerHasItsWindow
PROPERTIES
  StopEndsRelay
  RequestIsShown
