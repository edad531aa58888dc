SPECIFICATION Spec
CONSTANTS
  b1 = b1
  b2 = b2
  Browsers = {b1}
  Calls = {1, 2}
  MaxTokens = 4
  MaxVersion = 2
CHECK_DEADLOCK FALSE
INVARIANTS
  TypeOK
  NoFalseAlarm
  EndedStaysEnded
PROPERTIES
  FollowersAnswered
