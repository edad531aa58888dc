SPECIFICATION Spec
CONSTANTS
  q1 = q1
  q2 = q2
  d1 = d1
  d2 = d2
  FollowUp = FollowUp
  Requests = {q1, q2}
  Definitions = {d1, d2}
  Count = 2
  MaxMessages = 2
  MaxCrashes = 2
  MaxErrors = 1
CHECK_DEADLOCK FALSE
INVARIANTS
  TypeOK
  AtMostOneRun
  StuckRunsHaveACause
  StrandedByCrash
PROPERTIES
  WorkedOff
