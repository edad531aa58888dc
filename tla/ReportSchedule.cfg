SPECIFICATION Spec
CONSTANTS
  i1 = i1
  i2 = i2
  p1 = p1
  p2 = p2
  s1 = s1
  s2 = s2
  Nobody = Nobody
  Instances = {i1, i2}
  Polls = {p1, p2}
  HostOf <- MCHostOf
  Schedules = {s1, s2}
  MaxFaults = 2
INVARIANTS
  TypeOK
  OnceMorePerFault
PROPERTIES
  DueIsDealtWith
