SPECIFICATION Spec
CONSTANTS
  shelf = shelf
  line = line
  NoMax = NoMax
  Locations = {shelf, line}
  Levels = {0, 2}
  Quantities = {1, 2}
  AllowNegativeAllocation = FALSE
  MaxUnits = 2
  MaxPending = 2
  MaxIgnored = 1
SYMMETRY Symmetry
INVARIANTS
  TypeOK
  StateTellsTheTruth
  ShortageIsAnnounced
  OrderedOncePerShortage
