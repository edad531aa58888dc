SPECIFICATION Spec
CONSTANTS
  bin = bin
  cage = cage
  n1 = n1
  r1 = r1
  r2 = r2
  Requests = {r1}
  Places = {bin, cage}
  Nowhere = Nowhere
  Ncrs = {n1}
  NoNcr = NoNcr
  MaxRecords = 2
  MaxUnits = 2
SYMMETRY Symmetry
INVARIANTS
  TypeOK
  HeldCountsHolds
  LotCoversHeld
  RowsAddUp
  DecisionsAddUp
PROPERTIES
  ClosedIsFinal
