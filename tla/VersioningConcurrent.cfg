SPECIFICATION LegacySpec
CONSTANTS
  c1 = c1
  c2 = c2
  author = author
  reviewer = reviewer
  owner = owner
  r1 = r1
  r2 = r2
  Blank = Blank
  Nobody = Nobody
  Users = {author, reviewer}
  FullAccess = {}
  Requests = {r1, r2}
  Contents = {Blank, c1}
  MaxRows = 3
SYMMETRY Symmetry
INVARIANTS
  TypeOK
  OneOfEach
PROPERTIES
  FrozenForever
