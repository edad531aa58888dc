SPECIFICATION Spec
CONSTANTS
  c1 = c1
  c2 = c2
  author = author
  reviewer = reviewer
  owner = owner
  r1 = r1
  r2 = r2
  Blank = Blank
  Nobody = Nobody
  Users = {author, reviewer, owner}
  FullAccess = {owner}
  Requests = {r1}
  Contents = {Blank, c1, c2}
  MaxRows = 3
SYMMETRY Symmetry
INVARIANTS
  LiveIsPublished
  FourEyes
  DraftFollowsPublished
PROPERTIES
  ImplementsReleaseCycle
  KeepsPublished
