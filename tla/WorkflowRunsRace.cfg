SPECIFICATION Spec
CONSTANTS
  qm = qm
  om = om
  admin = admin
  clerk = clerk
  Quality = Quality
  Operations = Operations
  review = review
  check = check
  release = release
  Nothing = Nothing
  End = End
  Requests = {1, 2}
  People = {qm, om, admin, clerk}
  FullAccess = {admin}
  Titles = {Quality, Operations}
  TitleOf <- MCTitleOf
  Steps <- MCSteps
  First = review
  AsksFor <- MCAsksFor
  AnyOf = {release}
  MayDecide <- MCMayDecide
  Routes = {"return"}
  Leads <- MCLeads
  MaxDecisions = 3
  MaxFailures = 0
\* A run ends.
CHECK_DEADLOCK FALSE
INVARIANTS
  OpenRunKeepsPosition
