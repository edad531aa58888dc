SPECIFICATION Spec
CONSTANTS
  Nodes <- FiveNodes
  NoNode = NoNode
  Graphs <- AllGraphs
  MaxDecisions = 3
\* A run ends.
CHECK_DEADLOCK FALSE
INVARIANTS
  TypeOK
  OncePerRun
  JoinsWaitForAll
  ApprovalsLoseNothing
PROPERTIES
  Terminates
