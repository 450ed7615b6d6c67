SPECIFICATION Spec
CONSTANTS
  Page = {1, 2, 3}
  Frame <- MCFrame
  Nodes <- MCNodes
  Datum = {0, 1}
INVARIANTS FramesDisjoint AssertionsHold DataPreserved
PROPERTIES AccessCompletes
CHECK_DEADLOCK FALSE
