SPECIFICATION FairSpec
CONSTANTS
  Conns = {c1}
  Steps = 2
  Cap = 1
  Overlap = FALSE
  Leaves = FALSE
  NoConn = NoConn
PROPERTY ClientReleased
CHECK_DEADLOCK FALSE
