SPECIFICATION Spec
CONSTANTS
  Conns = {c1, c2}
  Steps = 2
  Cap = 1
  Overlap = FALSE
  Leaves = TRUE
  NoConn = NoConn
INVARIANT OneJob
CHECK_DEADLOCK FALSE
