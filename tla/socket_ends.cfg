SPECIFICATION FairSpec
CONSTANTS
  Conns = {c1, c2}
  Steps = 2
  Cap = 1
  Overlap = TRUE
  Leaves = TRUE
  NoConn = NoConn
INVARIANTS TypeOK EntryServed
PROPERTIES JobEnds LockFreed OutcomeDelivered OnlyLeftBehind
CHECK_DEADLOCK FALSE
