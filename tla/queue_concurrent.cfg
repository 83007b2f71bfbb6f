SPECIFICATION Spec
CONSTANTS
  Workers = {w1, w2}
  Ids = {1}
  RowIds = {1, 2, 3, 4, 5, 6}
  Requests <- MeetingRequests
  FreshLists = FALSE
  Fails = TRUE
  MaxPos = 2
INVARIANTS TypeOK PositionsPositive NoLostShift
PROPERTY KeepsOrder
