SPECIFICATION FairSpec
CONSTANTS
  Workers = {w1, w2}
  Ids = {1}
  RowIds = {1, 2, 3, 4, 5, 6}
  Requests <- LockRequests
  FreshLists = FALSE
  Fails = FALSE
  MaxPos = 2
PROPERTY Finishes
