SPECIFICATION Spec
CONSTANTS
  Workers = {w1}
  Ids = {1, 2}
  RowIds = {1, 2, 3}
  Requests <- SerialRequests
  FreshLists = TRUE
  Fails = FALSE
  MaxPos = 4
INVARIANT Contiguous
PROPERTY ImplementsPlayOrder
