SPECIFICATION Spec
CONSTANTS
  Podcasts = {p1, p2}
  CutOff = {}
  Entries = {e1}
  None = none
  Jobs = {j1, j2}
  Kinds = {"background", "user"}
  Unreliable = FALSE
  Fails = TRUE
  MaxVersions = 3
SYMMETRY SymmetricRows
INVARIANTS ValidatorsHonest RowsPerJob
CHECK_DEADLOCK FALSE
