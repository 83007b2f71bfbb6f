SPECIFICATION FairSpec
CONSTANTS
  Podcasts = {p1}
  CutOff = {p1}
  Entries = {e1}
  None = none
  Jobs = {j1, j2}
  Kinds = {"background", "user", "add"}
  Unreliable = TRUE
  Fails = FALSE
  MaxVersions = 2
CHECK_DEADLOCK FALSE
INVARIANT TypeOK
PROPERTIES ServesGroup Delivered HandedOver
