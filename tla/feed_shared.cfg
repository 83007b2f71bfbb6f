SPECIFICATION Spec
CONSTANTS
  Podcasts = {p1, p2}
  CutOff = {}
  Entries = {e1}
  None = none
  Jobs = {j1}
  Kinds = {"background", "user", "add"}
  Unreliable = FALSE
  Fails = FALSE
  MaxVersions = 2
PROPERTY ServesGroup
