SPECIFICATION Spec
CONSTANTS
  Feeds = {f1}
  Devices = {pinepods, phone}
  Phones = {phone}
  Own = pinepods
  Kinds = {"external"}
  FaultSets = {{"upload"}}
  MaxTime = 4
  MaxEvents = 2
  MaxFaulty = 2
INVARIANT Repairable
CHECK_DEADLOCK FALSE
