SPECIFICATION MCSpec
CONSTANTS
  Feeds = {f1, f2}
  Devices = {pinepods, phone}
  Phones = {phone}
  Own = pinepods
  Kinds = {"external", "nextcloud"}
  FaultSets = {{}, {"meanwhile", "slow", "again", "edit", "full", "first", "upload", "add", "device"}}
  MaxTime = 3
  MaxEvents = 3
  MaxFaulty = 1
  Length = 3
  Near = 3
  Page = 2
  WrongSets = {{}, {"ties", "late", "meanwhile", "fetch", "unknown", "upload"}}
  MaxClock = 4
  MaxDeeds = 3
  MaxWrong = 1
  Urls = {u1, u2, u3}
  NoUrl = NoUrl
  Workers = {w1, w2}
  MaxId = 3
  MaxTroubled = 2
  TroubleSets = {{}, {"overlap", "fail"}}
  Runs = {r1, r2, r3}
  NoFile = NoFile
  Chunks = 2
  MishapSets = {{}, {"whole", "stop"}}
  Size = 3
  Limits = {0, 2}
  Window = 2
  TripSets = {{}, {"fail"}}
INVARIANTS TypeInvariant Reconciled UploadsNews Exchanged Counted Served PlaysThrough
PROPERTIES Converges HiddenByRemoval
CHECK_DEADLOCK FALSE
