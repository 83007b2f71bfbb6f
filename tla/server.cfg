SPECIFICATION MCSpec
CONSTANTS
  Tasks = {t1}
  Cap = 3
  Absent = Absent
  FaultSets = {{}, {"restart"}, {"restart", "valkey", "bridge", "burst"}}
  Notes = {n1}
  Missing = Missing
  Sockets = {s1, s2}
  NoSocket = NoSocket
  Callers = {c1, c2}
  Length = 3
  Near = 2
  AutoFrom = 3
  GlitchSets = {{}, {"web"}}
  Schedules = {a, b}
  Polls = {p, q}
  NoPoll = NoPoll
  Crons = {{2}, {2, 3}}
  Counts = {0, 1}
  MaxMinute = 3
  MaxChanges = 2
  MaxFlaws = 1
  FlawSets = {{}, {"fail", "restart"}, {"slow", "fail"}}
  Setups = {m, n}
  DatabaseKinds = {"postgresql", "mysql"}
  TroubleKinds = {{}, {"users", "sql", "rivals"}}
INVARIANTS TypeInvariant Listed Shows TillDismissed Resumes Migrated
PROPERTIES ClientLearns ImplementsTaskLife StaysListed FinishHeard BackedUp
CHECK_DEADLOCK FALSE
