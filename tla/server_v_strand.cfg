\* Violated: a session pushed behind shutdown() stays for ever.
CONSTANTS
  s1 = s1
  s2 = s2
  s3 = s3
  s4 = s4
  c1 = c1
  c2 = c2
  c3 = c3
  e1 = e1
  Hook = Hook
  NoSession = NoSession
  NoSocket = NoSocket
  Clients = {c1}
  Sessions = {s1, s2}
  MaxIdle = 2
  BreakOff = {}
  NailOutcomes = {"return"}
  Faults = {}
  Embedders = {e1}
SPECIFICATION FairSpec
CHECK_DEADLOCK FALSE
PROPERTY ShutdownEndsSessions
