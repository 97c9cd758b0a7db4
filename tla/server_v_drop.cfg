\* Violated: shutdown drops a socket that was handed over.
CONSTANTS
  s1 = s1
  s2 = s2
  s3 = s3
  s4 = s4
  c1 = c1
  c2 = c2
  c3 = c3
  e1 = e1
  Hook = Hook
  NoSession = NoSession
  NoSocket = NoSocket
  Clients = {c1}
  Sessions = {s1, s2}
  MaxIdle = 2
  BreakOff = {}
  NailOutcomes = {"return"}
  Faults = {}
  Embedders = {e1}
SPECIFICATION Spec
CHECK_DEADLOCK FALSE
PROPERTY HandedSocketIsTaken
