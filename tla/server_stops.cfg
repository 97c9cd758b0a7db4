\* shutdown() and exits of the JVM, wherever the server thread is and whatever fails.
CONSTANTS
  s1 = s1
  s2 = s2
  s3 = s3
  s4 = s4
  c1 = c1
  c2 = c2
  c3 = c3
  e1 = e1
  Hook = Hook
  NoSession = NoSession
  NoSocket = NoSocket
  Clients = {c1}
  Sessions = {s1, s2}
  MaxIdle = 2
  BreakOff = {c1}
  NailOutcomes = {"return", "exit", "stop", "interrupt"}
  Faults = {"accept", "threadStart", "bind", "signal"}
  Embedders = {e1}
SPECIFICATION FairSpec
CHECK_DEADLOCK FALSE
PROPERTIES ServerStops ExitCompletes
