\* Nails run on while shutdown(false) is executed, at any time or never.
CONSTANTS
  s1 = s1
  s2 = s2
  s3 = s3
  s4 = s4
  c1 = c1
  c2 = c2
  c3 = c3
  e1 = e1
  Hook = Hook
  NoSession = NoSession
  NoSocket = NoSocket
  Clients = {c1, c2}
  Sessions = {s1, s2, s3}
  MaxIdle = 3
  BreakOff = {c1}
  NailOutcomes = {"return", "exit"}
  Faults = {}
  Embedders = {e1}
SPECIFICATION FairSpec
CHECK_DEADLOCK FALSE
INVARIANT PoolConsistent
PROPERTIES ImplementsFairService NailsEndOrExit SessionsEndOrStrand
