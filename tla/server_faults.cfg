\* Two connections and everything that can go wrong around them.
CONSTANTS
  s1 = s1
  s2 = s2
  s3 = s3
  s4 = s4
  c1 = c1
  c2 = c2
  c3 = c3
  e1 = e1
  Hook = Hook
  NoSession = NoSession
  NoSocket = NoSocket
  Clients = {c1, c2}
  Sessions = {s1, s2, s3}
  MaxIdle = 2
  BreakOff = {}
  NailOutcomes = {"return", "exit", "stop", "interrupt"}
  Faults = {"accept", "threadStart", "bind", "signal"}
  Embedders = {e1}
SPECIFICATION Spec
CHECK_DEADLOCK FALSE
SYMMETRY Symmetry
INVARIANTS TypeOK PooledAreIdle OneHolder NoOrphan DeckIsReady NoLostWakeup IdleLimit
PROPERTY ImplementsService
