CONSTANTS
  Tags <- MCReserved
  Word <- MCWord
  Starter = 5
  LineLimit = 18
  Order <- MCOrder
  Projects <- MCPlainProjects
  Commands <- MCPlain
  Opened = {"c", "py"}
  MaxUpdates = 1
  MaxEdits = 1
SPECIFICATION FairSpec
INVARIANT PatternsByPriority
CHECK_DEADLOCK FALSE
