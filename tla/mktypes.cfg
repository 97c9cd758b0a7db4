CONSTANTS
  Tags <- MCTags
  Word <- MCWord
  Starter = 5
  LineLimit = 18
  Order <- MCOrder
  Projects <- MCProjects
  Commands <- MCCommands
  Opened = {"c"}
  MaxUpdates = 2
  MaxEdits = 1
SPECIFICATION FairSpec
INVARIANTS TypeOK FilesAsTagged FilesUpToDate NothingLost LinesFit PriorityKept
PROPERTIES WrittenInOrder OldColoursCleared UpdateEnds
CHECK_DEADLOCK FALSE
