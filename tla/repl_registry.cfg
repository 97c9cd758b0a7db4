\* Four commands on any of the Repls they may start.
CONSTANTS
  n1 = n1
  n2 = n2
  n3 = n3
  n4 = n4
  Nails = {n1, n2, n3, n4}
  MaxId = 4
  Arguments = {1, 2}
SPECIFICATION FairSpec
CHECK_DEADLOCK FALSE
INVARIANTS TypeOK OneEvaluation NoEvaluationLost
PROPERTIES ImplementsReplService CommandsEnd
