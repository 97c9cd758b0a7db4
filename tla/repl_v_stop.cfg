\* Violated: a stop that runs beside a check-out.
CONSTANTS
  n1 = n1
  n2 = n2
  n3 = n3
  Nails = {n1, n2, n3}
  MaxId = 3
  Arguments = {1, 2}
SPECIFICATION Spec
CHECK_DEADLOCK FALSE
INVARIANT StoppedIsGone
