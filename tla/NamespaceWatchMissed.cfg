CONSTANTS
  Namespace = {n1, n2}
  Errors = {}
  RestartCapacity = 2
  MaxChanges = 2
  MaxCloses = 1
  MaxNoise = 0
SPECIFICATION Spec
CHECK_DEADLOCK FALSE
INVARIANTS
  CurrentWhenSettled
SYMMETRY Symmetry
