CONSTANTS
  Namespace = {n1, n2}
  Errors = {"net", "other"}
  RestartCapacity = 2
  MaxChanges = 2
  MaxCloses = 1
  MaxNoise = 0
SPECIFICATION Spec
CHECK_DEADLOCK FALSE
INVARIANTS
  TypeOK
  NeverSilentlyStale
  ServesUnlessRaced
  StartsFromClean
  PollsUnlessRaced
  GivesUpForCause
  GoneIsAnnounced
  EventsOnceInOrder
  IInv
PROPERTIES
  ImplementsLifecycle
SYMMETRY Symmetry
