CONSTANTS
  Namespace = {n1}
  Errors = {"other"}
  RestartCapacity = 1
  MaxChanges = 1
  MaxCloses = 1
  MaxNoise = 0
  FailureThreshold = 3
SPECIFICATION FairSSpec
INVARIANTS
  TerminationIsHeard
PROPERTIES
  ServesOrIsReplaced
  ImplementsLifecycles
