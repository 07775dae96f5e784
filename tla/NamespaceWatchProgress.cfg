CONSTANTS
  Namespace = {n1}
  Errors = {"net", "other"}
  RestartCapacity = 1
  MaxChanges = 1
  MaxCloses = 1
  MaxNoise = 1
SPECIFICATION FairSpec
CHECK_DEADLOCK FALSE
PROPERTIES
  EventuallyCurrent
  SignalExits
  WatchRecoversOrExits
