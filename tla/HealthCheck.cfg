\* Ticks of 5 seconds: a deadline of 10 s, a heartbeat every 30 s.
CONSTANTS
  Timeout = 2
  Frequency = 6
SPECIFICATION Spec
INVARIANTS
  TypeOK
  HealthWasSeen
