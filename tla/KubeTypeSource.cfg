CONSTANTS
  Worker = {w1, w2}
  Name = {x, y}
  Cluster <- MCCluster
  Namespaces = {"a", "b"}
  Duration = 1
  MaxChanges = 1
  MaxCalls = 2
SPECIFICATION Spec
CHECK_DEADLOCK FALSE
INVARIANTS
  TypeOK
  UncachedAnswersAreCurrent
  AnswersWereTrue
PROPERTIES
  NothingForgotten
  ImplementsService
SYMMETRY Symmetry
