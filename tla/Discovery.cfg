CONSTANTS
  Cluster <- MCCluster
  Namespaces = {"a", "b"}
  Texts <- MCTexts
  Key = {app, tier}
  Value = {web, db}
  Name = {n1, n2}
SPECIFICATION Spec
CHECK_DEADLOCK FALSE
INVARIANTS
  TypeOK
  RoundTrip
  AcceptsExactly
  LinksReachTheirObjects
  SearchesFindWhatIsMeant
