\* Two attempts, so that one can fail or be replaced, and three goroutines that release.
SPECIFICATION Spec
CONSTANTS
  db = db
  client = client
  cluster = cluster
  foreign = foreign
  unset = unset
  c1 = c1
  c2 = c2
  c3 = c3
  Pools <- MCPools
  Clients <- MCClients
  Supported <- MCSupported
  Clustered <- MCClustered
  Nils <- MCNils
  Callers <- MCCallers
  MaxSetups = 2
  MaxNodes = 2
INVARIANTS OnePoolThatDials FailureLeavesNoHook CleanupMeansReleased
PROPERTIES ImplementsLease ReleasesEnd
CHECK_DEADLOCK FALSE
