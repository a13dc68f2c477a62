SPECIFICATION Spec
CONSTANTS
  a = a  b = b  x = x
  i1 = i1
  t1 = t1  t2 = t2
  d1 = d1  d2 = d2
  NilID = NilID
  Blank = Blank
  Identities = {i1}
  Servers = {a, b, x}
  ClusterIDs = {d1, d2, d3, d4, d5, d6, d7}
  TokenProviders = {t1, t2}
  Requests = {}
  Replicas = {w1, w2}
  Workload <- MixedCalls
  Configs <- TwoConfigs
  Databases <- LinkedDatabases
  Malformed = {}
  Underivable = {}
  MaxSyncs = 2
  MaxFailures = 1
SYMMETRY Symmetry
INVARIANTS
  OneClusterPerServer
  SyncedMeansConfigured
PROPERTIES
  SyncKeepsConfigured
\* The requests arrive once and the syncs are bounded: when they are done, it stops.
CHECK_DEADLOCK FALSE
