SPECIFICATION Spec
CONSTANTS
  a = a  b = b  x = x
  i1 = i1
  t1 = t1  t2 = t2
  d1 = d1  d2 = d2
  NilID = NilID
  Blank = Blank
  Identities = {i1}
  Servers = {a, b, x}
  ClusterIDs = {d1, d2, d3, d4}
  TokenProviders = {t1, t2}
  Requests = {}
  Replicas = {w1}
  Workload <- MixedCalls
  Configs <- OneConfig
  Databases <- SyncDatabases
  Malformed = {}
  Underivable = {}
  MaxSyncs = 1
  MaxFailures = 1
INVARIANTS
  OthersAreDeleted
\* The requests arrive once and the syncs are bounded: when they are done, it stops.
CHECK_DEADLOCK FALSE
