SPECIFICATION FairSpec
CONSTANTS
  a = a  b = b  x = x
  i1 = i1
  t1 = t1  t2 = t2
  d1 = d1  d2 = d2
  NilID = NilID
  Blank = Blank
  Identities = {i1}
  Servers = {a, b, x}
  ClusterIDs = {d1, d2, d3, d4, d5}
  TokenProviders = {t1, t2}
  Requests = {r1, r2}
  Replicas = {w1}
  Workload <- RacingCalls
  Configs <- RacingConfigs
  Databases <- SyncDatabases
  Malformed = {}
  Underivable = {x}
  MaxSyncs = 1
  MaxFailures = 1
INVARIANTS
  OneClusterPerServer
  StaleIDsAreHarmless
  SyncedMeansConfigured
PROPERTIES
  SyncKeepsConfigured
  ImplementsRegistry
  CreatedIsStored
  LinkedMeansLinked
  EveryStepAdvances
  EveryCallReturns
\* The requests arrive once and the syncs are bounded: when they are done, it stops.
CHECK_DEADLOCK FALSE
