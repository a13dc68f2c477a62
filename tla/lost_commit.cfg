SPECIFICATION Spec
CONSTANTS
  a = a  b = b  x = x
  i1 = i1
  t1 = t1  t2 = t2
  d1 = d1  d2 = d2
  NilID = NilID
  Blank = Blank
  Identities = {i1}
  Servers = {a, b, x}
  ClusterIDs = {d1, d2, d3}
  TokenProviders = {t1, t2}
  Requests = {r1}
  Replicas = {}
  Workload <- RacingCalls
  Configs <- NoConfigs
  Databases <- SomeDatabases
  Malformed = {}
  Underivable = {}
  MaxSyncs = 0
  MaxFailures = 1
PROPERTIES
  CreatedForLaterUse
\* The requests arrive once and the syncs are bounded: when they are done, it stops.
CHECK_DEADLOCK FALSE
