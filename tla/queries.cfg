SPECIFICATION QSpec
CONSTANTS
  a = a  b = b  x = x
  i1 = i1
  t1 = t1  t2 = t2
  d1 = d1  d2 = d2
  NilID = NilID
  Blank = Blank
  EmptyURL = EmptyURL
  Identities = {i1}
  Servers = {a, b, x}
  ClusterIDs = {d1, d2, d3, d4}
  TokenProviders = {t1, t2}
  Requests = {r1, r2}
  Replicas = {}
  Readers = {q1}
  Workload <- MixedCalls
  Queries <- SomeQueries
  Configs <- NoConfigs
  Databases <- SyncDatabases
  Malformed = {x}
  Underivable = {}
  MaxSyncs = 0
  MaxFailures = 1
SYMMETRY Symmetry
INVARIANTS
  TypeOK
  QueriesTypeOK
  NoDanglingLink
  CredentialsStayWithAuth
  ListedWereLinked
  AnswersAsDocumented
PROPERTIES
  ImplementsRegistry
  EmptyMeansUnlinked
\* The requests arrive once and the syncs are bounded: when they are done, it stops.
CHECK_DEADLOCK FALSE
