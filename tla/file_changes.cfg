SPECIFICATION FairSpec
CONSTANTS
  u1 = u1  u2 = u2  u3 = u3
  t1 = t1  t2 = t2
  Missing = Missing
  NoFile = NoFile
  APIURLs = {u1, u2, u3}
  Attributes = {t1, t2}
  Underivable <- MCUnderivable
  BuiltIn <- Dev
  Contents <- MCContents
  Databases <- MCDatabases
  Launches <- MCLaunches
  OwnSettings <- Production
  FileSettings <- Preview
  MaxEdits = 2
  MaxCrashes = 1
  MaxOutages = 1
INVARIANTS
  TypeOK
  IdleMeansStored
  StaleMeansMissed
  DefaultsAreReported
PROPERTIES
  RejectedNeverStored
  EventsApply
  ServiceComesUp
\* The file may stop changing: then there is nothing more to do.
CHECK_DEADLOCK FALSE
