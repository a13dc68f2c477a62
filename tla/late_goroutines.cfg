SPECIFICATION FairSpec
CONSTANTS
  worker = worker  request = request
  None = None  Pool = Pool
  Contexts = {worker, request}
  Calls = {1, 2, 3}
  Owner <- MCOwner
  Statements = 2
  MaxOpen = 1
  MaxFailures = 1
INVARIANTS
  TypeOK
  OwnTransaction
  StoredMeansToldSo
  ToldSoMeansStored
PROPERTIES
  ImplementsOperations
  CallersReturn
  GoroutinesEnd
\* Every call is made once: after the last one has returned nothing is left to do.
CHECK_DEADLOCK FALSE
