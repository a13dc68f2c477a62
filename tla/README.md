# A TLA+ model of fabric8-cluster

fabric8-cluster keeps a table of OpenShift clusters, lets other services
create, delete, list and link them to identities over HTTP, and brings the
table in line with a configuration file at startup and after every change of
that file. This directory models what concurrent requests, workers of several
replicas, failing transactions and COMMITs, a changing file, services out of
reach and crashes can do to the two tables, and what those who read them meanwhile are
told. TLC checks the models on small instances, and TLAPS proves the main results
for any number of processes, calls, configurations and databases.

## The system

| Component | State | Operations | Interacts with |
|---|---|---|---|
| schema and repositories (`migration/sql-files`, `cluster/repository`) | tables `cluster` and `identity_cluster` | find by URL, load, insert, update, delete, link, unlink, list | every other component, by SQL |
| cluster service writes (`controller/clusters.go`, `cluster/service`) | none of its own; a `repository.Cluster` per call | create or save, delete, link, unlink | repositories, transactions, authentication |
| configuration sync (`CreateOrSaveClusterFromConfig`) | the list of rows to delete, the entries left | list, save every entry, delete the rest | configuration, repositories; runs beside requests and beside the syncs of other replicas |
| configuration (`configuration`) | `clusters`, `defaultConfigurationError`, a lock | decode, fill in defaults, check, load, reload | the file, the environment, the watcher, the status |
| attributes (`Normalize`, `convert_url.go`, `validate`) | the columns of a cluster | validate, derive URLs, add slashes | configuration, requests, sync |
| configuration watcher (`InitializeClusterWatcher`) | the watch, the events, the shared variable `err` | receive an event, watch again, reload, sync | fsnotify, configuration, sync |
| transactions (`application/service/factory`, `gormapplication`) | per context the flag `inTransaction` and the field `transactionalRepositories`; per call a channel, a timer, a goroutine; the connections | begin, run, commit, roll back, time out | service, repositories |
| reads and redaction (`cluster_service.go`, `controller/user.go`) | none | list, load, find, with or without credentials | repositories |
| startup and status (`main.go`, `controller/status.go`) | none | connect, migrate, sync, watch, get the keys, serve; report | all of them |

What is hard about it:

- *A save is several statements.* `CreateOrSave` looks a cluster up by URL and
  then writes by primary key. Between the two, others may insert, update or
  delete the row; gorm's `Save` then goes on with `FirstOrCreate`.
- *Some reads are outside the transaction they matter to*: the token provider
  ID of a blank create, the cluster and the existing link of a link request, the
  list of clusters to delete of a sync.
- *Replicas overlap* during a rolling update, each with a worker that syncs its
  own copy of the configuration.
- *URLs come with and without a trailing slash*; the tables hold them with it.
- *The file changes while it is loaded, watched and reloaded*, and a file that
  is removed takes its watch with it.
- *An operation runs in a goroutine* its caller stops waiting for after five
  minutes, and finds its transaction through a context the caller uses again.
- *Errors are logged and dropped* in a sync's deletes and in the watcher, and
  dropped without a word at COMMIT, so that "created", "linked" and a sync's nil
  may be untrue.
- *A file that passes the check may still be one no sync can store*, because
  `Normalize` derives URLs from a host name nobody looked at.
- *A user's listing is two SELECTs* with nothing around them.
- *Entries of a file may lack, blank or repeat what others have*, and defaults are
  filled in by index and name.

What makes the components correct: a server has one row; a link leads to a row;
a remembered ID never stands for another cluster; an answer is true when it is
given; a sync deletes nothing its configuration has and ends with what it has; a
rejected configuration never reaches the database; no default goes unreported;
credentials are for the auth service; every call is answered.
PROJECT.json lists each hazard at its line, with the properties that would catch
it.

## The modules

| Module | What it is |
|---|---|
| `ClusterStore` | the two tables as sets of rows, the SQL statements as operators on them, the constraints the migrations leave |
| `ClusterService` | requests and sync workers over that store, one SQL statement per action |
| `ClusterServiceProperties` | their properties, and the mapping to `Registry` |
| `ClusterQueries` | `ClusterService` with readers beside it, one SELECT per action |
| `ClusterQueriesProperties` | their properties, and the answers the design documents |
| `ClusterQueries_proofs` | type correctness, three invariants and an action property of the readers |
| `Registry` | what clients are promised: clusters by URL, links by identity and URL, four atomic operations |
| `ClusterService_proofs` | type correctness, the inductive invariant, the invariants |
| `ClusterServiceSteps_proofs` | two more invariants, whose step a step is, and three action properties |
| `ClusterServiceRefinement_proofs` | `ClusterService` implements `Registry` |
| `ClusterServiceSync_proofs` | overlapping syncs converge, and every call comes to an end |
| `ConfigWatcher` | one replica, its startup, its watcher goroutine and its file, over the `Registry` |
| `ConfigWatcherProperties` | their properties |
| `ConfigWatcher_proofs` | type correctness, three invariants and an action property of it |
| `ClusterAttributes` | the columns of a cluster from file or payload to table |
| `ClusterAttributesProperties` | their properties |
| `ClusterAttributes_proofs` | type correctness and all its other properties |
| `ServiceContext` | `ExecuteInTransaction`: callers, goroutines, timeouts, transactions, connections |
| `ServiceContextProperties` | their properties |
| `AtomicOperations` | what they are promised: operations that take effect at once or not at all |
| `ServiceContext_proofs` | type correctness, three invariants, and that it implements `AtomicOperations` |
| `MCClusterService`, `MCClusterQueries`, `MCConfigWatcher`, `MCClusterAttributes`, `MCServiceContext` | instances for TLC |

`ConfigWatcher` uses the actions `Register` and `Deregister` of `Registry` as its
database, which is what `ClusterService` is proved to implement. `ClusterService`
takes its transactions to happen in one step or to fail; `AtomicOperations` is that
promise, and `ServiceContext` is proved to implement it.

### ClusterStore and ClusterService

A URL is a server and whether the text ends with a slash: the code looks at
nothing else (`AddTrailingSlashToURL`). The token provider ID stands for all
attributes of a cluster, being the only one the service computes from what is
stored. UUIDs are members of `ClusterIDs`; `uuid.NewV4` returns one that was not
handed out before (`issued`).

The process of a request is at `pc[r]`, the worker of a replica at `pc[w]`. The
labels are the statements: `lookup` (validate's search for the token provider
ID), `find`, `update`, `first`, `insert` (CreateOrSave, update and gorm's Save),
`load`, `delete`, `link.find`, `link.load`, `link.insert`, `unlink`, and `next`
and `purge` (the two loops of a sync). `obj[p]` is the `repository.Cluster` a
process holds, so that what it read in an earlier statement stays as it was.
`call`, `answer` and `sync` are the parameters, the HTTP result and the local
variables of a sync.

*One statement, one step.* PostgreSQL runs a statement atomically at READ
COMMITTED, and the service never asks for another level. Every transaction of
the service writes by its last statement only, so the statement and the commit
are one step; nobody can see the rows in between, and a writer that has to wait
for a row lock or an index entry takes its step when the wait is over. A
rollback, a lost connection or a timeout before COMMIT is `Fail`: the tables stay
and the call gets its error (which a sync drops if it is that of a DELETE). A COMMIT
that fails is `LoseCommit`: the tables stay too, and the call goes on as if they did
not, because `ExecuteInTransaction` ignores what `tx.Commit` returns. `swallowed`
remembers the workers whose sync dropped an error of either kind. `NormalizeFails`
answers 400, as `convert_url.go` says. What gorm's `Save` does after an UPDATE of no row
(`FirstOrCreate`), what `uuid` and `httpsupport` do, is modelled from how the
code uses them.

A replica that dies in a sync is a worker whose sync ended with an error; it may
sync again. A configuration is a set of entries, taken in any order, as Go's maps
are; it may name a server twice, with and without its slash. It is never empty,
because `checkClusterConfig` refuses an empty one.

### ClusterQueries

A reader at `qpc[r]` receives one of the seven reading calls, is refused, or sends
its SELECT and answers. Credentials are the token provider ID, which stands for all
seven fields the service blanks (`Hide`); the controller converts to one of two
types of data by the endpoint. `ListClustersForIdentity` is `SelectLinks` and
`PreloadClusters`: gorm runs them one after the other, outside any transaction, and
leaves the `Cluster` of a link whose row it does not find as it was made
(`EmptyEntry`). `seen` remembers the rows the links led to at the first SELECT, so
that the properties can say whether the second told of the same clusters. `QNext`
is `Next` of `ClusterService` with the readers standing still, or a reader's step.

### ConfigWatcher

`pc.main` goes through `main` (`stat`, `read`: load the file; `connect`: open the
database again and again; `migrate`; `list`, `save`, `purge`: the first sync;
`watch`, `add`, `return`: `InitializeClusterWatcher`; `secure`: the token manager,
which fetches the auth service's keys; `serving`), `pc.watcher`
through the goroutine's loop. A path is looked at (`Stat`) and read (`Read`) in two
steps, as in `readFromJSONFile`; in between the file may vanish. `Remember` keeps
the order of `initClusterConfig`: the error message, the clusters, and only then
the check. `err` is the variable that the goroutine shares with
`InitializeClusterWatcher`. `Exit` is a panic or the end of the process:
everything but the file and the database is lost.

`launch` is how the service is started: where the main configuration file and the
clusters' file are named. `configFileFromFlags` returns a path only if the
environment has it; `settings` are those of the main file if that is named so, and
those of the environment and the defaults otherwise. `SettingsMessages` is what
`NewConfigurationData` finds wrong with them, `configError` the messages collected,
which only grow, and `StatusOK` what `GET /api/status` makes of them.

The environment writes the file in place, replaces it (what an update of the
mounted secret does: the old file is removed), removes it and creates it; `missed`
remembers that it did so while nothing watched. A service that starts without the
file uses the built-in configuration, whose path is not there to be watched; one
that was started with a named file ends if it is not there, and takes the path for
the default at a reload. fsnotify delivers every event of a file it watches, and
the watch ends with the file. The database and the auth service may go out of reach
(`reachable`) between any two steps: main retries to open the database, panics at the
migration, in its sync and at the token manager, and the goroutine logs the failure.
If the database is lost at the COMMIT of a save, the sync goes on (`LoseCommit`), and
`failed` remembers it, as it does a delete that failed. An entry in `Underivable`
passes the check and cannot be saved, because `Normalize` finds no host to derive a
URL from: a sync that comes to it fails with the database in reach (`SyncFails`), at
every start. `Usable` contents are those that pass the check, `Applicable` ones those
a sync can store as well. What two processes do to the database at once
is left to `ClusterService`; here nobody else writes to it.

### ClusterAttributes

A cluster is a function from the keys of the file to values. An entry of a file is
a function on some of them, so that "left out" and "empty" differ, as they do for
`AssignedFields`. A URL is whether it has a scheme, the first label of its host, the
rest (a domain, `OneLabel` for none, `NoHost`, or `Malformed` if it cannot be parsed),
a path and a slash: what `validateURL`, `ConvertAPIURL` and `AddTrailingSlashToURL`
look at. A URL without a scheme is refused in a payload, and one can be derived from
it all the same; nothing is parsed if nothing is to be derived. `decodeClusters`,
`checkClusterConfig`, `Normalize`, `Valid` are operators; `Load`, the steps of a
sync, `Create` and `Delete` are the actions that use them. A save is one step
here, its statements being `ClusterService`'s. `written` remembers what each
stored cluster was written from; `StoredAsGiven` compares the two without the
decoder's and `Normalize`'s operators.

### ServiceContext

`caller[k]` is where call `k` of `ExecuteInTransaction` is (`begin`, `flag`,
`field`: the lines up to the start of the goroutine; `select`; `commit` or
`rollback`; `leave`: the deferred `endTransaction`), `goroutine[k]` where the
operation is. `Repositories()` reads the flag and then the field, in two steps
(`ReadFlag`, `ReadField`), because a goroutine that was late reads them while the
caller, or its next call on the same context, writes them. `repository[k]` is what
it got: the transaction of a call, or `Pool`, where every statement stands for
itself. A statement is sent and answered in two steps (`SendStatement`, then
`Succeed` or `Refuse`), since COMMIT and ROLLBACK wait for one on their
connection; the last statement of an operation writes, as in `ClusterService`. An
aborted transaction (a violated constraint, a lost connection) refuses everything
and its COMMIT, whose error nobody reads, leaves nothing.

The contexts of requests serve one call; that of the watcher's syncs serves one
call after another, so `Calls` are numbered. Each of the transactions that
`ClusterService` takes to happen or fail is a call here: `StoredMeansToldSo` is
what justifies that `Fail` leaves the tables as they are, `ToldSoMeansStored` that
`LoseCommit` is the only way to be told of a success that did not happen, and
`ImplementsOperations` that a transaction is one step, with the one exception they
name. `AtomicOperations`
has four actions: an operation begins, takes effect, returns, or takes effect after it
was given up (`TakeEffectLate`). A call is `running` from `Call` to `Leave` or
`BeginFails`; its effect is COMMIT. An operation that has not even asked for its repositories when its five
minutes are over is stored outside any transaction or with the next call.
`ClusterService` does not have that exception.

## What the runs show

| Run | Instance | Shows |
|---|---|---|
| `queries` | 2 requests of any kind, also refused ones, one failure, and a reader | types, no dangling link, every step is a step of the registry; credentials go to auth only, answers are documented ones, a listing tells of the clusters that were linked |
| `racing_requests` | 2 requests and a sync of one of three configurations, on servers that can and that cannot be saved, one failure, fair | one row per server, "created" and "linked" are true when answered unless their own COMMIT failed, stale IDs are harmless, a sync deletes nothing that is configured and leaves the rest as configured, every step is a step of the registry and advances a call, every call ends |
| `replicas_sync` | 2 replicas, 2 syncs each, 2 configurations, one of which names a server twice, one failure | replicas that agree at last, and dropped no error, leave exactly their configuration; no sync deletes what it configures, one row per server |
| `file_changes` | 4 ways to be started, 6 contents, 2 changes of the file, one crash, one outage of the database or of auth, fair | events lead to the database the file asks for; only unwatched changes are missed; rejected contents never reach the database; no default is hidden; the service comes up |
| `late_goroutines` | 3 calls on 2 contexts, 1 connection, 2 statements each, one failure, fair | operations keep to their transaction and are atomic, callers are told the truth and return, goroutines end |
| `attributes` | 9 files and 10 payloads, in any order, any number of times | what is stored is complete, as given, and stays when it is saved again |
| `link_twice` | violation | ignoring an existing link fails when the link is created meanwhile |
| `blank_token` | violation | a blank token provider ID overwrites a stored one |
| `failed_delete` | violation | a sync whose delete failed reports success |
| `lost_commit` | violation | a create whose COMMIT failed is answered "created" |
| `missed_update` | violation | a file removed for too long is never watched again |
| `shared_error` | violation | a reload that fails during a start makes main panic |

*Bounds.* Two requests and a worker are three writers: enough for a save that
finds its row gone, another that put it back, and the delete between them, which
is the longest chain one call can meet (`find`, `update`, `first`, `insert`). The
databases hold no, one or two clusters, with and without links, and those of
`replicas_sync` at least one, of which the syncs make the others. There are as
many free UUIDs as the processes can take, so no behaviour is cut off for want of
one. `MaxSyncs` is two where the question is what an earlier sync leaves to a
later one. Any statement and any COMMIT may fail; `SyncedMeansConfigured` leaves out
the syncs that dropped an error (`swallowed`), and `failed_delete` and `lost_commit`
show what those leave behind. `MaxFailures` is one: each failure is independent of the others, and
the code keeps no count of them. The file changes at most twice
(`MaxEdits`) in `file_changes`: removed and created again is what it takes to replace
it behind the back of the goroutine, in any step of a start or of a reload. In
`missed_update` it is written a third time, which is the update that gets lost. One
crash and one outage, or one lost COMMIT, fall into every step of a start and of a
reload; a second one meets the same states. `attributes` has a file and a payload for every
branch of the decoder, the check, the validation and `Normalize`, and no bound on
how often they are used. In `late_goroutines` two calls on one context are what a late goroutine of
the first can disturb, the call on another context what it must not, and one
connection is the pool at its limit; the second statement is the one that finds
its transaction gone. Requests arrive once and syncs and edits are bounded, so these models stop,
and the runs do not check for deadlock (`attributes` does: it never stops);
`EveryCallReturns`, `EventsApply` and
`ServiceComesUp`, `CallersReturn` and `GoroutinesEnd` say what must not stop before its end. Symmetry (of requests,
replicas and unused UUIDs) is used in runs without liveness properties only.

*Fairness.* A goroutine that has begun a call and can take its next step does so:
`RunRequest` and `RunSync` are weakly fair for every process, as are `Main` and
`Watcher`. In `ServiceContext` callers go on (the timer among what they wait for),
the database answers, and a result that can be sent is sent; an operation may stop
between two statements for ever, so that `CallersReturn` rests on the timeout
alone. A statement that waits for a lock is not a state of the model: no
transaction holds one across two statements. Starting again is part of `Main`,
because the deployment says `restartPolicy: Always`. Nothing makes requests
arrive, files change, statements fail, services come back or processes die.
`EventsApply` speaks of a database that stays in reach, `ServiceComesUp` of an auth
service that does too, and both of contents a sync can store.

## What is proved

The proofs about `ClusterService` and `ClusterQueries` are from `StoreAssumption` and
`ServiceAssumption` alone: the nil ID is
no UUID, a blank is no token provider ID, calls and configurations are of their
types, configurations are not empty, and the databases the service starts on are
what the migrations leave. The sets may have any size, and the bounds any value.
Those about `ServiceContext` are from `ContextAssumption`: calls are numbered and
belong to contexts, and there is a statement and a connection. Those about
`ConfigWatcher` are from `WatcherAssumption`: the built-in configuration passes the
check and can be stored, and the database the service first meets has no incomplete cluster.
`DefaultsAreNeverHidden` also needs that no file holds exactly the clusters of the
binary (`OwnContents`), because nothing could tell the two apart. Those about
`ClusterAttributes` are from `AttributesAssumption`: files are lists of objects,
payloads have what the design requires, and a blank or mistyped value is no other.

| Theorem | Says |
|---|---|
| `TypeCorrect` | `Spec => []TypeOK` |
| `LinksHaveClusters` | `Spec => []NoDanglingLink` |
| `ServersAreUnique` | `Spec => []OneClusterPerServer` |
| `StaleIDsNeverMislead` | `Spec => []StaleIDsAreHarmless` |
| `SyncNeverDeletesConfigured` | `Spec => SyncKeepsConfigured` |
| `CreatedClustersAreStored` | `Spec => CreatedIsStored` |
| `LinksAreReal` | `Spec => LinkedMeansLinked` |
| `ImplementsTheRegistry` | `Spec => ImplementsRegistry` |
| `SyncsConverge` | `Spec => []SyncedMeansConfigured` |
| `CallsComeToAnEnd` | `Spec => EveryStepAdvances` |
| `ContextsTyped` | `Spec => []TypeOK` of `ServiceContext` |
| `OperationsKeepToTheirTransaction` | `Spec => []OwnTransaction` |
| `RefusedOperationsLeaveNothing` | `Spec => []StoredMeansToldSo` |
| `AcceptedOperationsAreStored` | `Spec => []ToldSoMeansStored` |
| `OperationsAreAtomic` | `Spec => ImplementsOperations` |
| `QueriesTyped` | `QSpec => []QueriesTypeOK` |
| `CredentialsToAuthOnly` | `QSpec => []CredentialsStayWithAuth` |
| `ListsAreOfLinkedClusters` | `QSpec => []ListedWereLinked` |
| `EmptyEntriesAreUnlinked` | `QSpec => EmptyMeansUnlinked` |
| `ClientsGetDocumentedAnswers` | `QSpec => []AnswersAsDocumented` |
| `WatcherTyped` | `Spec => []TypeOK` of `ConfigWatcher` |
| `IdleServiceIsSynced` | `Spec => []IdleMeansStored` |
| `NoEventIsLost` | `Spec => []StaleMeansMissed` |
| `RejectedIsNeverStored` | `Spec => RejectedNeverStored` |
| `DefaultsAreNeverHidden` | `Spec => []DefaultsAreReported` |
| `AttributesTyped` | `Spec => []TypeOK` of `ClusterAttributes` |
| `StoredClustersAreComplete` | `Spec => []StoredIsComplete` |
| `StoredClustersAreAsGiven` | `Spec => []StoredAsGiven` |
| `SavingAgainChangesNothing` | `Spec => []SavedAgainTheSame` |

*The argument.* `Inv` is `Typed`, `TablesOK`, `SlashesOK` and `IDsOK`. `Typed` adds
to `TypeOK` what a process holds at each label: an object before an insert has an
ID and a token provider ID. `TablesOK` is the schema: keys, the unique URL, the
slash, the foreign key. The UPDATE of a save is not refused by anything in the
model, and it writes the URL too: that it cannot give two rows one URL, or change
a row's URL, has to follow from elsewhere. It follows from `IDsOK`: an ID, wherever
it is (in the table, in an object found before, in a list to delete), stands for
one URL, and was issued. Rows that were deleted and come back under their old ID
come back with their old URL. `SlashesOK` says these URLs have their slash, so
that equal servers mean equal URLs. For the action properties, `PurposeOK` says
that a request still works on the URL it was called with, and `SyncOK` that no
entry already seen is on the list to delete; `Keep` takes off the first match
only, and that is all of them because the list has one row per URL.

The refinement maps a row to its URL and attributes and a link to its identity
and URL. Only UPDATE, INSERT and DELETE of either table change the mapped state;
`IDsOK` makes an UPDATE re-register the URL it was found by, and a link lead to the
URL it was asked for. Every other step is a stutter.

That overlapping syncs converge is an account of debts. Take a configuration and a
URL the API did not touch. A worker *owes* the URL (`Owes`) if its last sync applied
another configuration or failed, or if it has the URL still before it: as an entry to
take, as the one it is saving, or as a row on its list to delete. The invariant
(`Debts`) is that a URL is as configured, or some worker owes it, or none ever synced.
A step of one worker changes the rows of one URL, and then either makes it as
configured or owes it itself, because it applies something else (`Pays`, one lemma per
statement); the debts of the others go on, since a debt is about what a worker will do,
not about the rows it saw. The exceptions make the definition: a row on a list counts
by its ID, so that a worker that finds it gone owes nothing, and after an UPDATE of no
row (`first`) a worker owes only while the row stays away, because FirstOrCreate
writes nothing when another brought it back, who then owes it. When the last sync of
every worker returned without an error and applied one configuration, nobody owes. A
DELETE or a COMMIT whose error is dropped would be a debt nobody remembers; the
invariant is therefore claimed while `swallowed` is empty (`NothingSwallowed`), and a
worker leaves `swallowed` when it syncs again, because then it owes everything anew.

`EveryStepAdvances` is the variant behind termination: ordered by the entries a sync
has still to take, then by its rows, then by `StatementsLeft`, every step takes one
call down and leaves the others, or begins one of the `MaxSyncs` syncs. With finitely
many requests, entries and rows no behaviour goes on for ever.

For `ServiceContext`, `ContextOK` says that a call in its transaction finds its own
context saying so: the flag is set and the field leads to it, because an earlier
call on the context has returned and a later one has not begun. `ControlOK` says
that a goroutine which is not at its end is awaited or was timed out. From both, an
operation that reads anything but its own transaction was timed out.
`WritesOK` ties what is written to the repository it went through, so that a
COMMIT stores only what its own caller is told, or what late operations wrote.
`ToldOK` follows a result the other way: one that is in the channel, in time and
without an error, stands for a goroutine that sent all its statements and whose
writes wait in its transaction, until COMMIT stores them or the transaction was
aborted before. The refinement to `AtomicOperations` adds `LateOK`, that an operation
gets a repository of others only after its call returned, and `WrittenOK`, that what is
committed has the caller's own operation in it.

For the readers, every lemma about a step of `ClusterService` also proves
`KeepsMeaning`: an ID that was issued before the step stands for the same URL after
it, and one that was not stood for nothing. A listing holds the IDs of its first
SELECT until its second; `KeepsMeaning` is what makes the rows it then finds those
of the same clusters, and the foreign key what makes a missing row mean that the
links are gone.

For `ConfigWatcher`, `OneSync` says that main and the goroutine never sync at once,
`Checked` that what is being synced passed the check. `HalfSynced` relates the
database to what a sync has done so far: a loaded cluster is stored or about to be
saved, a stored one is loaded or about to be deleted, unless a COMMIT or a delete
failed. When
nothing is left to do, that is equality, because the database has one cluster per
URL (`Settled`). `Fresh` says that with no event to come and no change missed the
last look at the path is still true, and `Reported` that what is wrong was said.

For `ClusterAttributes`, `Loaded` says that the clusters in memory are those of the
remembered file, so that each is the last object for its URL (`LastObjectIsRead`);
`Syncing` that those of a running sync passed the check. `NormalizeMakesRows` and
`NormalizeKeepsPromises` say what `Normalize` makes of any such cluster or payload,
and `RowsStay` that a second time changes nothing. `OnePerURL` is needed for a
deletion to forget one writer only.

For the answers of requests and readers, the step in which a call is answered is one
of its own process (`Alone`), and each such step gives an answer its label allows.

*Model-checked only*: liveness (`EveryCallReturns`, `EventsApply`, `ServiceComesUp`,
`CallersReturn`, `GoroutinesEnd`), which needs fairness and ENABLED and is outside the
prover's reach. Of `EveryCallReturns`, `CallsComeToAnEnd` proves that no call goes on
for ever; that it is not stuck is left to TLC. Every invariant and every other property
of the passing runs is the statement of a theorem.

## What is not modelled

- *Transactions*: isolation levels, which are never set; calls of
  `ExecuteInTransaction` from inside one, which are never made; `Transactional`
  (`transaction.go`), the same protocol without a context, called by tests only.
- *The main configuration file*: that it cannot be read, and the switches
  `-printConfig` and `-migrateDatabase`, after which the process ends.
- *Columns without a rule of their own*: the credentials besides the token and the
  token provider ID, and whether the capacity is exhausted.
- *Dead code*: `CheckExists`, `GetClusterByURL` and the sentry client, which nothing
  in the service calls.
- *String work*: parsing of URLs and JSON; what the code tells apart in them is in
  `ClusterAttributes`. IDs in a request are well formed: goa answers 400 to others
  before the service sees them.
- *Which row a sync deletes, in `ClusterAttributes`*: `Purge` deletes by URL, where the
  code deletes by the ID it listed; what becomes of such an ID while others write is
  in `ClusterService` (`StaleIDsAreHarmless`, `SyncedMeansConfigured`).
- *Renames of the file*: fsnotify reports them, and the code ignores them.
- *An answer of the database that is lost after it took effect*: to a COMMIT, whose
  error nobody reads, it makes no difference; to the DELETE of the API, which runs
  outside a transaction, it would be an error for a delete that was done.
- *Migration*: run by fabric8-common under an advisory lock before anything else;
  its result is `WellFormed`, where the models start.
- *Authentication*: tokens and keys are fabric8-common's; a call carries the
  account its token was issued to.
- *sentry, logging, metrics, media types and generated code*: no state depends on them.

## Findings

The six violations are disagreements between the code and what a comment, a test
or the design says of it; PROJECT.json quotes both sides. Four more were met while
modelling and have no run:

- An unlink compares the URL as the caller wrote it with the stored one
  (`identity_cluster.go:110`), which ends with a slash, where
  `cluster_repository.go:161` says to "make sure that the URL to use during the search
  also has a trailing slash", and link does so: a link made with `https://api.x` is
  answered "not found" by the unlink with the same URL, and stays (`DeleteLink`).
- `configFileFromFlags` (`main.go:222`) returns no path when the switch is given, and
  its result replaces the switch: `-config`, which `docker-compose.yml` uses, has no
  effect (`launch` has such a start).
- `initClusterConfig` replaces the clusters in memory before it rejects them
  (`configuration.go:168`), where `cluster_service.go:340` speaks of keeping the
  existing configuration. `RejectedNeverStored` says why the database is safe.
- A clusters' file that is named by the environment is reported as if the default
  were used, because `etcJSONConfigUsed` stays false (`configuration.go:219`): such a
  service answers 503 outside developer mode (`Remember`).

## Plan

`ServiceContext` and `ClusterService` in one model: a transaction of `ClusterService`
as a call of `ServiceContext`, so that a late operation is one of a known cluster.

## Running it

`tlc -config <run>.cfg <module>` for each run of PROJECT.json, `tlapm <module>.tla`
for the eight proof modules. The definitions named `X_...` that follow the comment
"Mutant" are plausible bugs of `X`; PROJECT.json says which property each of them
breaks when it takes the place of `X`.
