--------------------------- MODULE ConfigWatcher ---------------------------
(***************************************************************************)
(* One replica of the service and its configuration: the startup (find the  *)
(* files, load them, connect to the database, sync it, watch the clusters'  *)
(* file, serve), the goroutine that reloads that file and syncs when it is  *)
(* told of a change, the file itself, which others write, replace and       *)
(* remove meanwhile, and the database and the auth service, which may be    *)
(* out of reach.                                                            *)
(*                                                                          *)
(* The database is the abstract Registry, which ClusterService implements;  *)
(* a sync saves and deletes one cluster at a time.  API requests and other  *)
(* replicas are left to ClusterService.  The file is what is at the path    *)
(* the service uses, be it the default or a named one; what fsnotify does   *)
(* is modelled from how the code uses it, and it loses no event of a file   *)
(* it watches.                                                              *)
(***************************************************************************)
EXTENDS Naturals, Sequences

CONSTANTS APIURLs, Attributes,
          Missing,        \* the attributes of an entry without a required key
          Underivable,    \* the entries from whose host a URL is needed and has none
          NoFile,         \* no file at the path
          BuiltIn,        \* the configuration in the binary
          Contents,       \* what may be written to the file
          Databases,      \* what the database may hold at first
          Launches,       \* how the service may be started
          OwnSettings,    \* the settings without a main configuration file
          FileSettings,   \* the settings with the one that is named
          MaxEdits,       \* bound: changes of the file
          MaxCrashes,     \* bound: times the process is killed
          MaxOutages      \* bound: times the database or auth goes out of reach

Entries == [url : APIURLs, attributes : Attributes \cup {Missing}]

\* The map initClusterConfig makes of the entries: one per URL.
Decodable == {c \in SUBSET Entries : \A d, e \in c : d.url = e.url => d = e}

\* A configuration: whether it can be parsed and decoded, and what that gives.
Configurations == [decodes : BOOLEAN, clusters : Decodable]

\* What checkClusterConfig lets pass.
Accepted == {c \in Decodable : c # {} /\ \A e \in c : e.attributes # Missing}

\* What the check lets pass, though a sync cannot save an underivable entry.
Usable == {c \in Configurations : c.decodes /\ c.clusters \in Accepted}

\* The settings the status depends on: of the environment variables, of the
\* main configuration file, and for the rest the defaults.
Settings == [developerMode : BOOLEAN,
             password : {"default", "own"},
             environment : {"local", "prod-preview", "production"},
             clusterServiceURL : {"not set", "empty", "invalid", "valid"},
             authURL : {"not set", "empty", "invalid", "valid"},
             sentryDSN : {"", "set"}]

\* Where the two files are named, the main one and the one with the clusters.
Switches == {"config", "osoClusterConfigFile"}
LaunchKinds == [Switches -> {"nowhere", "environment", "switch"}]

ASSUME WatcherAssumption ==
  /\ Missing \notin Attributes
  /\ NoFile \notin Configurations
  /\ Underivable \subseteq [url : APIURLs, attributes : Attributes]
  /\ BuiltIn \in Usable /\ BuiltIn.clusters \cap Underivable = {}
  /\ Contents \subseteq Configurations
  /\ Databases \subseteq Decodable
  /\ \A db \in Databases : \A e \in db : e.attributes # Missing
  /\ Launches \subseteq LaunchKinds
  /\ {OwnSettings, FileSettings} \subseteq Settings
  /\ {MaxEdits, MaxCrashes, MaxOutages} \subseteq Nat

VARIABLES
  file,         \* the content at the path, or NoFile
  watched,      \* whether fsnotify watches what is at the path
  events,       \* the events the goroutine has not received
  pc,           \* where main and the watcher goroutine are
  source,       \* what the last look at the path found to read
  clusters,     \* ConfigurationData.clusters
  configError,  \* the messages in ConfigurationData.defaultConfigurationError
  err,          \* the err that InitializeClusterWatcher and its goroutine share
  pending,      \* the entries a sync has still to save
  toDelete,     \* the URLs a sync has still to delete
  stored,       \* the clusters in the database
  reachable,    \* the services that answer
  launch,       \* how the service is started
  missed,       \* history: the file changed unwatched since it was looked at
  failed,       \* history: a transaction of the last sync failed
  edits, crashes, outages

disk   == <<file, edits, missed>>
notify == <<watched, events>>
memory == <<clusters, configError>>
syncing == <<pending, toDelete, failed>>
faults == <<reachable, launch, crashes, outages>>
vars   == <<disk, notify, pc, source, memory, err, syncing, stored, faults>>

Store == INSTANCE Registry WITH registered <- stored, links <- {}, Identities <- {}

MainLabels    == {"down", "stat", "read", "connect", "migrate", "list", "save", "purge", "watch", "add",
                  "return", "secure", "serving"}
WatcherLabels == {"off", "select", "rewatch", "stat", "read", "list", "save", "purge"}

\* What the service needs besides itself.
Services == {"database", "auth"}

\* What the status says is wrong with the configuration.
Messages == {"clusters file is not used", "developer Mode is enabled",
             "default DB password is used", "Cluster service url", "environment",
             "Auth service url", "Sentry DSN is empty"}

TypeOK ==
  /\ file \in Contents \cup {NoFile}
  /\ watched \in BOOLEAN
  /\ events \in Seq({"write", "remove"})
  /\ pc \in [main : MainLabels, watcher : WatcherLabels]
  /\ source \in {"none", "file", "built-in"}
  /\ clusters \in Decodable
  /\ configError \subseteq Messages
  /\ err \in {"nil", "error"}
  /\ pending \subseteq clusters
  /\ toDelete \subseteq APIURLs
  /\ Store!RegistryTypeOK
  /\ reachable \subseteq Services
  /\ launch \in Launches
  /\ missed \in BOOLEAN
  /\ failed \in BOOLEAN
  /\ edits \in 0..MaxEdits
  /\ crashes \in 0..MaxCrashes
  /\ outages \in 0..MaxOutages

Init ==
  /\ file \in Contents \cup {NoFile}
  /\ stored \in Databases
  /\ launch \in Launches
  /\ reachable \in SUBSET Services
  /\ missed = FALSE
  /\ failed = FALSE
  /\ pc = [main |-> "down", watcher |-> "off"]
  /\ watched = FALSE
  /\ events = <<>>
  /\ source = "none"
  /\ clusters = {}
  /\ configError = {}
  /\ err = "nil"
  /\ pending = {}
  /\ toDelete = {}
  /\ edits = 0
  /\ crashes = 0
  /\ outages = 0

Goto(p, label) == pc' = [pc EXCEPT ![p] = label]

\* The process ends, and what it had in memory with it.
Exit ==
  /\ pc' = [main |-> "down", watcher |-> "off"]
  /\ watched' = FALSE
  /\ events' = <<>>
  /\ source' = "none"
  /\ clusters' = {}
  /\ configError' = {}
  /\ err' = "nil"
  /\ pending' = {}
  /\ toDelete' = {}
  /\ failed' = FALSE

-----------------------------------------------------------------------------
(* The command line, the environment and the settings.                      *)

\* Whether a path is returned: that of the environment variable, and none when
\* the switch is set.
configFileFromFlags(flag) == launch[flag] = "environment"

settings == IF configFileFromFlags("config") THEN FileSettings ELSE OwnSettings

GetClusterServiceURL ==
  IF settings.clusterServiceURL # "not set" THEN settings.clusterServiceURL
  ELSE IF settings.environment = "local" THEN "localhost" ELSE "valid"

GetAuthServiceURL ==
  IF settings.authURL # "not set" THEN settings.authURL
  ELSE IF settings.developerMode THEN "valid" ELSE "empty"

\* What NewConfigurationData has to say of the settings.
SettingsMessages ==
  {m \in Messages :
     \/ m = "developer Mode is enabled" /\ settings.developerMode
     \/ m = "default DB password is used" /\ settings.password = "default"
     \/ m = "Cluster service url" /\ GetClusterServiceURL \in {"empty", "invalid"}
     \/ m = "environment" /\ GetClusterServiceURL = "localhost"
     \/ m = "Auth service url" /\ GetAuthServiceURL \in {"empty", "invalid"}
     \/ m = "Sentry DSN is empty" /\ settings.sentryDSN = ""}

-----------------------------------------------------------------------------
(* Loading the file: NewConfigurationData at startup, ReloadClusterConfig   *)
(* later.  The path is looked at first and read in a second system call.    *)

\* The process is started, and started again whenever it ended.
Start ==
  /\ pc.main = "down"
  /\ Goto("main", "stat")
  /\ UNCHANGED <<disk, notify, source, memory, err, syncing, stored, faults>>

\* Whether the clusters' file is one that was named: at the start only.  A
\* reload takes the path in use for the default.
Named(p) == p = "main" /\ configFileFromFlags("osoClusterConfigFile")

Stat(p) ==
  /\ pc[p] = "stat"
  /\ \/ /\ file = NoFile
        /\ Named(p)
        /\ Exit
        /\ UNCHANGED missed
     \/ /\ ~(file = NoFile /\ Named(p))
        /\ source' = IF file = NoFile THEN "built-in" ELSE "file"
        /\ missed' = FALSE
        /\ Goto(p, "read")
        /\ UNCHANGED <<notify, memory, err, syncing>>
  /\ UNCHANGED <<file, edits, stored, faults>>

\* What can be read now, if the file did not vanish since it was looked at.
Content == IF source = "built-in" THEN BuiltIn ELSE file

Decodes == Content # NoFile /\ Content.decodes
Passes  == Decodes /\ Content.clusters \in Accepted

\* Mutant: the message is left out at a reload.
Remember_Silently(p) ==
  /\ clusters' = IF Decodes THEN Content.clusters ELSE clusters
  /\ configError' = IF p = "main" /\ source = "built-in"
                      THEN {"clusters file is not used"} \cup SettingsMessages
                      ELSE configError

\* initClusterConfig, in the order of the code: the message that the default
\* file is not used, the clusters, and only then the check.  The start goes on
\* to look at the settings.
Remember(p) ==
  /\ configError' = configError
       \cup (IF source = "built-in" \/ Named(p) THEN {"clusters file is not used"} ELSE {})
       \cup (IF p = "main" THEN SettingsMessages ELSE {})
  /\ clusters' = IF Decodes THEN Content.clusters ELSE clusters

\* Mutant: the check is left out.
Read_Unchecked(p) ==
  /\ pc[p] = "read"
  /\ Remember(p)
  /\ Goto(p, IF p = "main" THEN "connect" ELSE "list")
  /\ UNCHANGED <<disk, notify, source, err, syncing, stored, faults>>

Read(p) ==
  /\ pc[p] = "read"
  /\ \/ /\ Passes
        /\ Remember(p)
        /\ Goto(p, IF p = "main" THEN "connect" ELSE "list")
        /\ err' = IF p = "watcher" THEN "nil" ELSE err
        /\ UNCHANGED <<notify, source, syncing>>
     \/ /\ ~Passes
        /\ p = "watcher"
        /\ Remember(p)
        /\ Goto(p, "select")
        /\ err' = "error"
        /\ UNCHANGED <<notify, source, syncing>>
     \/ ~Passes /\ p = "main" /\ Exit
  /\ UNCHANGED <<disk, stored, faults>>

-----------------------------------------------------------------------------
(* The database.                                                            *)

\* main opens the database, again and again until it answers.
Connect ==
  /\ pc.main = "connect"
  /\ "database" \in reachable
  /\ Goto("main", "migrate")
  /\ UNCHANGED <<disk, notify, source, memory, err, syncing, stored, faults>>

\* The migration, which leaves the clusters as they are, or fails.
Migrate ==
  /\ pc.main = "migrate"
  /\ \/ /\ "database" \in reachable
        /\ Goto("main", "list")
        /\ UNCHANGED <<notify, source, memory, err, syncing>>
     \/ "database" \notin reachable /\ Exit
  /\ UNCHANGED <<disk, stored, faults>>

-----------------------------------------------------------------------------
(* CreateOrSaveClusterFromConfig.                                           *)

\* Mutant: clusters that are registered already are not saved again.
List_NewOnly(p) ==
  /\ pc[p] = "list"
  /\ "database" \in reachable
  /\ pending' = {c \in clusters : c.url \notin Store!RegisteredURLs}
  /\ toDelete' = Store!RegisteredURLs \ {c.url : c \in clusters}
  /\ failed' = FALSE
  /\ Goto(p, "save")
  /\ UNCHANGED <<disk, notify, source, memory, err, stored, faults>>

List(p) ==
  /\ pc[p] = "list"
  /\ "database" \in reachable
  /\ pending' = clusters
  /\ toDelete' = Store!RegisteredURLs \ {c.url : c \in clusters}
  /\ failed' = FALSE
  /\ Goto(p, "save")
  /\ UNCHANGED <<disk, notify, source, memory, err, stored, faults>>

Save(p) ==
  /\ pc[p] = "save"
  /\ \/ \E c \in pending \ Underivable :
          /\ "database" \in reachable
          /\ Store!Register(c.url, c.attributes)
          /\ pending' = pending \ {c}
          /\ UNCHANGED pc
     \/ pending = {} /\ Goto(p, "purge") /\ UNCHANGED <<pending, stored>>
  /\ UNCHANGED <<disk, notify, source, memory, err, toDelete, failed, faults>>

\* The sync returned: main goes on to InitializeClusterWatcher, whose goroutine
\* waits for events before anything is watched.
Synced(p) ==
  \/ p = "main" /\ pc' = [main |-> "watch", watcher |-> "select"]
  \/ p = "watcher" /\ Goto(p, "select")

\* Mutant: a cluster stays on the list when it is deleted.
Purge_Repeats(p) ==
  /\ pc[p] = "purge"
  /\ \/ \E u \in toDelete : "database" \in reachable /\ Store!Deregister(u) /\ UNCHANGED pc
     \/ toDelete = {} /\ Synced(p) /\ UNCHANGED stored
  /\ UNCHANGED <<disk, notify, source, memory, err, syncing, faults>>

\* A delete that fails is forgotten, and the sync goes on as if it had not.
Purge(p) ==
  /\ pc[p] = "purge"
  /\ \/ \E u \in toDelete : /\ toDelete' = toDelete \ {u}
                            /\ \/ /\ "database" \in reachable
                                  /\ Store!Deregister(u)
                                  /\ UNCHANGED failed
                               \/ /\ "database" \notin reachable
                                  /\ failed' = TRUE
                                  /\ UNCHANGED stored
                            /\ UNCHANGED pc
     \/ toDelete = {} /\ Synced(p) /\ UNCHANGED <<toDelete, failed, stored>>
  /\ UNCHANGED <<disk, notify, source, memory, err, pending, faults>>

\* The list or a save fails, for want of the database or of a host to derive a
\* URL from: main gives up, the goroutine logs it.
SyncFails(p) ==
  /\ \/ pc[p] = "list" /\ "database" \notin reachable
     \/ pc[p] = "save" /\ pending # {} /\ "database" \notin reachable
     \/ pc[p] = "save" /\ pending \cap Underivable # {}
  /\ \/ p = "main" /\ Exit
     \/ /\ p = "watcher"
        /\ Goto(p, "select")
        /\ pending' = {}
        /\ toDelete' = {}
        /\ failed' = TRUE
        /\ UNCHANGED <<notify, source, memory, err>>
  /\ UNCHANGED <<disk, stored, faults>>

-----------------------------------------------------------------------------
(* InitializeClusterWatcher.                                                *)

\* The path to watch is that of the file which was loaded; the one that goes with
\* the built-in configuration does not exist where the service is deployed.
Watch ==
  /\ pc.main = "watch"
  /\ Goto("main", IF source = "built-in" \/ file = NoFile THEN "return" ELSE "add")
  /\ err' = "nil"
  /\ UNCHANGED <<disk, notify, source, memory, syncing, stored, faults>>

\* watcher.Add: it needs the file.
AddWatch ==
  /\ watched' = (file # NoFile)
  /\ err' = IF file = NoFile THEN "error" ELSE "nil"

Add ==
  /\ pc.main = "add"
  /\ AddWatch
  /\ Goto("main", "return")
  /\ UNCHANGED <<disk, events, source, memory, syncing, stored, faults>>

\* main panics at an error, and goes on otherwise.
Return ==
  /\ pc.main = "return"
  /\ \/ err = "error" /\ Exit
     \/ /\ err = "nil"
        /\ Goto("main", "secure")
        /\ UNCHANGED <<notify, source, memory, err, syncing>>
  /\ UNCHANGED <<disk, stored, faults>>

\* The token manager gets its keys from the auth service; without them main
\* panics, and with them it serves.
Secure ==
  /\ pc.main = "secure"
  /\ \/ "auth" \notin reachable /\ Exit
     \/ /\ "auth" \in reachable
        /\ Goto("main", "serving")
        /\ UNCHANGED <<notify, source, memory, err, syncing>>
  /\ UNCHANGED <<disk, stored, faults>>

\* Mutant: a removed file is watched again, and not read.
Select_IgnoresRemove ==
  /\ pc.watcher = "select"
  /\ events # <<>>
  /\ events' = Tail(events)
  /\ IF Head(events) = "write" THEN Goto("watcher", "stat") ELSE UNCHANGED pc
  /\ watched' = IF Head(events) = "write" THEN watched ELSE file # NoFile
  /\ UNCHANGED <<disk, source, memory, err, syncing, stored, faults>>

\* The goroutine receives an event.
Select ==
  /\ pc.watcher = "select"
  /\ events # <<>>
  /\ events' = Tail(events)
  /\ Goto("watcher", IF Head(events) = "remove" THEN "rewatch" ELSE "stat")
  /\ UNCHANGED <<disk, watched, source, memory, err, syncing, stored, faults>>

\* A second after a Remove event: watch the path again, and reload whether or
\* not that worked.
Rewatch ==
  /\ pc.watcher = "rewatch"
  /\ AddWatch
  /\ Goto("watcher", "stat")
  /\ UNCHANGED <<disk, events, source, memory, syncing, stored, faults>>

-----------------------------------------------------------------------------
(* The environment.                                                         *)

\* Something happens to what is at the path, which fsnotify tells if it
\* watches it; a watch ends with the file it is for.
Edit(content, event) ==
  /\ edits < MaxEdits
  /\ edits' = edits + 1
  /\ file' = content
  /\ events' = IF watched THEN Append(events, event) ELSE events
  /\ watched' = (watched /\ event = "write")
  /\ missed' = (missed \/ (pc.main # "down" /\ ~watched))
  /\ UNCHANGED <<pc, source, memory, err, syncing, stored, faults>>

WriteFile   == file # NoFile /\ \E c \in Contents : Edit(c, "write")
ReplaceFile == file # NoFile /\ \E c \in Contents : Edit(c, "remove")
RemoveFile  == file # NoFile /\ Edit(NoFile, "remove")
CreateFile  == file = NoFile /\ \E c \in Contents : Edit(c, "write")

\* A service goes out of reach, and comes back.
LoseService(s) ==
  /\ s \in reachable
  /\ outages < MaxOutages
  /\ outages' = outages + 1
  /\ reachable' = reachable \ {s}
  /\ UNCHANGED <<launch, crashes>>

Outage ==
  /\ \E s \in Services : LoseService(s)
  /\ UNCHANGED <<disk, notify, pc, source, memory, err, syncing, stored>>

Recovery ==
  /\ \E s \in Services \ reachable : reachable' = reachable \cup {s}
  /\ UNCHANGED <<disk, notify, pc, source, memory, err, syncing, stored, launch, crashes,
                 outages>>

\* The database is lost between a save and its COMMIT, whose error is dropped: the
\* sync goes on as if the cluster were stored.
LoseCommit(p) ==
  /\ pc[p] = "save"
  /\ LoseService("database")
  /\ \E c \in pending \ Underivable : pending' = pending \ {c}
  /\ failed' = TRUE
  /\ UNCHANGED <<disk, notify, pc, source, memory, err, toDelete, stored>>

\* The process is killed.
Crash ==
  /\ pc.main # "down"
  /\ crashes < MaxCrashes
  /\ crashes' = crashes + 1
  /\ Exit
  /\ UNCHANGED <<disk, stored, reachable, launch, outages>>

\* GET /api/status answers 200 rather than 503.
StatusOK == "database" \in reachable /\ (configError = {} \/ settings.developerMode)

-----------------------------------------------------------------------------

LoadAndSync(p) == Stat(p) \/ Read(p) \/ List(p) \/ Save(p) \/ Purge(p) \/ SyncFails(p)

Main    == Start \/ LoadAndSync("main") \/ Connect \/ Migrate \/ Watch \/ Add
           \/ Return \/ Secure
Watcher == LoadAndSync("watcher") \/ Select \/ Rewatch

Environment ==
  \/ WriteFile \/ ReplaceFile \/ RemoveFile \/ CreateFile
  \/ Outage \/ Recovery \/ LoseCommit("main") \/ LoseCommit("watcher")
  \/ Crash

Next == Main \/ Watcher \/ Environment

Spec == Init /\ [][Next]_vars

\* Goroutines that can run do, and a process that ended is started again
\* (restartPolicy: Always).  Nothing makes files change, services come
\* back or processes die.
FairSpec == Spec /\ WF_vars(Main) /\ WF_vars(Watcher)
=============================================================================
