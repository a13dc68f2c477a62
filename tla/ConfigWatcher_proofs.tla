------------------------ MODULE ConfigWatcher_proofs ------------------------
(***************************************************************************)
(* The safety properties of ConfigWatcherProperties, for every set of       *)
(* clusters, of file contents and of ways to be started, and for any number *)
(* of edits, crashes and outages.                                           *)
(***************************************************************************)
EXTENDS ConfigWatcherProperties, TLAPS

Processes == {"main", "watcher"}

Running(labels) == pc.main \in labels \/ pc.watcher \in labels

ClusterURLs == {c.url : c \in clusters}

-----------------------------------------------------------------------------
(* The inductive invariant.                                                 *)

\* The goroutine runs once main has synced, and what a sync has still to do is
\* there only while one is under way: main and the goroutine never sync at once.
OneSync ==
  /\ pc.watcher # "off" => pc.main \in {"watch", "add", "return", "secure", "serving"}
  /\ pending # {} => Running({"save"})
  /\ toDelete # {} => Running({"save", "purge"})

\* What is to be synced passed the check.
Checked == Running({"connect", "migrate", "list", "save", "purge"}) => clusters \in Accepted

\* While a sync runs, what is loaded is stored or about to be saved, and what is
\* stored is loaded or about to be deleted, unless storing or deleting it failed.
HalfSynced ==
  Running({"save", "purge"}) =>
    /\ \A c \in clusters : c \in pending \/ c \in stored \/ failed
    /\ \A c \in stored : c.url \in ClusterURLs \/ c.url \in toDelete \/ failed
    /\ \A u \in toDelete : u \notin ClusterURLs

\* When none runs and the goroutine has nothing that passed the check in hand.
Settled ==
  pc.watcher \in {"select", "rewatch", "stat", "read"} /\ ~failed /\ clusters \in Accepted =>
    stored = clusters

\* A process that was started has reported what is wrong with its settings, and the
\* built-in clusters if it has them.
Started  == pc.main \notin {"down", "stat", "read"}
Reported ==
  Started => /\ SettingsMessages \subseteq configError
             /\ clusters = BuiltIn.clusters => "clusters file is not used" \in configError

\* With no event to come and no change missed, the last look at the path is true
\* until the file is read, and what was read is what the file says until the next
\* event is received.
Told  == ~missed /\ events = <<>>
Fresh ==
  /\ Told /\ Running({"read"}) => (source = "built-in" <=> file = NoFile)
  /\ Told /\ Started /\ pc.watcher \notin {"rewatch", "stat", "read"} /\ file \in Usable =>
       clusters = file.clusters

Inv == TypeOK /\ OneSync /\ Checked /\ HalfSynced /\ Settled /\ Fresh

-----------------------------------------------------------------------------
(* Steps of pc, and the end of the process.                                 *)

\* What Goto does to the process that goes, and leaves of the other.
LEMMA GotoMeans ==
  ASSUME pc \in [main : MainLabels, watcher : WatcherLabels],
         NEW p \in Processes, NEW label,
         p = "main" => label \in MainLabels,
         p = "watcher" => label \in WatcherLabels,
         Goto(p, label)
  PROVE  /\ pc' \in [main : MainLabels, watcher : WatcherLabels]
         /\ p = "main" => pc'.main = label /\ pc'.watcher = pc.watcher
         /\ p = "watcher" => pc'.watcher = label /\ pc'.main = pc.main
  BY DEF Goto, Processes, MainLabels, WatcherLabels

\* What is stored is well formed as long as it is not changed.
LEMMA StoredStays ==
  ASSUME Store!RegistryTypeOK, stored' = stored
  PROVE  Store!RegistryTypeOK'
  BY DEF Store!RegistryTypeOK, Store!RegisteredURLs

\* A process that ended leaves nothing the invariant speaks of.
LEMMA ExitSafe ==
  ASSUME Inv, Exit, UNCHANGED <<file, edits, stored, launch>>,
         missed' \in BOOLEAN, reachable' \subseteq Services,
         crashes' \in 0..MaxCrashes, outages' \in 0..MaxOutages
  PROVE  Inv'
<1>1. TypeOK'
  <2>1. {} \in Decodable /\ {} \subseteq Messages /\ {} \subseteq APIURLs
    BY DEF Decodable
  <2>2. pc' \in [main : MainLabels, watcher : WatcherLabels]
    BY DEF Exit, MainLabels, WatcherLabels
  <2>3. <<>> \in Seq({"write", "remove"})
    OBVIOUS
  <2>4. Store!RegistryTypeOK'
    BY StoredStays DEF Inv, TypeOK
  <2> QED BY <2>1, <2>2, <2>3, <2>4 DEF Inv, TypeOK, Exit
<1>2. pc'.main = "down" /\ pc'.watcher = "off"
  BY DEF Exit
<1>3. OneSync' /\ Checked' /\ HalfSynced' /\ Settled' /\ Fresh'
  BY <1>2 DEF Exit, OneSync, Checked, HalfSynced, Settled, Fresh, Running, Started
<1> QED BY <1>1, <1>3 DEF Inv

-----------------------------------------------------------------------------
(* Loading the file.                                                        *)

LEMMA StartSafe == Inv /\ Start => Inv'
<1> SUFFICES ASSUME Inv, Start PROVE Inv'
  OBVIOUS
<1>1. /\ pc' \in [main : MainLabels, watcher : WatcherLabels]
      /\ pc'.main = "stat" /\ pc'.watcher = pc.watcher
  BY GotoMeans DEF Inv, TypeOK, Start, Processes, MainLabels
<1>2. TypeOK'
  BY <1>1, StoredStays
     DEF Inv, TypeOK, Start, disk, notify, memory, syncing, faults
<1>3. OneSync' /\ Checked' /\ HalfSynced' /\ Settled' /\ Fresh'
  BY <1>1 DEF Inv, OneSync, Checked, HalfSynced, Settled, Fresh, Running, Started, Start,
              ClusterURLs, Told, disk, notify, memory, syncing, faults
<1> QED BY <1>2, <1>3 DEF Inv

LEMMA StatSafe == ASSUME NEW p \in Processes, Inv, Stat(p) PROVE Inv'
<1>1. CASE file = NoFile /\ Named(p)
  BY <1>1, ExitSafe DEF Inv, TypeOK, Stat, faults
<1>2. CASE ~(file = NoFile /\ Named(p))
  <2>1. /\ Goto(p, "read")
        /\ source' = IF file = NoFile THEN "built-in" ELSE "file"
        /\ ~missed'
        /\ UNCHANGED <<notify, memory, err, syncing, file, edits, stored, faults>>
    BY <1>2 DEF Stat
  <2>2. /\ pc' \in [main : MainLabels, watcher : WatcherLabels]
        /\ p = "main" => pc'.main = "read" /\ pc'.watcher = pc.watcher
        /\ p = "watcher" => pc'.watcher = "read" /\ pc'.main = pc.main
    BY <2>1, GotoMeans DEF Inv, TypeOK, MainLabels, WatcherLabels
  <2>3. pc[p] = "stat" /\ p \in {"main", "watcher"}
    BY DEF Stat, Processes
  <2>4. missed' = FALSE
    BY <1>2 DEF Stat
  <2>5. TypeOK'
    BY <2>1, <2>2, <2>4, StoredStays DEF Inv, TypeOK, notify, memory, syncing, faults
  <2>6. OneSync' /\ Checked' /\ HalfSynced' /\ Settled'
    BY <2>1, <2>2, <2>3
       DEF Inv, OneSync, Checked, HalfSynced, Settled, Running, ClusterURLs, notify, memory, syncing
  <2>7. Fresh'
    BY <2>1, <2>2, <2>3 DEF Inv, OneSync, Fresh, Running, Started
  <2> QED BY <2>5, <2>6, <2>7 DEF Inv
<1> QED BY <1>1, <1>2

\* What Remember leaves in memory is of the right kind.
LEMMA RememberMeans ==
  ASSUME NEW p \in Processes, Inv, Remember(p)
  PROVE  /\ clusters' \in Decodable
         /\ configError' \subseteq Messages
         /\ Decodes => clusters' = Content.clusters
         /\ ~Decodes => clusters' = clusters
<1>1. Decodes => Content \in Configurations
  BY WatcherAssumption DEF Inv, TypeOK, Decodes, Content, Usable
<1>2. clusters' \in Decodable
  BY <1>1 DEF Inv, TypeOK, Remember, Configurations
<1>3. SettingsMessages \subseteq Messages /\ "clusters file is not used" \in Messages
  BY DEF SettingsMessages, Messages
<1>4. configError' \subseteq Messages
  BY <1>3 DEF Inv, TypeOK, Remember
<1> QED BY <1>2, <1>4 DEF Remember

LEMMA ReadSafe == ASSUME NEW p \in Processes, Inv, Read(p) PROVE Inv'
<1>1. CASE ~Passes /\ p = "main" /\ Exit
  BY <1>1, ExitSafe DEF Inv, TypeOK, Read, disk, faults
<1>2. CASE Remember(p) /\ (Passes \/ p = "watcher") /\ ~(~Passes /\ p = "main" /\ Exit)
  <2> DEFINE next == IF ~Passes THEN "select" ELSE IF p = "main" THEN "connect" ELSE "list"
  <2>1. /\ Goto(p, next)
        /\ err' \in {"nil", "error"}
        /\ UNCHANGED <<disk, notify, source, syncing, stored, faults>>
    BY <1>2 DEF Inv, TypeOK, Read
  <2>2. /\ pc' \in [main : MainLabels, watcher : WatcherLabels]
        /\ p = "main" => pc'.main = next /\ pc'.watcher = pc.watcher
        /\ p = "watcher" => pc'.watcher = next /\ pc'.main = pc.main
    BY <1>2, <2>1, GotoMeans DEF Inv, TypeOK, MainLabels, WatcherLabels
  <2>3. pc[p] = "read" /\ p \in {"main", "watcher"}
    BY DEF Read, Processes
  <2>4. pending = {} /\ toDelete = {}
    BY <2>3 DEF Inv, OneSync, Running
  <2>5. TypeOK'
    BY <2>1, <2>2, <2>4, <1>2, RememberMeans, StoredStays
       DEF Inv, TypeOK, disk, notify, syncing, faults
  <2>6. OneSync'
    BY <1>2, <2>1, <2>2, <2>3, <2>4 DEF Inv, OneSync, Running, syncing
  <2>7. Passes => clusters' \in Accepted
    BY <1>2, RememberMeans DEF Passes
  <2>8. Checked' /\ HalfSynced'
    BY <1>2, <2>2, <2>3, <2>7 DEF Inv, OneSync, Checked, HalfSynced, Running
  <2>9. Settled'
    <3>1. CASE Passes
      BY <3>1, <2>2, <2>3 DEF Inv, OneSync, Settled
    <3>2. CASE ~Passes
      <4>1. p = "watcher"
        BY <1>2, <3>2
      <4>2. clusters' \in Accepted => clusters' = clusters
        BY <1>2, <3>2, RememberMeans DEF Passes
      <4> QED BY <4>1, <4>2, <2>1, <2>3 DEF Inv, Settled, syncing
    <3> QED BY <3>1, <3>2
  <2>10. Fresh'
    <3>1. Told' => Told /\ UNCHANGED <<file, source>>
      BY <2>1 DEF Told, disk, notify
    <3>2. ~Running({"read"})'
      BY <2>2, <2>3, <1>2 DEF Inv, OneSync, Running
    <3>3. ASSUME Told, file \in Usable PROVE clusters' = file.clusters
      <4>1. source # "built-in"
        BY <3>3, <2>3, WatcherAssumption DEF Inv, Fresh, Running, Usable
      <4> QED BY <4>1, <3>3, <1>2, RememberMeans, WatcherAssumption DEF Content, Decodes, Usable
    <3> QED BY <3>1, <3>2, <3>3 DEF Fresh
  <2> QED BY <2>5, <2>6, <2>8, <2>9, <2>10 DEF Inv
<1> QED BY <1>1, <1>2 DEF Read

-----------------------------------------------------------------------------
(* The database and the sync.                                               *)

LEMMA ConnectSafe == Inv /\ Connect => Inv'
<1> SUFFICES ASSUME Inv, Connect PROVE Inv'
  OBVIOUS
<1>1. /\ pc' \in [main : MainLabels, watcher : WatcherLabels]
      /\ pc'.main = "migrate" /\ pc'.watcher = pc.watcher
  BY GotoMeans DEF Inv, TypeOK, Connect, Processes, MainLabels
<1>2. TypeOK'
  BY <1>1, StoredStays DEF Inv, TypeOK, Connect, disk, notify, memory, syncing, faults
<1>3. OneSync' /\ Checked' /\ HalfSynced' /\ Settled' /\ Fresh'
  BY <1>1 DEF Inv, OneSync, Checked, HalfSynced, Settled, Fresh, Running, Started, Connect,
              ClusterURLs, Told, disk, notify, memory, syncing, faults
<1> QED BY <1>2, <1>3 DEF Inv

LEMMA MigrateSafe == Inv /\ Migrate => Inv'
<1> SUFFICES ASSUME Inv, Migrate PROVE Inv'
  OBVIOUS
<1>1. CASE Exit
  BY <1>1, ExitSafe DEF Inv, TypeOK, Migrate, disk, faults
<1>2. CASE Goto("main", "list") /\ UNCHANGED <<notify, source, memory, err, syncing>>
  <2>1. /\ pc' \in [main : MainLabels, watcher : WatcherLabels]
        /\ pc'.main = "list" /\ pc'.watcher = pc.watcher
    BY <1>2, GotoMeans DEF Inv, TypeOK, Processes, MainLabels
  <2>2. TypeOK'
    BY <1>2, <2>1, StoredStays
       DEF Inv, TypeOK, Migrate, disk, notify, memory, syncing, faults
  <2>3. OneSync' /\ Checked' /\ HalfSynced' /\ Settled' /\ Fresh'
    BY <1>2, <2>1
       DEF Inv, OneSync, Checked, HalfSynced, Settled, Fresh, Running, Started, Migrate,
           ClusterURLs, Told, disk, notify, memory, syncing, faults
  <2> QED BY <2>2, <2>3 DEF Inv
<1> QED BY <1>1, <1>2 DEF Migrate

LEMMA ListSafe == ASSUME NEW p \in Processes, Inv, List(p) PROVE Inv'
<1>1. /\ pc' \in [main : MainLabels, watcher : WatcherLabels]
      /\ p = "main" => pc'.main = "save" /\ pc'.watcher = pc.watcher
      /\ p = "watcher" => pc'.watcher = "save" /\ pc'.main = pc.main
  BY GotoMeans DEF Inv, TypeOK, List, MainLabels, WatcherLabels
<1>2. pc[p] = "list" /\ p \in {"main", "watcher"}
  BY DEF List, Processes
<1>3. toDelete' \subseteq APIURLs
  BY DEF Inv, TypeOK, List, Store!RegistryTypeOK, Store!RegisteredURLs
<1>4. TypeOK'
  BY <1>1, <1>3, StoredStays DEF Inv, TypeOK, List, disk, notify, memory, faults
<1>5. OneSync' /\ Checked' /\ Settled'
  BY <1>1, <1>2 DEF Inv, OneSync, Checked, Settled, Running, List, memory
<1>6. HalfSynced'
  <2>1. \A c \in clusters' : c \in pending'
    BY DEF List, memory
  <2>2. toDelete' = {c.url : c \in stored'} \ ClusterURLs'
    BY DEF List, memory, ClusterURLs, Store!RegisteredURLs
  <2> QED BY <2>1, <2>2 DEF HalfSynced
<1>7. Fresh'
  BY <1>1, <1>2
     DEF Inv, OneSync, Fresh, Running, Started, List, Told, disk, notify, memory
<1> QED BY <1>4, <1>5, <1>6, <1>7 DEF Inv

LEMMA SaveSafe == ASSUME NEW p \in Processes, Inv, Save(p) PROVE Inv'
<1> pc[p] = "save" /\ p \in {"main", "watcher"}
  BY DEF Save, Processes
<1>1. CASE pending = {} /\ Goto(p, "purge") /\ UNCHANGED <<pending, stored>>
  <2>1. /\ pc' \in [main : MainLabels, watcher : WatcherLabels]
        /\ p = "main" => pc'.main = "purge" /\ pc'.watcher = pc.watcher
        /\ p = "watcher" => pc'.watcher = "purge" /\ pc'.main = pc.main
    BY <1>1, GotoMeans DEF Inv, TypeOK, MainLabels, WatcherLabels
  <2>2. TypeOK'
    BY <1>1, <2>1, StoredStays DEF Inv, TypeOK, Save, disk, notify, memory, faults
  <2>3. OneSync' /\ Checked' /\ Settled'
    BY <1>1, <2>1 DEF Inv, OneSync, Checked, Settled, Running, Save, memory
  <2>4. HalfSynced'
    BY <1>1 DEF Inv, HalfSynced, Running, Save, ClusterURLs, memory
  <2>5. Fresh'
    BY <2>1 DEF Inv, OneSync, Fresh, Running, Started, Save, Told, disk, notify, memory
  <2> QED BY <2>2, <2>3, <2>4, <2>5 DEF Inv
<1>2. ASSUME NEW c \in pending \ Underivable,
             Store!Register(c.url, c.attributes),
             pending' = pending \ {c}, pc' = pc
      PROVE  Inv'
  <2>1. /\ c \in clusters /\ clusters \in Decodable /\ clusters \in Accepted
        /\ c \in Entries /\ c.attributes \in Attributes
    BY DEF Inv, TypeOK, Checked, Running, Accepted, Decodable, Entries
  <2>2. c = [url |-> c.url, attributes |-> c.attributes]
    BY <2>1 DEF Entries
  <2>3. stored' = {d \in stored : d.url # c.url} \cup {c}
    BY <1>2, <2>2 DEF Store!Register
  <2>4. Store!RegistryTypeOK'
    BY <2>1, <2>2, <2>3 DEF Inv, TypeOK, Store!RegistryTypeOK, Store!RegisteredURLs, Entries
  <2>5. TypeOK'
    BY <1>2, <2>4 DEF Inv, TypeOK, Save, disk, notify, memory, faults
  <2>6. OneSync' /\ Checked' /\ Settled' /\ Fresh'
    BY <1>2 DEF Inv, OneSync, Checked, Settled, Fresh, Running, Started, Save, Told,
                disk, notify, memory
  <2>7. HalfSynced'
    <3>1. \A d \in clusters : d.url = c.url => d = c
      BY <2>1 DEF Decodable
    <3>2. c.url \in ClusterURLs
      BY <2>1 DEF ClusterURLs
    <3> QED BY <1>2, <2>3, <3>1, <3>2 DEF Inv, HalfSynced, Running, Save, ClusterURLs, memory
  <2> QED BY <2>5, <2>6, <2>7 DEF Inv
<1> QED BY <1>1, <1>2 DEF Save

\* Where Synced leaves the two processes.
LEMMA SyncedMeans ==
  ASSUME NEW p \in Processes, Inv, pc[p] = "purge", Synced(p)
  PROVE  /\ pc' \in [main : MainLabels, watcher : WatcherLabels]
         /\ pc'.watcher = "select"
         /\ pc'.main \in {"watch", "add", "return", "secure", "serving"}
<1>1. CASE p = "main"
  BY <1>1 DEF Synced, MainLabels, WatcherLabels
<1>2. CASE p = "watcher"
  <2>1. Goto(p, "select")
    BY <1>2 DEF Synced
  <2> QED BY <1>2, <2>1, GotoMeans DEF Inv, TypeOK, OneSync, WatcherLabels
<1> QED BY <1>1, <1>2 DEF Processes

\* A sync that is through and did not fail has made the database what is loaded.
LEMMA SyncedStored ==
  ASSUME Inv, Running({"purge"}), pending = {}, toDelete = {}, ~failed
  PROVE  stored = clusters
<1>1. /\ \A c \in clusters : c \in stored
      /\ \A s \in stored : \E c \in clusters : c.url = s.url
  BY DEF Inv, HalfSynced, Running, ClusterURLs
<1>2. \A c, d \in stored : c.url = d.url => c = d
  BY DEF Inv, TypeOK, Store!RegistryTypeOK
<1> QED BY <1>1, <1>2

LEMMA PurgeSafe == ASSUME NEW p \in Processes, Inv, Purge(p) PROVE Inv'
<1> pc[p] = "purge" /\ p \in {"main", "watcher"}
  BY DEF Purge, Processes
<1> pending = {} /\ pending' = {}
  BY DEF Inv, OneSync, Running, Purge
<1>1. CASE toDelete = {} /\ Synced(p) /\ UNCHANGED <<toDelete, failed, stored>>
  <2>1. /\ pc' \in [main : MainLabels, watcher : WatcherLabels]
        /\ pc'.watcher = "select"
        /\ pc'.main \in {"watch", "add", "return", "secure", "serving"}
    BY <1>1, SyncedMeans
  <2>2. TypeOK'
    BY <1>1, <2>1, StoredStays DEF Inv, TypeOK, Purge, disk, notify, memory, faults
  <2>3. OneSync' /\ Checked' /\ HalfSynced'
    BY <1>1, <2>1 DEF OneSync, Checked, HalfSynced, Running
  <2>4. Settled'
    BY <1>1, SyncedStored DEF Settled, Running, Purge, memory
  <2>5. Fresh'
    BY <2>1 DEF Inv, OneSync, Fresh, Running, Started, Purge, Told, disk, notify, memory
  <2> QED BY <2>2, <2>3, <2>4, <2>5 DEF Inv
<1>2. ASSUME NEW u \in toDelete,
             toDelete' = toDelete \ {u}, pc' = pc,
             \/ stored' = {c \in stored : c.url # u} /\ failed' = failed
             \/ stored' = stored /\ failed' = TRUE
      PROVE  Inv'
  <2>1. Store!RegistryTypeOK'
    BY <1>2 DEF Inv, TypeOK, Store!RegistryTypeOK, Store!RegisteredURLs
  <2>2. TypeOK'
    BY <1>2, <2>1 DEF Inv, TypeOK, Purge, disk, notify, memory, faults
  <2>3. OneSync' /\ Checked' /\ Settled' /\ Fresh'
    BY <1>2 DEF Inv, OneSync, Checked, Settled, Fresh, Running, Started, Purge, Told,
                disk, notify, memory
  <2>4. HalfSynced'
    <3>1. \A c \in clusters : (c \in stored \/ failed) /\ c.url # u
      BY DEF Inv, HalfSynced, Running, ClusterURLs
    <3> QED BY <1>2, <3>1 DEF Inv, HalfSynced, Running, Purge, ClusterURLs, memory
  <2> QED BY <2>2, <2>3, <2>4 DEF Inv
<1> QED BY <1>1, <1>2 DEF Purge, Store!Deregister

LEMMA SyncFailsSafe == ASSUME NEW p \in Processes, Inv, SyncFails(p) PROVE Inv'
<1>1. CASE Exit
  BY <1>1, ExitSafe DEF Inv, TypeOK, SyncFails, disk, faults
<1>2. CASE /\ p = "watcher" /\ Goto(p, "select")
           /\ pending' = {} /\ toDelete' = {} /\ failed' = TRUE
           /\ UNCHANGED <<notify, source, memory, err>>
  <2>1. /\ pc' \in [main : MainLabels, watcher : WatcherLabels]
        /\ pc'.watcher = "select" /\ pc'.main = pc.main
    BY <1>2, GotoMeans DEF Inv, TypeOK, WatcherLabels
  <2>2. pc.watcher \in {"list", "save"}
    BY <1>2 DEF SyncFails
  <2>3. {} \subseteq clusters /\ {} \subseteq APIURLs
    OBVIOUS
  <2>4. TypeOK'
    BY <1>2, <2>1, <2>3, StoredStays
       DEF Inv, TypeOK, SyncFails, disk, notify, memory, faults
  <2>5. OneSync' /\ Checked' /\ HalfSynced' /\ Settled'
    BY <1>2, <2>1, <2>2 DEF Inv, OneSync, Checked, HalfSynced, Settled, Running
  <2>6. Fresh'
    BY <1>2, <2>1, <2>2
       DEF Inv, OneSync, Fresh, Running, Started, SyncFails, Told, disk, notify, memory
  <2> QED BY <2>4, <2>5, <2>6 DEF Inv
<1> QED BY <1>1, <1>2 DEF SyncFails

-----------------------------------------------------------------------------
(* The watch.                                                               *)

LEMMA WatchSafe == Inv /\ Watch => Inv'
<1> SUFFICES ASSUME Inv, Watch PROVE Inv'
  OBVIOUS
<1>1. /\ pc' \in [main : MainLabels, watcher : WatcherLabels]
      /\ pc'.main \in {"return", "add"} /\ pc'.watcher = pc.watcher
  BY GotoMeans DEF Inv, TypeOK, Watch, Processes, MainLabels
<1>2. TypeOK'
  BY <1>1, StoredStays DEF Inv, TypeOK, Watch, disk, notify, memory, syncing, faults
<1>3. OneSync' /\ Checked' /\ HalfSynced' /\ Settled' /\ Fresh'
  BY <1>1 DEF Inv, OneSync, Checked, HalfSynced, Settled, Fresh, Running, Started, Watch,
              ClusterURLs, Told, disk, notify, memory, syncing, faults
<1> QED BY <1>2, <1>3 DEF Inv

LEMMA AddSafe == Inv /\ Add => Inv'
<1> SUFFICES ASSUME Inv, Add PROVE Inv'
  OBVIOUS
<1>1. /\ pc' \in [main : MainLabels, watcher : WatcherLabels]
      /\ pc'.main = "return" /\ pc'.watcher = pc.watcher
  BY GotoMeans DEF Inv, TypeOK, Add, Processes, MainLabels
<1>2. TypeOK'
  BY <1>1, StoredStays DEF Inv, TypeOK, Add, AddWatch, disk, memory, syncing, faults
<1>3. OneSync' /\ Checked' /\ HalfSynced' /\ Settled' /\ Fresh'
  BY <1>1 DEF Inv, OneSync, Checked, HalfSynced, Settled, Fresh, Running, Started, Add,
              ClusterURLs, Told, disk, memory, syncing, faults
<1> QED BY <1>2, <1>3 DEF Inv

\* main goes on from InitializeClusterWatcher, or to serve, or panics.
LEMMA ReturnSafe == Inv /\ Return => Inv'
<1> SUFFICES ASSUME Inv, Return PROVE Inv'
  OBVIOUS
<1>1. CASE Exit
  BY <1>1, ExitSafe DEF Inv, TypeOK, Return, disk, faults
<1>2. CASE Goto("main", "secure") /\ UNCHANGED <<notify, source, memory, err, syncing>>
  <2>1. /\ pc' \in [main : MainLabels, watcher : WatcherLabels]
        /\ pc'.main = "secure" /\ pc'.watcher = pc.watcher
    BY <1>2, GotoMeans DEF Inv, TypeOK, Processes, MainLabels
  <2>2. TypeOK'
    BY <1>2, <2>1, StoredStays
       DEF Inv, TypeOK, Return, disk, notify, memory, syncing, faults
  <2>3. OneSync' /\ Checked' /\ HalfSynced' /\ Settled' /\ Fresh'
    BY <1>2, <2>1
       DEF Inv, OneSync, Checked, HalfSynced, Settled, Fresh, Running, Started, Return,
           ClusterURLs, Told, disk, notify, memory, syncing, faults
  <2> QED BY <2>2, <2>3 DEF Inv
<1> QED BY <1>1, <1>2 DEF Return

LEMMA SecureSafe == Inv /\ Secure => Inv'
<1> SUFFICES ASSUME Inv, Secure PROVE Inv'
  OBVIOUS
<1>1. CASE Exit
  BY <1>1, ExitSafe DEF Inv, TypeOK, Secure, disk, faults
<1>2. CASE Goto("main", "serving") /\ UNCHANGED <<notify, source, memory, err, syncing>>
  <2>1. /\ pc' \in [main : MainLabels, watcher : WatcherLabels]
        /\ pc'.main = "serving" /\ pc'.watcher = pc.watcher
    BY <1>2, GotoMeans DEF Inv, TypeOK, Processes, MainLabels
  <2>2. TypeOK'
    BY <1>2, <2>1, StoredStays
       DEF Inv, TypeOK, Secure, disk, notify, memory, syncing, faults
  <2>3. OneSync' /\ Checked' /\ HalfSynced' /\ Settled' /\ Fresh'
    BY <1>2, <2>1
       DEF Inv, OneSync, Checked, HalfSynced, Settled, Fresh, Running, Started, Secure,
           ClusterURLs, Told, disk, notify, memory, syncing, faults
  <2> QED BY <2>2, <2>3 DEF Inv
<1> QED BY <1>1, <1>2 DEF Secure

LEMMA SelectSafe == Inv /\ Select => Inv'
<1> SUFFICES ASSUME Inv, Select PROVE Inv'
  OBVIOUS
<1>1. /\ pc' \in [main : MainLabels, watcher : WatcherLabels]
      /\ pc'.main = pc.main /\ pc'.watcher \in {"rewatch", "stat"}
  BY GotoMeans DEF Inv, TypeOK, Select, Processes, WatcherLabels
<1>2. TypeOK'
  BY <1>1, StoredStays DEF Inv, TypeOK, Select, disk, memory, syncing, faults
<1>3. OneSync' /\ Checked' /\ HalfSynced' /\ Settled'
  BY <1>1 DEF Inv, OneSync, Checked, HalfSynced, Settled, Running, Select,
              ClusterURLs, memory, syncing
<1>4. Fresh'
  BY <1>1 DEF Inv, OneSync, Fresh, Running, Select
<1> QED BY <1>2, <1>3, <1>4 DEF Inv

LEMMA RewatchSafe == Inv /\ Rewatch => Inv'
<1> SUFFICES ASSUME Inv, Rewatch PROVE Inv'
  OBVIOUS
<1>1. /\ pc' \in [main : MainLabels, watcher : WatcherLabels]
      /\ pc'.main = pc.main /\ pc'.watcher = "stat"
  BY GotoMeans DEF Inv, TypeOK, Rewatch, Processes, WatcherLabels
<1>2. TypeOK'
  BY <1>1, StoredStays DEF Inv, TypeOK, Rewatch, AddWatch, disk, memory, syncing, faults
<1>3. OneSync' /\ Checked' /\ HalfSynced' /\ Settled' /\ Fresh'
  BY <1>1 DEF Inv, OneSync, Checked, HalfSynced, Settled, Fresh, Running, Started, Rewatch,
              ClusterURLs, Told, disk, memory, syncing, faults
<1> QED BY <1>2, <1>3 DEF Inv

-----------------------------------------------------------------------------
(* The environment.                                                         *)

\* A change of the file is told or missed.
LEMMA EditSafe ==
  ASSUME Inv, NEW content \in Contents \cup {NoFile}, NEW event \in {"write", "remove"},
         Edit(content, event)
  PROVE  Inv'
<1>1. TypeOK'
  BY StoredStays, WatcherAssumption DEF Inv, TypeOK, Edit, memory, syncing, faults
<1>2. OneSync' /\ Checked' /\ HalfSynced' /\ Settled'
  BY DEF Inv, OneSync, Checked, HalfSynced, Settled, Running, Edit, ClusterURLs, memory, syncing
<1>3. Told' => pc.main = "down"
  <2>1. CASE watched
    BY <2>1 DEF Inv, TypeOK, Edit, Told
  <2>2. CASE ~watched
    BY <2>2 DEF Edit, Told
  <2> QED BY <2>1, <2>2
<1>4. Fresh'
  BY <1>3 DEF Inv, OneSync, Fresh, Running, Started, Edit
<1> QED BY <1>1, <1>2, <1>4 DEF Inv

\* The bound of the outages is kept.
LEMMA LoseServiceMeans ==
  ASSUME Inv, NEW s \in Services, LoseService(s)
  PROVE  /\ reachable' \subseteq Services
         /\ outages' \in 0..MaxOutages
         /\ UNCHANGED <<launch, crashes>>
  BY WatcherAssumption DEF Inv, TypeOK, LoseService

LEMMA ServicesSafe == Inv /\ (Outage \/ Recovery) => Inv'
<1> SUFFICES ASSUME Inv, Outage \/ Recovery PROVE Inv'
  OBVIOUS
<1>1. TypeOK'
  <2>1. Store!RegistryTypeOK'
    BY StoredStays DEF Inv, TypeOK, Outage, Recovery
  <2>2. /\ reachable' \subseteq Services
        /\ outages' \in 0..MaxOutages
        /\ UNCHANGED <<launch, crashes>>
    BY LoseServiceMeans DEF Inv, TypeOK, Outage, Recovery
  <2>3. UNCHANGED <<file, edits, missed, watched, events, pc, source, clusters, configError, err,
                    pending, toDelete, failed>>
    BY DEF Outage, Recovery, disk, notify, memory, syncing
  <2> QED BY <2>1, <2>2, <2>3 DEF Inv, TypeOK
<1>2. OneSync' /\ Checked' /\ HalfSynced' /\ Settled' /\ Fresh'
  BY DEF Inv, OneSync, Checked, HalfSynced, Settled, Fresh, Running, Started, Outage, Recovery,
         ClusterURLs, Told, disk, notify, memory, syncing
<1> QED BY <1>1, <1>2 DEF Inv

\* A save whose COMMIT is lost is remembered as a failure of the sync.
LEMMA LoseCommitSafe == ASSUME NEW p \in Processes, Inv, LoseCommit(p) PROVE Inv'
<1> Running({"save"}) /\ failed' = TRUE /\ pending' \subseteq pending
  BY DEF LoseCommit, Running, Processes
<1>1. TypeOK'
  <2>1. /\ reachable' \subseteq Services
        /\ outages' \in 0..MaxOutages
        /\ UNCHANGED <<launch, crashes>>
    BY LoseServiceMeans DEF LoseCommit, Services
  <2> QED BY <2>1, StoredStays DEF Inv, TypeOK, LoseCommit, disk, notify, memory
<1>2. OneSync' /\ Checked' /\ Settled' /\ Fresh'
  BY DEF Inv, OneSync, Checked, Settled, Fresh, Running, Started, LoseCommit, Told,
         disk, notify, memory
<1>3. HalfSynced'
  BY DEF Inv, HalfSynced, Running, LoseCommit, ClusterURLs, memory
<1> QED BY <1>1, <1>2, <1>3 DEF Inv

LEMMA CrashSafe == Inv /\ Crash => Inv'
  BY ExitSafe, WatcherAssumption DEF Inv, TypeOK, Crash, disk

-----------------------------------------------------------------------------

LEMMA InitInv == Init => Inv
<1> SUFFICES ASSUME Init PROVE Inv
  OBVIOUS
<1>1. {} \in Decodable
  BY DEF Decodable
<1>2. Store!RegistryTypeOK
  <2>1. stored \in Decodable /\ \A e \in stored : e.attributes # Missing
    BY WatcherAssumption DEF Init
  <2> QED BY <2>1 DEF Decodable, Entries, Store!RegistryTypeOK, Store!RegisteredURLs
<1>3. TypeOK
  <2>1. {} \subseteq Messages /\ {} \subseteq APIURLs /\ {} \subseteq clusters
    OBVIOUS
  <2>2. <<>> \in Seq({"write", "remove"})
    OBVIOUS
  <2>3. [main |-> "down", watcher |-> "off"] \in [main : MainLabels, watcher : WatcherLabels]
    BY DEF MainLabels, WatcherLabels
  <2>4. 0 \in 0..MaxEdits /\ 0 \in 0..MaxCrashes /\ 0 \in 0..MaxOutages
    BY WatcherAssumption
  <2> QED BY <1>1, <1>2, <2>1, <2>2, <2>3, <2>4 DEF Init, TypeOK
<1>4. OneSync /\ Checked /\ HalfSynced /\ Settled /\ Fresh
  BY DEF Init, OneSync, Checked, HalfSynced, Settled, Fresh, Running, Started
<1> QED BY <1>3, <1>4 DEF Inv

LEMMA NextInv == Inv /\ [Next]_vars => Inv'
<1> SUFFICES ASSUME Inv, [Next]_vars PROVE Inv'
  OBVIOUS
<1>1. ASSUME NEW p \in Processes, LoadAndSync(p) PROVE Inv'
  BY <1>1, StatSafe, ReadSafe, ListSafe, SaveSafe, PurgeSafe, SyncFailsSafe DEF LoadAndSync
<1>2. CASE Main
  BY <1>1, <1>2, StartSafe, ConnectSafe, MigrateSafe, WatchSafe, AddSafe, ReturnSafe,
     SecureSafe
     DEF Main, Processes
<1>3. CASE Watcher
  BY <1>1, <1>3, SelectSafe, RewatchSafe DEF Watcher, Processes
<1>4. CASE Environment
  BY <1>4, EditSafe, ServicesSafe, LoseCommitSafe, CrashSafe
     DEF Environment, Processes, WriteFile, ReplaceFile, RemoveFile, CreateFile
<1>5. CASE UNCHANGED vars
  <2>1. Store!RegistryTypeOK'
    BY <1>5, StoredStays DEF Inv, TypeOK, vars
  <2>2. UNCHANGED <<file, edits, missed, watched, events, pc, source, clusters, configError, err,
                    pending, toDelete, failed, reachable, launch, crashes, outages>>
    BY <1>5 DEF vars, disk, notify, memory, syncing, faults
  <2>3. TypeOK'
    BY <2>1, <2>2 DEF Inv, TypeOK
  <2>4. OneSync' /\ Checked' /\ HalfSynced' /\ Settled' /\ Fresh'
    BY <1>5 DEF Inv, OneSync, Checked, HalfSynced, Settled, Fresh, Running, Started,
                ClusterURLs, Told, vars, disk, notify, memory, syncing
  <2> QED BY <2>3, <2>4 DEF Inv
<1> QED BY <1>2, <1>3, <1>4, <1>5 DEF Next

\* What a process reported stays reported: the messages are only ever added to, and
\* the clusters are those of the binary only when that is among them.  It takes
\* files that do not hold the built-in clusters themselves.
OwnContents == \A c \in Contents : c.clusters # BuiltIn.clusters

LEMMA ReadReported ==
  ASSUME OwnContents, NEW p \in Processes, Inv, Reported, Read(p)
  PROVE  Reported'
<1>1. CASE Exit
  BY <1>1 DEF Exit, Reported, Started
<1>2. CASE ~Exit
  <2>1. /\ Remember(p)
        /\ Passes \/ p = "watcher"
        /\ pc[p] = "read" /\ UNCHANGED launch
    BY <1>2 DEF Read, faults
  <2>2. settings' = settings /\ SettingsMessages' = SettingsMessages
    BY <2>1 DEF settings, SettingsMessages, GetClusterServiceURL, GetAuthServiceURL,
                configFileFromFlags
  <2>3. SettingsMessages \subseteq configError'
    BY <2>1 DEF Remember, Reported, Started, Inv, OneSync, Processes
  <2>4. ASSUME clusters' = BuiltIn.clusters
        PROVE  "clusters file is not used" \in configError'
    <3>1. CASE source = "built-in"
      BY <3>1, <2>1 DEF Remember
    <3>2. CASE source # "built-in" /\ Decodes
      <4>1. Content \in Contents /\ clusters' = Content.clusters
        BY <3>2, <2>1, RememberMeans DEF Decodes, Content, Inv, TypeOK
      <4> QED BY <4>1, <2>4 DEF OwnContents
    <3>3. CASE ~Decodes
      <4>1. p = "watcher" /\ clusters = BuiltIn.clusters
        BY <3>3, <2>1, <2>4, RememberMeans DEF Passes
      <4> QED BY <4>1, <2>1 DEF Remember, Reported, Started, Inv, OneSync
    <3> QED BY <3>1, <3>2, <3>3
  <2> QED BY <2>2, <2>3, <2>4 DEF Reported
<1> QED BY <1>1, <1>2

LEMMA NextReported ==
  ASSUME OwnContents, Inv, Reported, [Next]_vars
  PROVE  Reported'
<1>1. \/ \E p \in Processes : Read(p)
      \/ Exit
      \/ UNCHANGED <<clusters, configError, launch>> /\ (Started' => Started)
  <2>1. ASSUME NEW p \in Processes, LoadAndSync(p), ~Read(p), ~Exit
        PROVE  UNCHANGED <<clusters, configError, launch>> /\ (Started' => Started)
    <3> USE DEF Started, Processes, memory, faults
    <3>1. CASE Stat(p)
      BY <3>1, <2>1, GotoMeans DEF Stat, Inv, TypeOK, MainLabels, WatcherLabels
    <3>2. CASE List(p) \/ Save(p) \/ Purge(p) \/ SyncFails(p)
      BY <3>2, <2>1
         DEF List, Save, Purge, SyncFails, Inv, OneSync
    <3> QED BY <2>1, <3>1, <3>2 DEF LoadAndSync
  <2>2. CASE Start
    BY <2>2, GotoMeans
       DEF Start, Inv, TypeOK, Processes, MainLabels, Started, memory, faults
  <2>3. ASSUME Connect \/ Migrate \/ Watch \/ Add \/ Return \/ Secure \/ Select \/ Rewatch, ~Exit
        PROVE  UNCHANGED <<clusters, configError, launch>> /\ (Started' => Started)
    BY <2>3 DEF Connect, Migrate, Watch, Add, Return, Secure, Select, Rewatch, Inv, OneSync, Started,
                memory, faults
  <2>4. CASE Environment
    BY <2>4 DEF Environment, WriteFile, ReplaceFile, RemoveFile, CreateFile, Edit, Outage,
                Recovery, LoseCommit, LoseService, Crash, Started, memory, faults
  <2>5. CASE UNCHANGED vars
    BY <2>5 DEF vars, Started, memory, faults
  <2> QED BY <2>1, <2>2, <2>3, <2>4, <2>5 DEF Next, Main, Watcher, Processes
<1>2. CASE \E p \in Processes : Read(p)
  BY <1>2, ReadReported
<1>3. CASE Exit
  BY <1>3 DEF Exit, Reported, Started
<1>4. CASE UNCHANGED <<clusters, configError, launch>> /\ (Started' => Started)
  BY <1>4 DEF Reported, SettingsMessages, settings, GetClusterServiceURL, GetAuthServiceURL,
              configFileFromFlags
<1> QED BY <1>1, <1>2, <1>3, <1>4

LEMMA InvAlways == Spec => []Inv
  BY InitInv, NextInv, PTL DEF Spec

\* Every variable keeps to its type; in particular the database never holds two
\* clusters of one URL, nor one without a required attribute, whatever the files
\* say, and a sync never has anything to save that is not loaded.
THEOREM WatcherTyped == Spec => []TypeOK
<1>1. Inv => TypeOK
  BY DEF Inv
<1> QED BY <1>1, InvAlways, PTL

\* With the syncs of the start and of the goroutine run one cluster at a time, cut
\* short by crashes and outages, the database is what is loaded whenever nothing
\* runs and no transaction of the last sync failed, for every file and every number
\* of clusters.
THEOREM IdleServiceIsSynced == Spec => []IdleMeansStored
<1>1. Inv => IdleMeansStored
  BY DEF Inv, Settled, IdleMeansStored
<1> QED BY <1>1, InvAlways, PTL

\* A service that waits for events is out of step with a usable file only if a
\* change was made while nothing watched: any number of edits in any order.
THEOREM NoEventIsLost == Spec => []StaleMeansMissed
<1>1. Inv => StaleMeansMissed
  BY DEF Inv, Fresh, Told, Started, Up, StaleMeansMissed
<1> QED BY <1>1, InvAlways, PTL

\* The database changes only while what is loaded has passed the check.
THEOREM RejectedIsNeverStored == Spec => RejectedNeverStored
<1>1. Inv /\ [Next]_vars => [stored' # stored => clusters \in Accepted]_vars
  <2> SUFFICES ASSUME Inv, Next, stored' # stored PROVE clusters \in Accepted
    OBVIOUS
  <2>1. \E p \in Processes : Save(p) \/ Purge(p)
    BY DEF Next, Main, Watcher, Environment, LoadAndSync, Processes, Start, Stat, Read, List,
           SyncFails, Connect, Migrate, Watch, Add, Return, Secure, Select, Rewatch, WriteFile,
           ReplaceFile, RemoveFile, CreateFile, Edit, Outage, Recovery, LoseCommit, Crash
  <2> QED BY <2>1 DEF Inv, Checked, Running, Save, Purge, Processes
<1> QED BY <1>1, InvAlways, PTL DEF Spec, RejectedNeverStored

\* Where no file holds the clusters of the binary, a status of 200 outside
\* developer mode vouches for the clusters and for every setting it depends on,
\* after any number of reloads.
THEOREM DefaultsAreNeverHidden == ASSUME OwnContents PROVE Spec => []DefaultsAreReported
<1>1. Init => Reported
  BY DEF Init, Reported, Started
<1>2. Inv /\ Reported /\ [Next]_vars => Reported'
  BY NextReported
<1>3. Inv /\ Reported => DefaultsAreReported
  <2> SUFFICES ASSUME Inv, Reported, Up, StatusOK, ~settings.developerMode
               PROVE  /\ clusters # BuiltIn.clusters
                      /\ settings.password = "own"
                      /\ settings.environment # "local" \/ settings.clusterServiceURL = "valid"
                      /\ settings.authURL = "valid"
                      /\ settings.sentryDSN # ""
    BY DEF DefaultsAreReported
  <2>1. settings \in Settings
    BY WatcherAssumption DEF settings
  <2>2. configError = {}
    BY DEF StatusOK
  <2>3. clusters # BuiltIn.clusters /\ \A m \in Messages : m \notin SettingsMessages
    BY <2>2 DEF Reported, Started, Up
  <2>4. /\ settings.password # "default"
        /\ GetClusterServiceURL \notin {"empty", "invalid", "localhost"}
        /\ GetAuthServiceURL \notin {"empty", "invalid"}
        /\ settings.sentryDSN # ""
    BY <2>3 DEF SettingsMessages, Messages
  <2>5. settings.password = "own" /\ settings.authURL = "valid"
    BY <2>1, <2>4 DEF Settings, GetAuthServiceURL
  <2>6. settings.environment # "local" \/ settings.clusterServiceURL = "valid"
    BY <2>1, <2>4 DEF Settings, GetClusterServiceURL
  <2> QED BY <2>3, <2>4, <2>5, <2>6
<1> QED BY <1>1, <1>2, <1>3, InvAlways, PTL DEF Spec
=============================================================================
