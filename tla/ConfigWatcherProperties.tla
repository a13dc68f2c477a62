---------------------- MODULE ConfigWatcherProperties ----------------------
(***************************************************************************)
(* What a replica makes of its configuration file.                          *)
(***************************************************************************)
EXTENDS ConfigWatcher

Up == pc.main = "serving"

\* While nothing runs, and unless a transaction of the last sync failed (a lost
\* COMMIT and an entry that cannot be normalized included), the
\* database is what was last loaded, if the check let it pass, whatever crashes,
\* outages and failed starts lie behind: a sync that was cut short is done again
\* before the service serves.
IdleMeansStored ==
  Up /\ pc.watcher = "select" /\ ~failed /\ clusters \in Accepted => stored = clusters

\* The service is out of step with a usable file only if the file changed while
\* nothing watched it: between the look at the path and the watch at a start, or
\* between a Remove event and the renewed watch.  Whatever changes while it is
\* watched is loaded before the goroutine waits again.
StaleMeansMissed ==
  Up /\ pc.watcher = "select" /\ events = <<>> /\ ~missed /\ file \in Usable =>
    clusters = file.clusters

\* A configuration that the check rejects is in memory at once, because the
\* check comes last, and still never changes the database.
RejectedNeverStored == [][stored' # stored => clusters \in Accepted]_vars

\* A service that answers 200 to a status request is not in developer mode with
\* the clusters of the binary, nor with a default where a deployment needs a value
\* of its own; a reload that fell back on the built-in clusters is reported like a
\* start that did, and no later reload takes the report back.
DefaultsAreReported ==
  Up /\ StatusOK /\ ~settings.developerMode =>
    /\ clusters # BuiltIn.clusters
    /\ settings.password = "own"
    /\ settings.environment # "local" \/ settings.clusterServiceURL = "valid"
    /\ settings.authURL = "valid"
    /\ settings.sentryDSN # ""

\* What a sync can store: the check lets it pass, and Normalize finds the host it
\* needs in every entry.
Applicable == {c \in Usable : c.clusters \cap Underivable = {}}

\* Every event ends in a reload of what the file is by then: unless it changes
\* again, or the database goes out of reach, the database becomes what the file
\* says, if a sync can store that.  A change between a Remove event and the renewed
\* watch is no exception, because the reload comes after the watch.
EventsApply ==
  \A c \in Contents \cap Applicable :
    (Up /\ file = c /\ events # <<>>) ~>
      \/ clusters = c.clusters /\ stored = c.clusters
      \/ file # c \/ pc.main = "down" \/ "database" \notin reachable

\* With a file that stays as it is and that a sync can store, and a database and an
\* auth service that stay in reach, the service ends up serving, whatever happened
\* while it started: also after starts that ended in a panic at another content, at
\* an event of the goroutine, or for want of keys.
ServiceComesUp ==
  \A c \in Contents \cap Applicable :
    <>[](file = c /\ reachable = Services) => <>[]Up

-----------------------------------------------------------------------------
(* What the comments say.                                                   *)

\* "When the file is updated the configuration synchronously reload the cluster
\* configuration": a service that serves and has the file loaded gets to use the
\* usable contents the file is updated to later, unless its status asks for a
\* restart.
UpdatesAreLoaded ==
  \A c \in Usable \cap Contents :
    [](Up /\ file # NoFile /\ file # c /\ clusters = file.clusters
         => [](file = c => <>(clusters = c.clusters \/ file # c
                                 \/ pc.main = "down" \/ ~StatusOK)))

\* "Do not crash. Log the error and keep using the existing configuration": a
\* failed reload does not end the process, also while main is still on its way out
\* of InitializeClusterWatcher with a file that it does watch.
ReloadErrorsAreLogged ==
  [][pc.main = "return" /\ watched /\ pc'.main = "down" => crashes' # crashes]_vars
=============================================================================
