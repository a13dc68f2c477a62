---------------------- MODULE ClusterServiceProperties ----------------------
(***************************************************************************)
(* What the writers of ClusterService guarantee together.                   *)
(***************************************************************************)
EXTENDS ClusterService

\* The URL a request is about, as the tables have it.
RequestedURL(r) == AddTrailingSlashToURL(call[r].url)

\* The step in which request r is answered a.
Answered(r, a) == pc[r] # "done" /\ pc'[r] = "done" /\ answer'[r] = a

-----------------------------------------------------------------------------
(* Invariants.                                                              *)

\* No two rows for one API server, whoever stored them (the API, or a worker
\* of any replica) and whether or not they wrote the URL with its slash.
OneClusterPerServer ==
  \A c, d \in cluster : c.url.server = d.url.server => c = d

\* A link always leads to a stored cluster: links raced by a delete of their
\* cluster are refused, or go with it (the cascade of migration 002).
NoDanglingLink == ForeignKey(cluster, identity_cluster)

\* The cluster ID a process read (or made up) for a URL, in a statement before
\* the one that uses it.
Holds(p) ==
  \/ pc[p] \in {"update", "first", "insert", "link.load", "link.insert"}
  \/ p \in Replicas /\ pc[p] \in Deleting

\* Such an ID may be stale: the cluster may be gone, may be back under another
\* ID, or under the same one (gorm's Save re-inserts it).  It never denotes a
\* cluster of another URL, so that no process saves, links or deletes another
\* cluster than the one it was asked to.
StaleIDsAreHarmless ==
  /\ \A p \in Procs : Holds(p) =>
       \A c \in Load(cluster, obj[p].cluster_id) :
         c.url = AddTrailingSlashToURL(obj[p].url)
  /\ \A w \in Replicas : \A c \in sync[w].toDelete :
       \A d \in Load(cluster, c.cluster_id) : d.url = c.url

\* The API wrote, or may have written, the cluster of URL u.
TouchedByAPI(u) ==
  \E r \in Requests : \/ call[r] \in DeleteCalls
                      \/ call[r] \in CreateCalls /\ RequestedURL(r) = u

\* The table says of URL u what a configuration says: a row if there is an
\* entry, with the attributes of the entry (of one of them, if it is written
\* with and without its slash), and no row if there is none.
AsConfigured(config, u) ==
  LET entries == {e \in config : AddTrailingSlashToURL(e.url) = u}
      rows    == {c \in cluster : c.url = u}
  IN /\ entries # {} <=> rows # {}
     /\ \A c \in rows : \E e \in entries : c.token_provider_id = e.token_provider_id

\* Nothing runs, and every replica that ever synced did so last with the
\* configuration of w's last sync, and without an error.
Settled(w) ==
  /\ sync[w].result = "ok"
  /\ \A v \in Replicas :
       /\ pc[v] = "idle"
       /\ \/ sync[v].runs = 0
          \/ sync[v].result = "ok" /\ sync[v].config = sync[w].config

\* Once they have settled, every URL the API did not write is as configured,
\* whatever earlier syncs with other configurations left, and however the syncs
\* of the replicas overlapped, unless the last sync of one of them dropped an
\* error: that of a delete, or that of a COMMIT.  A failure in an earlier sync,
\* or one that ended a sync, does no harm.
SyncedMeansConfigured ==
  \A w \in Replicas : Settled(w) /\ swallowed = {} =>
    \A u \in URLs : ~TouchedByAPI(u) => AsConfigured(sync[w].config, u)

\* "Clusters which don't exist in the configuration will be deleted from DB":
\* once they have settled, none of those is left.
OthersAreDeleted ==
  \A w \in Replicas : Settled(w) =>
    \A c \in cluster : ~TouchedByAPI(c.url) =>
      \E e \in sync[w].config : AddTrailingSlashToURL(e.url) = c.url

-----------------------------------------------------------------------------
(* What a step may do.                                                      *)

\* A sync deletes no cluster its configuration has, although it decides what
\* to delete from a list read before its saves and other writers.
SyncKeepsConfigured ==
  [][\A w \in Replicas : pc[w] = "delete" /\ pc'[w] = "purge" =>
       \A c \in cluster \ cluster', e \in sync[w].config :
         AddTrailingSlashToURL(e.url) # c.url]_vars

\* A create answered "created" names in its Location header (the ID of its
\* object) the row stored at that moment for the URL it asked for, unless its
\* COMMIT failed in that very step: no other statement that failed, no conflict
\* and no row that came and went between its statements is answered so.
CreatedIsStored ==
  [][\A r \in Requests : Answered(r, "ok") /\ call[r] \in CreateCalls =>
       \/ LoseCommit(r)
       \/ obj'[r] \in cluster' /\ obj'[r].url = RequestedURL(r)]_vars

\* A link answered without an error exists when it is answered, for the
\* identity and the URL of the request, although the cluster was looked up in
\* an earlier statement, unless its COMMIT failed in that very step.
LinkedMeansLinked ==
  [][\A r \in Requests : Answered(r, "ok") /\ call[r] \in LinkCalls =>
       \/ LoseCommit(r)
       \/ \E c \in cluster' : /\ c.url = RequestedURL(r)
                              /\ LinkExists(identity_cluster', call[r].identity_id,
                                            c.cluster_id)]_vars

\* "Create creates a new cluster configuration for later use": when it is answered
\* "created", there is a cluster of that URL to use.
CreatedForLaterUse ==
  [][\A r \in Requests : Answered(r, "ok") /\ call[r] \in CreateCalls =>
       \E c \in cluster' : c.url = RequestedURL(r)]_vars

\* "Ignore creation error if this identity already exists": a link request
\* that says so is not refused because of a link that exists.
ExistingLinkIsIgnored ==
  [][\A r \in Requests :
       Answered(r, "internal error") /\ call[r] \in LinkCalls /\ call[r].ignoreIfExists =>
         ~LinkExists(identity_cluster, call[r].identity_id, obj[r].cluster_id)]_vars

\* A request that leaves the token provider ID blank does not change that of a
\* stored cluster.
BlankTokenKeepsStored ==
  [][\A r \in Requests : pc[r] \in Saving /\ call[r].token_provider_id = Blank =>
       (pc'[r] = "done" =>
          \A c \in cluster : c.url = RequestedURL(r) => c \in cluster')]_vars

-----------------------------------------------------------------------------
(* Termination and liveness.                                                *)

\* The statements a call has before it, at most, on the cluster it is at.
StatementsLeft(label) ==
  CASE label \in {"done", "idle"} -> 0
    [] label = "purge"           -> 1
    [] label = "next"            -> 2
    [] label \in {"insert", "delete", "link.insert", "unlink"} -> 3
    [] label \in {"first", "load", "link.load"} -> 4
    [] label \in {"update", "link.find"} -> 5
    [] label = "find"            -> 6
    [] label = "lookup"          -> 7
    [] label = "new"             -> 8

\* A step of p takes an entry of its configuration, or else a row of its list,
\* or else comes closer to its end on the cluster it is at.
Advances(p) ==
  \/ /\ p \in Replicas
     /\ sync'[p].pending \subseteq sync[p].pending
     /\ sync'[p].pending # sync[p].pending
  \/ /\ p \in Replicas
     /\ sync'[p].pending = sync[p].pending
     /\ sync'[p].toDelete \subseteq sync[p].toDelete
     /\ sync'[p].toDelete # sync[p].toDelete
  \/ /\ p \in Replicas => /\ sync'[p].pending = sync[p].pending
                           /\ sync'[p].toDelete = sync[p].toDelete
     /\ StatementsLeft(pc'[p]) < StatementsLeft(pc[p])

BeginsSync(p) == p \in Replicas /\ pc[p] = "idle" /\ sync'[p].runs = sync[p].runs + 1

StaysWhereItIs(p) == pc'[p] = pc[p] /\ (p \in Replicas => sync'[p] = sync[p])

\* Every step takes one call closer to its end, or begins a sync, and takes no
\* other call further from its end: no save goes round in circles, although one
\* whose row others delete and bring back runs statements that were not written
\* for it (gorm's Save), and no sync does, although others store what it deletes.
EveryStepAdvances ==
  [][\E p \in Procs : /\ Advances(p) \/ BeginsSync(p)
                      /\ \A q \in Procs \ {p} : StaysWhereItIs(q)]_vars

\* Every request that has arrived is answered, and every sync that has begun
\* ends, whatever the others do to the rows they work on.
EveryCallReturns ==
  /\ \A r \in Requests : pc[r] # "new" ~> pc[r] = "done"
  /\ \A w \in Replicas : pc[w] # "idle" ~> pc[w] = "idle"

-----------------------------------------------------------------------------
(* The registry this implements: clusters by URL, links by identity and URL. *)

RegistryView == INSTANCE Registry WITH
  APIURLs    <- URLs,
  Attributes <- StoredTokens,
  registered <- {[url |-> c.url, attributes |-> c.token_provider_id] : c \in cluster},
  links      <- {l \in [identity : Identities, url : URLs] :
                   \E c \in cluster : /\ c.url = l.url
                                      /\ LinkExists(identity_cluster, l.identity,
                                                    c.cluster_id)}

\* Every step registers or deregisters one URL, links or unlinks one identity,
\* or changes nothing a client sees: saves keep links, deletes take the links
\* to their cluster and no other, whichever IDs the rows have.
ImplementsRegistry == RegistryView!RegistrySpec
=============================================================================
