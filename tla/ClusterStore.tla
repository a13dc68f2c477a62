---------------------------- MODULE ClusterStore ----------------------------
(***************************************************************************)
(* The database of the cluster service: the tables cluster and             *)
(* identity_cluster, as the migrations leave them, and the SQL statements   *)
(* the repositories send to them.  A table is a set of rows; a statement    *)
(* is an operator from tables to tables (or to the rows it selects), so     *)
(* that the modules which run statements concurrently decide when each one  *)
(* takes effect.                                                            *)
(*                                                                          *)
(* A URL is an API server and whether the text ends with a slash: that is   *)
(* all the code looks at.  Of the other columns of a cluster the token      *)
(* provider ID stands for the rest; it is the only one the service itself   *)
(* computes from what is stored.                                            *)
(***************************************************************************)
CONSTANTS Servers,        \* API servers: URLs without their trailing slash
          ClusterIDs,     \* the UUIDs uuid.NewV4 may return
          NilID,          \* uuid.Nil, the cluster ID of a new object
          Identities,     \* identity IDs
          TokenProviders, \* token provider IDs a caller or a config file may give
          Blank           \* a token provider ID left empty

ASSUME StoreAssumption ==
  /\ NilID \notin ClusterIDs
  /\ Blank \notin TokenProviders \cup ClusterIDs

URLs == [server : Servers, slash : BOOLEAN]

AddTrailingSlashToURL(u) == [u EXCEPT !.slash = TRUE]

\* A token provider ID generated by validate is the text of a cluster ID.
StoredTokens == TokenProviders \cup ClusterIDs

ClusterRows == [cluster_id : ClusterIDs, url : URLs, token_provider_id : StoredTokens]

LinkRows == [identity_id : Identities, cluster_id : ClusterIDs]

-----------------------------------------------------------------------------
(* Statements on table cluster. *)

\* SELECT ... WHERE url = <the URL with its slash added>
FindByURL(cluster, u) == {c \in cluster : c.url = AddTrailingSlashToURL(u)}

\* SELECT ... WHERE cluster_id = id
Load(cluster, id) == {c \in cluster : c.cluster_id = id}

\* Mutant: idx_cluster_url as migration 003 made it, not unique.
InsertViolates_NotUnique(cluster, row) ==
  \E c \in cluster : c.cluster_id = row.cluster_id

\* Primary key and unique index idx_cluster_url: what INSERT is refused for.
InsertViolates(cluster, row) ==
  \E c \in cluster : c.cluster_id = row.cluster_id \/ c.url = row.url

\* Mutant: UPDATE without its WHERE.
Update_EveryRow(cluster, row) ==
  {[c EXCEPT !.token_provider_id = row.token_provider_id] : c \in cluster}

\* UPDATE ... WHERE cluster_id = row.cluster_id, all columns.
Update(cluster, row) ==
  {c \in cluster : c.cluster_id # row.cluster_id} \cup {row}

\* Mutant: the links stay, as without migration 002.
CascadeLinks_Not(links, id) == links

\* DELETE ... WHERE cluster_id = id, and the ON DELETE CASCADE of the links.
DeleteCluster(cluster, id) == {c \in cluster : c.cluster_id # id}
CascadeLinks(links, id)    == {l \in links : l.cluster_id # id}

-----------------------------------------------------------------------------
(* Statements on table identity_cluster. *)

\* SELECT ... WHERE identity_id = identity AND cluster_id = id
LinkExists(links, identity, id) ==
  \E l \in links : l.identity_id = identity /\ l.cluster_id = id

\* Primary key and foreign key: what INSERT is refused for.
InsertLinkViolates(cluster, links, row) ==
  row \in links \/ Load(cluster, row.cluster_id) = {}

\* The rows of DELETE ... WHERE identity_id = identity AND cluster_id =
\* (SELECT cluster_id FROM cluster WHERE url = u): u as the caller wrote it.
UnlinkedRows(cluster, links, identity, u) ==
  {l \in links : /\ l.identity_id = identity
                 /\ \E c \in cluster : c.cluster_id = l.cluster_id /\ c.url = u}

-----------------------------------------------------------------------------
(* What the schema and the migrations say of the two tables together. *)

PrimaryKey(cluster) ==
  \A c, d \in cluster : c.cluster_id = d.cluster_id => c = d

UniqueURL(cluster) ==
  \A c, d \in cluster : c.url = d.url => c = d

\* Migration 007 added the slash to every stored URL.
NormalizedURLs(cluster) == \A c \in cluster : c.url.slash

ForeignKey(cluster, links) ==
  \A l \in links : Load(cluster, l.cluster_id) # {}

WellFormed(cluster, links) ==
  /\ cluster \subseteq ClusterRows
  /\ links \subseteq LinkRows
  /\ PrimaryKey(cluster)
  /\ UniqueURL(cluster)
  /\ NormalizedURLs(cluster)
  /\ ForeignKey(cluster, links)
=============================================================================
