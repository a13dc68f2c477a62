--------------------------- MODULE ClusterQueries ---------------------------
(***************************************************************************)
(* The operations that only read, run beside the writers of ClusterService: *)
(* the listings and lookups of clusters, with or without the credentials,   *)
(* and the clusters of a user.                                              *)
(*                                                                          *)
(* Every one is a single SELECT but the last: gorm's Preload reads the      *)
(* links of the identity first and their clusters by a second statement,    *)
(* and no transaction holds the two together.                               *)
(***************************************************************************)
EXTENDS ClusterService

CONSTANTS Readers,   \* HTTP requests that read
          Queries,   \* the calls they may make
          EmptyURL   \* the URL of a Cluster that was never filled in

ListingAccounts == {"fabric8-oso-proxy", "fabric8-tenant", "fabric8-jenkins-idler",
                    "fabric8-jenkins-proxy", "fabric8-auth"}

\* The calls that read, as the design names them.  A type is the set of the
\* attributes whose clusters have it; "find" is a listing with a cluster-url.
ListCalls == [op : {"list", "listForAuthClient"}, account : ListingAccounts \cup Accounts,
              type : SUBSET StoredTokens]
FindCalls == [op : {"find", "findForAuthClient"}, account : ListingAccounts \cup Accounts,
              url : URLs]
ShowCalls == [op : {"show", "showForAuthClient"}, account : ListingAccounts \cup Accounts,
              cluster_id : ClusterIDs]
UserCalls == [op : {"clusters"}, identity_id : Identities \cup {"none"}]
QueryCalls == ListCalls \cup FindCalls \cup ShowCalls \cup UserCalls

ForAuth == {"listForAuthClient", "findForAuthClient", "showForAuthClient"}

\* What an answer tells of a cluster: app.ClusterData and app.FullClusterData.
ClusterData(u)        == [url |-> u]
FullClusterData(u, t) == [url |-> u, token_provider_id |-> t]

AnswerURLs == URLs \cup {EmptyURL}

\* An entry of an answer: the cluster it stands for, and what it tells of it.
Entries == [cluster_id : ClusterIDs,
            data : {ClusterData(u) : u \in AnswerURLs} \cup
                   {FullClusterData(u, t) : u \in URLs, t \in StoredTokens}]

ASSUME QueryAssumption ==
  /\ Queries \subseteq QueryCalls
  /\ "none" \notin Identities
  /\ EmptyURL \notin URLs

VARIABLES
  qpc,      \* the statement each reader is about to run
  query,    \* its call
  reply,    \* the answer it got
  linked,   \* the cluster IDs of the links the first SELECT found
  seen      \* history: the rows of those clusters at that moment

queries == <<qpc, query, reply, linked, seen>>

Replies == [answer : Answers \cup {"none"}, data : SUBSET Entries]

NoReply == [answer |-> "none", data |-> {}]

QueriesTypeOK ==
  /\ qpc \in [Readers -> {"new", "select", "preload", "done"}]
  /\ query \in [Readers -> QueryCalls \cup {None}]
  /\ reply \in [Readers -> Replies]
  /\ linked \in [Readers -> SUBSET ClusterIDs]
  /\ seen \in [Readers -> SUBSET ClusterRows]

QInit ==
  /\ Init
  /\ qpc = [r \in Readers |-> "new"]
  /\ query = [r \in Readers |-> None]
  /\ reply = [r \in Readers |-> NoReply]
  /\ linked = [r \in Readers |-> {}]
  /\ seen = [r \in Readers |-> {}]

Respond(r, a, data) ==
  /\ qpc' = [qpc EXCEPT ![r] = "done"]
  /\ reply' = [reply EXCEPT ![r] = [answer |-> a, data |-> data]]

-----------------------------------------------------------------------------
(* Authorization and parameters, before the first statement.                *)

\* Mutant: the five accounts of the listings may have the credentials too.
QueryPermitted_Any(q) == q \notin UserCalls => q.account \in ListingAccounts

\* Every identity may ask for its own clusters.
QueryPermitted(q) ==
  q \notin UserCalls =>
    q.account \in IF q.op \in ForAuth THEN {"fabric8-auth"} ELSE ListingAccounts

\* What there is to say against a permitted call: a malformed cluster-url, a
\* token without an identity.
Objections(q) ==
  {a \in {"bad parameter", "internal error"} :
     \/ a = "bad parameter" /\ q \in FindCalls /\ q.url.server \in Malformed
     \/ a = "internal error" /\ q \in UserCalls /\ q.identity_id = "none"}

ReceiveQuery(r) ==
  /\ qpc[r] = "new"
  /\ \E q \in Queries :
       /\ query' = [query EXCEPT ![r] = q]
       /\ \/ ~QueryPermitted(q) /\ Respond(r, "unauthorized", {})
          \/ /\ QueryPermitted(q)
             /\ \E a \in Objections(q) : Respond(r, a, {})
          \/ /\ QueryPermitted(q)
             /\ Objections(q) = {}
             /\ qpc' = [qpc EXCEPT ![r] = "select"]
             /\ UNCHANGED reply
  /\ UNCHANGED <<vars, linked, seen>>

-----------------------------------------------------------------------------
(* The statements.                                                          *)

\* The rows a query by type, URL or ID selects.
Selected(q) ==
  CASE q \in ListCalls -> {c \in cluster : c.token_provider_id \in q.type}
    [] q \in FindCalls -> FindByURL(cluster, q.url)
    [] q \in ShowCalls -> Load(cluster, q.cluster_id)

\* The service blanks the credentials of what it returns to the others.
Hide(c) == [c EXCEPT !.token_provider_id = Blank]

convertToClusterData(c) ==
  [cluster_id |-> c.cluster_id, data |-> ClusterData(AddTrailingSlashToURL(c.url))]

convertToFullClusterData(c) ==
  [cluster_id |-> c.cluster_id,
   data |-> FullClusterData(AddTrailingSlashToURL(c.url), c.token_provider_id)]

\* Mutant: all conversions are to the full data, of what was hidden or not.
Converted_Full(q, rows) ==
  {convertToFullClusterData(IF q.op \in ForAuth THEN c ELSE Hide(c)) : c \in rows}

Converted(q, rows) ==
  IF q.op \in ForAuth THEN {convertToFullClusterData(c) : c \in rows}
                      ELSE {convertToClusterData(Hide(c)) : c \in rows}

\* Mutant: "not found" is not turned into an empty list.
SelectClusters_NotFound(r) ==
  LET q == query[r]
      rows == Selected(q)
  IN /\ qpc[r] = "select"
     /\ q \notin UserCalls
     /\ IF rows = {} /\ q \notin ListCalls THEN Respond(r, "not found", {})
                                           ELSE Respond(r, "ok", Converted(q, rows))
     /\ UNCHANGED <<vars, query, linked, seen>>

\* A cluster asked for by its ID may not be there; a search by URL that finds
\* nothing is an empty list.
SelectClusters(r) ==
  LET q == query[r]
      rows == Selected(q)
  IN /\ qpc[r] = "select"
     /\ q \notin UserCalls
     /\ \/ rows = {} /\ q \in ShowCalls /\ Respond(r, "not found", {})
        \/ ~(rows = {} /\ q \in ShowCalls) /\ Respond(r, "ok", Converted(q, rows))
     /\ UNCHANGED <<vars, query, linked, seen>>

\* ListClustersForIdentity, first SELECT: the links of the identity.
SelectLinks(r) ==
  LET links == {l \in identity_cluster : l.identity_id = query[r].identity_id}
      ids == {l.cluster_id : l \in links}
  IN /\ qpc[r] = "select"
     /\ query[r] \in UserCalls
     /\ linked' = [linked EXCEPT ![r] = ids]
     /\ seen' = [seen EXCEPT ![r] = {c \in cluster : c.cluster_id \in ids}]
     /\ \/ ids = {} /\ Respond(r, "ok", {})
        \/ ids # {} /\ qpc' = [qpc EXCEPT ![r] = "preload"] /\ UNCHANGED reply
     /\ UNCHANGED <<vars, query>>

\* The Cluster of a link whose row the second SELECT does not find: it is left
\* as it was made, and the controller converts it like any other.
EmptyEntry(id) == [cluster_id |-> id, data |-> ClusterData(EmptyURL)]

\* Mutant: the second SELECT takes the clusters as they come.
PreloadClusters_Unordered(r) ==
  /\ qpc[r] = "preload"
  /\ Respond(r, "ok", {[cluster_id |-> id, data |-> convertToClusterData(c).data] :
                         id \in linked[r], c \in cluster})
  /\ UNCHANGED <<vars, query, linked, seen>>

\* Second SELECT: the clusters with the IDs of the links, one for each link.
PreloadClusters(r) ==
  LET rows == {c \in cluster : c.cluster_id \in linked[r]}
      gone == linked[r] \ {c.cluster_id : c \in rows}
  IN /\ qpc[r] = "preload"
     /\ Respond(r, "ok", {convertToClusterData(c) : c \in rows} \cup
                         {EmptyEntry(id) : id \in gone})
     /\ UNCHANGED <<vars, query, linked, seen>>

\* The connection is lost, or there is none.
QueryFails(r) ==
  /\ qpc[r] \in {"select", "preload"}
  /\ Respond(r, "internal error", {})
  /\ UNCHANGED <<vars, query, linked, seen>>

-----------------------------------------------------------------------------
Read(r) == SelectClusters(r) \/ SelectLinks(r) \/ PreloadClusters(r) \/ QueryFails(r)

QNext ==
  \/ Next /\ UNCHANGED queries
  \/ \E r \in Readers : ReceiveQuery(r) \/ Read(r)

qvars == <<vars, queries>>

QSpec == QInit /\ [][QNext]_qvars
=============================================================================
