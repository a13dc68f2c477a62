------------------- MODULE ClusterServiceRefinement_proofs -------------------
(***************************************************************************)
(* Proof that ClusterService implements the abstract Registry.              *)
(***************************************************************************)
EXTENDS ClusterServiceSteps_proofs

USE StoreAssumption, ServiceAssumption

-----------------------------------------------------------------------------
(* The registry that two tables stand for.                                  *)

RegisteredIn(rows) == {[url |-> c.url, attributes |-> c.token_provider_id] : c \in rows}

LinkedIn(rows, lks) ==
  {l \in [identity : Identities, url : URLs] :
     \E c \in rows : c.url = l.url /\ LinkExists(lks, l.identity, c.cluster_id)}

Keyed(rows) == rows \subseteq ClusterRows /\ PrimaryKey(rows) /\ UniqueURL(rows)

LEMMA UpdateRegisters ==
  ASSUME NEW rows, NEW lks, Keyed(rows), NEW row \in ClusterRows, NEW old \in rows,
         old.cluster_id = row.cluster_id, old.url = row.url
  PROVE  /\ RegisteredIn(Update(rows, row)) =
              {c \in RegisteredIn(rows) : c.url # row.url}
              \cup {[url |-> row.url, attributes |-> row.token_provider_id]}
         /\ LinkedIn(Update(rows, row), lks) = LinkedIn(rows, lks)
<1>1. \A c \in rows : c.cluster_id # row.cluster_id <=> c.url # row.url
  BY DEF Keyed, PrimaryKey, UniqueURL
<1>2. Update(rows, row) = {c \in rows : c.url # row.url} \cup {row}
  BY <1>1 DEF Update
<1>3. LinkedIn(Update(rows, row), lks) = LinkedIn(rows, lks)
  <2>1. \A u, d : (\E c \in rows : c.url = u /\ c.cluster_id = d) <=>
                  (\E c \in Update(rows, row) : c.url = u /\ c.cluster_id = d)
    BY <1>1, <1>2 DEF Keyed, UniqueURL
  <2> QED BY <2>1 DEF LinkedIn
<1> QED BY <1>2, <1>3 DEF RegisteredIn

LEMMA InsertRegisters ==
  ASSUME NEW rows, NEW lks, Keyed(rows), ForeignKey(rows, lks), NEW row \in ClusterRows,
         ~InsertViolates(rows, row)
  PROVE  /\ RegisteredIn(rows \cup {row}) =
              {c \in RegisteredIn(rows) : c.url # row.url}
              \cup {[url |-> row.url, attributes |-> row.token_provider_id]}
         /\ LinkedIn(rows \cup {row}, lks) = LinkedIn(rows, lks)
<1>1. \A c \in rows : c.cluster_id # row.cluster_id /\ c.url # row.url
  BY DEF InsertViolates
<1>2. \A l \in lks : l.cluster_id # row.cluster_id
  BY <1>1 DEF ForeignKey, Load
<1> QED BY <1>1, <1>2 DEF RegisteredIn, LinkedIn, LinkExists

LEMMA DeleteDeregisters ==
  ASSUME NEW rows, NEW lks, Keyed(rows), NEW old \in rows
  PROVE  /\ RegisteredIn(DeleteCluster(rows, old.cluster_id)) =
              {c \in RegisteredIn(rows) : c.url # old.url}
         /\ LinkedIn(DeleteCluster(rows, old.cluster_id), CascadeLinks(lks, old.cluster_id)) =
              {l \in LinkedIn(rows, lks) : l.url # old.url}
<1>1. \A c \in rows : c.cluster_id # old.cluster_id <=> c.url # old.url
  BY DEF Keyed, PrimaryKey, UniqueURL
<1>2. DeleteCluster(rows, old.cluster_id) = {c \in rows : c.url # old.url}
  BY <1>1 DEF DeleteCluster
<1>3. \A c \in rows : \A i : c.url # old.url =>
        (LinkExists(CascadeLinks(lks, old.cluster_id), i, c.cluster_id)
           <=> LinkExists(lks, i, c.cluster_id))
  BY <1>1 DEF LinkExists, CascadeLinks
<1> QED BY <1>2, <1>3 DEF RegisteredIn, LinkedIn

LEMMA InsertLinks ==
  ASSUME NEW rows, NEW lks, Keyed(rows), NEW c \in rows, NEW row \in LinkRows,
         row.cluster_id = c.cluster_id
  PROVE  LinkedIn(rows, lks \cup {row}) =
           LinkedIn(rows, lks) \cup {[identity |-> row.identity_id, url |-> c.url]}
<1>1. \A d \in rows : d.cluster_id = c.cluster_id <=> d.url = c.url
  BY DEF Keyed, PrimaryKey, UniqueURL
<1>2. \A d \in rows : \A i : LinkExists(lks \cup {row}, i, d.cluster_id) <=>
        LinkExists(lks, i, d.cluster_id) \/ (i = row.identity_id /\ d.url = c.url)
  BY <1>1 DEF LinkExists
<1>3. row.identity_id \in Identities /\ c.url \in URLs
  BY DEF LinkRows, Keyed, ClusterRows
<1> DEFINE Pairs == [identity : Identities, url : URLs]
           new   == [identity |-> row.identity_id, url |-> c.url]
<1>4. \A l \in Pairs : l \in LinkedIn(rows, lks \cup {row}) <=>
                      l \in LinkedIn(rows, lks) \/ l = new
  <2> SUFFICES ASSUME NEW l \in Pairs
               PROVE  l \in LinkedIn(rows, lks \cup {row}) <=>
                      l \in LinkedIn(rows, lks) \/ l = new
    OBVIOUS
  <2>1. l = new <=> l.identity = row.identity_id /\ l.url = c.url
    OBVIOUS
  <2>2. l \in LinkedIn(rows, lks \cup {row}) <=>
        \E d \in rows : d.url = l.url /\ LinkExists(lks \cup {row}, l.identity, d.cluster_id)
    BY DEF LinkedIn
  <2>3. l \in LinkedIn(rows, lks) <=>
        \E d \in rows : d.url = l.url /\ LinkExists(lks, l.identity, d.cluster_id)
    BY DEF LinkedIn
  <2> QED BY <1>2, <2>1, <2>2, <2>3
<1>5. new \in Pairs
  BY <1>3
<1>6. \A lk : LinkedIn(rows, lk) \subseteq Pairs
  BY DEF LinkedIn
<1> QED BY <1>4, <1>5, <1>6

LEMMA DeleteUnlinks ==
  ASSUME NEW rows, NEW lks, Keyed(rows), NEW i \in Identities, NEW u \in URLs
  PROVE  LinkedIn(rows, lks \ UnlinkedRows(rows, lks, i, u)) =
           LinkedIn(rows, lks) \ {[identity |-> i, url |-> u]}
<1>1. \A d \in rows : \A j : LinkExists(lks \ UnlinkedRows(rows, lks, i, u), j, d.cluster_id) <=>
        LinkExists(lks, j, d.cluster_id) /\ ~(j = i /\ d.url = u)
  BY DEF LinkExists, UnlinkedRows, Keyed, PrimaryKey
<1> DEFINE Pairs == [identity : Identities, url : URLs]
           left  == lks \ UnlinkedRows(rows, lks, i, u)
           gone  == [identity |-> i, url |-> u]
<1>2. \A l \in Pairs : l \in LinkedIn(rows, left) <=>
                      l \in LinkedIn(rows, lks) /\ l # gone
  <2> SUFFICES ASSUME NEW l \in Pairs
               PROVE  l \in LinkedIn(rows, left) <=> l \in LinkedIn(rows, lks) /\ l # gone
    OBVIOUS
  <2>1. l = gone <=> l.identity = i /\ l.url = u
    OBVIOUS
  <2>2. l \in LinkedIn(rows, left) <=>
        \E d \in rows : d.url = l.url /\ LinkExists(left, l.identity, d.cluster_id)
    BY DEF LinkedIn
  <2>3. l \in LinkedIn(rows, lks) <=>
        \E d \in rows : d.url = l.url /\ LinkExists(lks, l.identity, d.cluster_id)
    BY DEF LinkedIn
  <2> QED BY <1>1, <2>1, <2>2, <2>3
<1>3. \A lk : LinkedIn(rows, lk) \subseteq Pairs
  BY DEF LinkedIn
<1> QED BY <1>2, <1>3

-----------------------------------------------------------------------------
(* The steps that change the tables, and the steps of the registry they are. *)

LEMMA StoreWriters ==
  ASSUME [Next]_vars
  PROVE  \/ UNCHANGED store
         \/ \E p \in Procs : UpdateRow(p) \/ InsertRow(p) \/ DeleteRow(p)
         \/ \E r \in Requests : InsertLink(r) \/ DeleteLink(r)
<1>1. CASE UNCHANGED vars
  BY <1>1 DEF vars, store
<1>2. ASSUME NEW p \in Procs, Run(p), ~(UpdateRow(p) \/ InsertRow(p) \/ DeleteRow(p))
      PROVE  UNCHANGED store
  BY <1>2 DEF Run, FindExisting, NormalizeFails, FirstOrCreate, LoadToDelete
<1>3. ASSUME NEW r \in Requests, Arrive(r) \/ RunRequest(r), ~Run(r),
             ~(InsertLink(r) \/ DeleteLink(r))
      PROVE  UNCHANGED store
  BY <1>3 DEF Arrive, RunRequest, FillToken, FindToLink, LoadLink
<1>4. ASSUME NEW w \in Replicas, StartSync(w) \/ ListFails(w) \/ RunSync(w), ~Run(w)
      PROVE  UNCHANGED store
  BY <1>4 DEF StartSync, ListFails, RunSync, NextEntry, NextDelete
<1>5. ASSUME NEW p \in Procs, Fail(p) \/ LoseCommit(p) PROVE UNCHANGED store
  BY <1>5 DEF Fail, LoseCommit
<1> QED BY <1>1, <1>2, <1>3, <1>4, <1>5 DEF Next, Procs

LEMMA InvKeyed == Inv => Keyed(cluster) /\ ForeignKey(cluster, identity_cluster)
  BY DEF Inv, Typed, TypeOK, TablesOK, Keyed

LEMMA InitRegistry ==
  ASSUME Inv
  PROVE  RegistryView!RegistryInit
<1>1. RegisteredIn(cluster) \subseteq [url : URLs, attributes : StoredTokens]
  BY InvKeyed DEF RegisteredIn, Keyed, ClusterRows
<1>2. \A c, d \in RegisteredIn(cluster) : c.url = d.url => c = d
  BY InvKeyed DEF RegisteredIn, Keyed, UniqueURL
<1>3. LinkedIn(cluster, identity_cluster) \subseteq
        [identity : Identities, url : {c.url : c \in RegisteredIn(cluster)}]
  <2> SUFFICES ASSUME NEW l \in LinkedIn(cluster, identity_cluster)
               PROVE  l \in [identity : Identities, url : {c.url : c \in RegisteredIn(cluster)}]
    OBVIOUS
  <2>1. l \in [identity : Identities, url : URLs]
    BY DEF LinkedIn
  <2>2. PICK c \in cluster : c.url = l.url
    BY DEF LinkedIn
  <2>3. [url |-> c.url, attributes |-> c.token_provider_id] \in RegisteredIn(cluster)
    BY DEF RegisteredIn
  <2>4. l.url \in {d.url : d \in RegisteredIn(cluster)}
    BY <2>2, <2>3
  <2> QED BY <2>1, <2>4
<1> QED BY <1>1, <1>2, <1>3
        DEF RegistryView!RegistryInit, RegistryView!RegistryTypeOK,
            RegistryView!RegisteredURLs, RegisteredIn, LinkedIn

\* The two variables of the registry, before and after a step.
LEMMA RegistryStep ==
  ASSUME \/ /\ RegisteredIn(cluster)' = RegisteredIn(cluster)
            /\ LinkedIn(cluster, identity_cluster)' = LinkedIn(cluster, identity_cluster)
         \/ \E u \in URLs, t \in StoredTokens :
              /\ RegisteredIn(cluster)' = {c \in RegisteredIn(cluster) : c.url # u}
                                          \cup {[url |-> u, attributes |-> t]}
              /\ LinkedIn(cluster, identity_cluster)' = LinkedIn(cluster, identity_cluster)
         \/ \E u \in URLs :
              /\ u \in {c.url : c \in RegisteredIn(cluster)}
              /\ RegisteredIn(cluster)' = {c \in RegisteredIn(cluster) : c.url # u}
              /\ LinkedIn(cluster, identity_cluster)' =
                   {l \in LinkedIn(cluster, identity_cluster) : l.url # u}
         \/ \E u \in URLs, i \in Identities :
              /\ u \in {c.url : c \in RegisteredIn(cluster)}
              /\ LinkedIn(cluster, identity_cluster)' =
                   LinkedIn(cluster, identity_cluster) \cup {[identity |-> i, url |-> u]}
              /\ RegisteredIn(cluster)' = RegisteredIn(cluster)
         \/ \E u \in URLs, i \in Identities :
              /\ LinkedIn(cluster, identity_cluster)' =
                   LinkedIn(cluster, identity_cluster) \ {[identity |-> i, url |-> u]}
              /\ RegisteredIn(cluster)' = RegisteredIn(cluster)
  PROVE  [RegistryView!RegistryNext]_(RegistryView!registry)
  BY DEF RegistryView!RegistryNext, RegistryView!registry, RegistryView!Register,
         RegistryView!Deregister, RegistryView!Link, RegistryView!Unlink,
         RegistryView!RegisteredURLs, RegisteredIn, LinkedIn

\* UPDATE re-registers the URL of its row: the ID found for it has it still.
LEMMA UpdateRowRegisters ==
  ASSUME Inv, NEW p \in Procs, UpdateRow(p)
  PROVE  [RegistryView!RegistryNext]_(RegistryView!registry)
<1> DEFINE row == obj[p]
<1>1. CASE Load(cluster, row.cluster_id) = {}
  <2>1. UNCHANGED store
    BY <1>1 DEF UpdateRow, store
  <2> QED BY <2>1, RegistryStep DEF store, RegisteredIn, LinkedIn
<1>2. CASE Load(cluster, row.cluster_id) # {}
  <2>1. /\ cluster' = Update(cluster, row)
        /\ identity_cluster' = identity_cluster
        /\ pc[p] = "update"
    BY <1>2 DEF UpdateRow
  <2>2. row \in ClusterRows
    BY <2>1 DEF Inv, Typed, ControlOK, Holds
  <2>3. PICK old \in cluster : old.cluster_id = row.cluster_id
    BY <1>2 DEF Load
  <2>4. old.url = row.url
    <3>1. Holds(p) /\ row.url.slash /\ row.url \in URLs /\ row.cluster_id \in ClusterIDs
      BY <2>1, <2>2 DEF Inv, SlashesOK, Holds, ClusterRows
    <3>2. AddTrailingSlashToURL(row.url) = row.url
      BY <3>1, SlashIdempotent
    <3>3. old.url \in URLs
      BY <2>3, InvKeyed DEF Keyed, ClusterRows
    <3>4. Denotes(row.cluster_id, row.url) /\ Denotes(row.cluster_id, old.url)
      BY <2>3, <3>1, <3>2 DEF Denotes, HasID
    <3> QED BY <3>1, <3>3, <3>4 DEF Inv, IDsOK
  <2>5. /\ RegisteredIn(cluster)' =
             {c \in RegisteredIn(cluster) : c.url # row.url}
             \cup {[url |-> row.url, attributes |-> row.token_provider_id]}
        /\ LinkedIn(cluster, identity_cluster)' = LinkedIn(cluster, identity_cluster)
    BY <2>1, <2>2, <2>3, <2>4, InvKeyed, UpdateRegisters
  <2>6. row.url \in URLs /\ row.token_provider_id \in StoredTokens
    BY <2>2 DEF ClusterRows
  <2> QED BY <2>5, <2>6, RegistryStep
<1> QED BY <1>1, <1>2

LEMMA InsertRowRegisters ==
  ASSUME Inv, NEW p \in Procs, InsertRow(p)
  PROVE  [RegistryView!RegistryNext]_(RegistryView!registry)
<1> DEFINE row == obj[p]
<1>1. CASE InsertViolates(cluster, row)
  <2>1. UNCHANGED store
    BY <1>1 DEF InsertRow, store
  <2> QED BY <2>1, RegistryStep DEF store, RegisteredIn, LinkedIn
<1>2. CASE ~InsertViolates(cluster, row)
  <2>1. /\ cluster' = cluster \cup {row}
        /\ identity_cluster' = identity_cluster
        /\ pc[p] = "insert"
    BY <1>2 DEF InsertRow
  <2>2. row \in ClusterRows
    BY <2>1 DEF Inv, Typed, ControlOK, Holds
  <2>3. /\ RegisteredIn(cluster)' =
             {c \in RegisteredIn(cluster) : c.url # row.url}
             \cup {[url |-> row.url, attributes |-> row.token_provider_id]}
        /\ LinkedIn(cluster, identity_cluster)' = LinkedIn(cluster, identity_cluster)
    BY <1>2, <2>1, <2>2, InvKeyed, InsertRegisters
  <2>4. row.url \in URLs /\ row.token_provider_id \in StoredTokens
    BY <2>2 DEF ClusterRows
  <2> QED BY <2>3, <2>4, RegistryStep
<1> QED BY <1>1, <1>2

LEMMA DeleteRowDeregisters ==
  ASSUME Inv, NEW p \in Procs, DeleteRow(p)
  PROVE  [RegistryView!RegistryNext]_(RegistryView!registry)
<1>1. CASE Load(cluster, Target(p)) = {}
  <2>1. UNCHANGED store
    BY <1>1 DEF DeleteRow, store
  <2> QED BY <2>1, RegistryStep DEF store, RegisteredIn, LinkedIn
<1>2. CASE Load(cluster, Target(p)) # {}
  <2>1. PICK old \in cluster : old.cluster_id = Target(p)
    BY <1>2 DEF Load
  <2>2. /\ cluster' = DeleteCluster(cluster, old.cluster_id)
        /\ identity_cluster' = CascadeLinks(identity_cluster, old.cluster_id)
    BY <1>2, <2>1 DEF DeleteRow
  <2>3. /\ RegisteredIn(cluster)' = {c \in RegisteredIn(cluster) : c.url # old.url}
        /\ LinkedIn(cluster, identity_cluster)' =
             {l \in LinkedIn(cluster, identity_cluster) : l.url # old.url}
    BY <2>1, <2>2, InvKeyed, DeleteDeregisters
  <2>4. old.url \in {c.url : c \in RegisteredIn(cluster)}
    <3>1. [url |-> old.url, attributes |-> old.token_provider_id] \in RegisteredIn(cluster)
      BY <2>1 DEF RegisteredIn
    <3> QED BY <3>1
  <2>5. old.url \in URLs
    BY <2>1, InvKeyed DEF Keyed, ClusterRows
  <2> QED BY <2>3, <2>4, <2>5, RegistryStep
<1> QED BY <1>1, <1>2

\* The INSERT of a link links the URL the cluster was looked up by, because the
\* ID read then is still that URL's.
LEMMA InsertLinkLinks ==
  ASSUME Inv, NEW r \in Requests, InsertLink(r)
  PROVE  [RegistryView!RegistryNext]_(RegistryView!registry)
<1> DEFINE row == [identity_id |-> call[r].identity_id, cluster_id |-> obj[r].cluster_id]
<1>1. CASE InsertLinkViolates(cluster, identity_cluster, row)
  <2>1. UNCHANGED store
    BY <1>1 DEF InsertLink, NewLink, store
  <2> QED BY <2>1, RegistryStep DEF store, RegisteredIn, LinkedIn
<1>2. CASE ~InsertLinkViolates(cluster, identity_cluster, row)
  <2>1. /\ identity_cluster' = identity_cluster \cup {row}
        /\ cluster' = cluster
        /\ pc[r] = "link.insert"
    BY <1>2 DEF InsertLink, NewLink
  <2>2. row \in LinkRows
    BY <2>1 DEF Inv, Typed, ControlOK, Holds, Procs, LinkCalls, ClusterRows, LinkRows
  <2>3. PICK c \in cluster : c.cluster_id = row.cluster_id
    BY <1>2 DEF InsertLinkViolates, Load
  <2>4. /\ RegisteredIn(cluster)' = RegisteredIn(cluster)
        /\ LinkedIn(cluster, identity_cluster)' =
             LinkedIn(cluster, identity_cluster)
             \cup {[identity |-> row.identity_id, url |-> c.url]}
    BY <2>1, <2>2, <2>3, InvKeyed, InsertLinks DEF RegisteredIn
  <2>5. c.url \in {d.url : d \in RegisteredIn(cluster)}
    <3>1. [url |-> c.url, attributes |-> c.token_provider_id] \in RegisteredIn(cluster)
      BY <2>3 DEF RegisteredIn
    <3> QED BY <3>1
  <2>6. c.url \in URLs /\ row.identity_id \in Identities
    BY <2>2, <2>3, InvKeyed DEF Keyed, ClusterRows, LinkRows
  <2> QED BY <2>4, <2>5, <2>6, RegistryStep
<1> QED BY <1>1, <1>2

LEMMA DeleteLinkUnlinks ==
  ASSUME Inv, NEW r \in Requests, DeleteLink(r)
  PROVE  [RegistryView!RegistryNext]_(RegistryView!registry)
<1> DEFINE i == call[r].identity_id
           u == call[r].url
<1>1. /\ identity_cluster' = identity_cluster \ UnlinkedRows(cluster, identity_cluster, i, u)
      /\ cluster' = cluster
      /\ pc[r] = "unlink"
  BY DEF DeleteLink
<1>2. i \in Identities /\ u \in URLs
  BY <1>1 DEF Inv, Typed, ControlOK, UnlinkCalls
<1>3. /\ RegisteredIn(cluster)' = RegisteredIn(cluster)
      /\ LinkedIn(cluster, identity_cluster)' =
           LinkedIn(cluster, identity_cluster) \ {[identity |-> i, url |-> u]}
  BY <1>1, <1>2, InvKeyed, DeleteUnlinks DEF RegisteredIn
<1> QED BY <1>2, <1>3, RegistryStep

\* ClusterService implements the Registry: whatever requests and syncs run at
\* once, every change of the two tables is one registration, one removal with
\* its links, one link or one unlink.
THEOREM ImplementsTheRegistry == Spec => ImplementsRegistry
<1>1. Init => RegistryView!RegistryInit
  BY InitInv, InitRegistry
<1>2. Inv /\ [Next]_vars => [RegistryView!RegistryNext]_(RegistryView!registry)
  <2> SUFFICES ASSUME Inv, [Next]_vars
               PROVE  [RegistryView!RegistryNext]_(RegistryView!registry)
    OBVIOUS
  <2>1. CASE UNCHANGED store
    BY <2>1, RegistryStep DEF store, RegisteredIn, LinkedIn
  <2>2. CASE \E p \in Procs : UpdateRow(p) \/ InsertRow(p) \/ DeleteRow(p)
    BY <2>2, UpdateRowRegisters, InsertRowRegisters, DeleteRowDeregisters
  <2>3. CASE \E r \in Requests : InsertLink(r) \/ DeleteLink(r)
    BY <2>3, InsertLinkLinks, DeleteLinkUnlinks
  <2> QED BY <2>1, <2>2, <2>3, StoreWriters
<1> QED BY <1>1, <1>2, Invariance, PTL DEF Spec, ImplementsRegistry, RegistryView!RegistrySpec
=============================================================================
