----------------------- MODULE ClusterQueries_proofs -----------------------
(***************************************************************************)
(* Proofs about ClusterQueries: for any number of readers, beside any       *)
(* number of writers.                                                       *)
(***************************************************************************)
EXTENDS ClusterQueriesProperties, ClusterServiceSteps_proofs

USE QueryAssumption

-----------------------------------------------------------------------------
(* The writers do not notice the readers.                                   *)

LEMMA ReadersWriteNothing ==
  QNext => Next \/ UNCHANGED vars
  BY DEF QNext, ReceiveQuery, Read, SelectClusters, SelectLinks, PreloadClusters, QueryFails

LEMMA QueriesInvariance == QSpec => []Inv
<1>1. QInit => Inv
  BY InitInv DEF QInit
<1>2. Inv /\ [QNext]_qvars => Inv'
  <2>1. [QNext]_qvars => [Next]_vars
    BY ReadersWriteNothing DEF qvars
  <2> QED BY <2>1, NextInv
<1> QED BY <1>1, <1>2, PTL DEF QSpec

-----------------------------------------------------------------------------
(* What a reader knows, from where it is.                                   *)

QueryOK ==
  \A r \in Readers :
    /\ qpc[r] \in {"select", "preload"} =>
         query[r] \in QueryCalls /\ QueryPermitted(query[r])
    /\ qpc[r] = "preload" => query[r] \in UserCalls
    /\ qpc[r] # "done" => reply[r] = NoReply

QTyped == QueriesTypeOK /\ QueryOK

LEMMA ConversionsTyped ==
  ASSUME NEW c \in ClusterRows
  PROVE  /\ convertToClusterData(Hide(c)) = convertToClusterData(c)
         /\ convertToClusterData(c) \in Entries
         /\ convertToFullClusterData(c) \in Entries
<1>1. c.cluster_id \in ClusterIDs /\ c.token_provider_id \in StoredTokens
  BY DEF ClusterRows
<1>2. AddTrailingSlashToURL(c.url) \in URLs
  BY SlashIdempotent DEF ClusterRows
<1>3. Hide(c).cluster_id = c.cluster_id /\ Hide(c).url = c.url
  BY DEF Hide, ClusterRows
<1>4. convertToClusterData(c) \in Entries
  BY <1>1, <1>2 DEF convertToClusterData, Entries, AnswerURLs
<1>5. convertToFullClusterData(c) \in Entries
  BY <1>1, <1>2 DEF convertToFullClusterData, Entries
<1> QED BY <1>3, <1>4, <1>5 DEF convertToClusterData

LEMMA RespondMoves ==
  ASSUME QueriesTypeOK, NEW r \in Readers, NEW a \in Answers, NEW data \in SUBSET Entries,
         Respond(r, a, data)
  PROVE  /\ qpc' \in [Readers -> {"new", "select", "preload", "done"}]
         /\ reply' \in [Readers -> Replies]
         /\ qpc'[r] = "done"
         /\ \A x \in Readers : x # r => qpc'[x] = qpc[x] /\ reply'[x] = reply[x]
<1>1. [answer |-> a, data |-> data] \in Replies
  BY DEF Replies
<1>2. reply' = [reply EXCEPT ![r] = [answer |-> a, data |-> data]]
  BY DEF Respond
<1>3. reply' \in [Readers -> Replies] /\ \A x \in Readers : x # r => reply'[x] = reply[x]
  BY <1>1, <1>2 DEF QueriesTypeOK
<1> QED BY <1>3 DEF QueriesTypeOK, Respond

LEMMA ReceiveQueryTyped ==
  ASSUME QTyped, NEW r \in Readers, ReceiveQuery(r)
  PROVE  QTyped'
<1> USE DEF QTyped
<1>1. PICK q \in Queries :
        /\ query' = [query EXCEPT ![r] = q]
        /\ \/ \E a \in {"unauthorized", "bad parameter", "internal error"} : Respond(r, a, {})
           \/ /\ QueryPermitted(q)
              /\ qpc' = [qpc EXCEPT ![r] = "select"]
              /\ UNCHANGED reply
  BY DEF ReceiveQuery, Objections
<1>2. q \in QueryCalls /\ qpc[r] = "new" /\ UNCHANGED <<linked, seen>>
  BY DEF ReceiveQuery, QueryAssumption
<1>3. query' \in [Readers -> QueryCalls \cup {None}]
  BY <1>1, <1>2 DEF QueriesTypeOK
<1>4. CASE \E a \in {"unauthorized", "bad parameter", "internal error"} : Respond(r, a, {})
  <2>1. PICK a \in Answers : Respond(r, a, {})
    BY <1>4 DEF Answers
  <2>2. {} \in SUBSET Entries
    OBVIOUS
  <2>3. QueriesTypeOK'
    BY <1>2, <1>3, <2>1, <2>2, RespondMoves DEF QueriesTypeOK
  <2>4. QueryOK'
    BY <1>1, <2>1, <2>2, RespondMoves DEF QueriesTypeOK, QueryOK
  <2> QED BY <2>3, <2>4
<1>5. CASE QueryPermitted(q) /\ qpc' = [qpc EXCEPT ![r] = "select"] /\ UNCHANGED reply
  <2>1. QueriesTypeOK'
    BY <1>2, <1>3, <1>5 DEF QueriesTypeOK
  <2>2. \A x \in Readers : x # r => query'[x] = query[x] /\ qpc'[x] = qpc[x]
    BY <1>1, <1>5 DEF QueriesTypeOK
  <2>3. query'[r] = q /\ qpc'[r] = "select"
    BY <1>1, <1>5 DEF QueriesTypeOK
  <2>4. QueryOK'
    BY <1>2, <1>5, <2>2, <2>3 DEF QueryOK
  <2> QED BY <2>1, <2>4
<1> QED BY <1>1, <1>4, <1>5

\* A reader that answers.
LEMMA RespondTyped ==
  ASSUME QTyped, NEW r \in Readers, NEW a \in Answers, NEW data \in SUBSET Entries,
         Respond(r, a, data), UNCHANGED <<query, linked, seen>>
  PROVE  QTyped'
<1>1. QueriesTypeOK'
  BY RespondMoves DEF QTyped, QueriesTypeOK
<1>2. QueryOK'
  BY RespondMoves DEF QTyped, QueryOK
<1> QED BY <1>1, <1>2 DEF QTyped

LEMMA SelectClustersTyped ==
  ASSUME Inv, QTyped, NEW r \in Readers, SelectClusters(r)
  PROVE  QTyped'
<1>1. UNCHANGED <<query, linked, seen>>
  BY DEF SelectClusters
<1>2. CASE Respond(r, "not found", {})
  <2>1. {} \in SUBSET Entries /\ "not found" \in Answers
    BY DEF Answers
  <2> QED BY <1>1, <1>2, <2>1, RespondTyped
<1>3. CASE Respond(r, "ok", Converted(query[r], Selected(query[r])))
  <2>1. query[r] \in ListCalls \cup FindCalls \cup ShowCalls
    BY DEF SelectClusters, QTyped, QueryOK, QueryCalls
  <2>2. Selected(query[r]) \subseteq ClusterRows
    BY <2>1 DEF Selected, FindByURL, Load, Inv, Typed, TypeOK
  <2>3. Converted(query[r], Selected(query[r])) \in SUBSET Entries
    BY <2>2, ConversionsTyped DEF Converted
  <2> QED BY <1>1, <1>3, <2>3, RespondTyped DEF Answers
<1> QED BY <1>2, <1>3 DEF SelectClusters

LEMMA SelectLinksTyped ==
  ASSUME Inv, QTyped, NEW r \in Readers, SelectLinks(r)
  PROVE  QTyped'
<1> USE DEF QTyped
<1> DEFINE links == {l \in identity_cluster : l.identity_id = query[r].identity_id}
           ids == {l.cluster_id : l \in links}
           rows == {c \in cluster : c.cluster_id \in ids}
<1>1. /\ linked' = [linked EXCEPT ![r] = ids]
      /\ seen' = [seen EXCEPT ![r] = rows]
      /\ qpc[r] = "select" /\ query[r] \in UserCalls /\ UNCHANGED query
      /\ \/ Respond(r, "ok", {})
         \/ qpc' = [qpc EXCEPT ![r] = "preload"] /\ UNCHANGED reply
  BY DEF SelectLinks
<1>2. ids \subseteq ClusterIDs /\ rows \subseteq ClusterRows
  BY DEF Inv, Typed, TypeOK, LinkRows
<1> HIDE DEF ids, rows
<1>3. linked' \in [Readers -> SUBSET ClusterIDs] /\ seen' \in [Readers -> SUBSET ClusterRows]
  BY <1>1, <1>2 DEF QueriesTypeOK
<1>4. CASE Respond(r, "ok", {})
  <2>1. {} \in SUBSET Entries /\ "ok" \in Answers
    BY DEF Answers
  <2>2. QueriesTypeOK'
    BY <1>1, <1>3, <1>4, <2>1, RespondMoves DEF QueriesTypeOK
  <2>3. QueryOK'
    BY <1>1, <1>4, <2>1, RespondMoves DEF QueryOK
  <2> QED BY <2>2, <2>3
<1>5. CASE qpc' = [qpc EXCEPT ![r] = "preload"] /\ UNCHANGED reply
  <2>1. QueriesTypeOK'
    BY <1>1, <1>3, <1>5 DEF QueriesTypeOK
  <2>2. QueryOK'
    BY <1>1, <1>5 DEF QueriesTypeOK, QueryOK
  <2> QED BY <2>1, <2>2
<1> QED BY <1>1, <1>4, <1>5

LEMMA PreloadClustersTyped ==
  ASSUME Inv, QTyped, NEW r \in Readers, PreloadClusters(r)
  PROVE  QTyped'
<1> DEFINE rows == {c \in cluster : c.cluster_id \in linked[r]}
           gone == linked[r] \ {c.cluster_id : c \in rows}
           data == {convertToClusterData(c) : c \in rows} \cup {EmptyEntry(id) : id \in gone}
<1>1. Respond(r, "ok", data) /\ UNCHANGED <<query, linked, seen>>
  BY DEF PreloadClusters
<1>2. rows \subseteq ClusterRows /\ gone \subseteq ClusterIDs
  BY DEF Inv, Typed, TypeOK, QTyped, QueriesTypeOK
<1>3. \A id \in ClusterIDs : EmptyEntry(id) \in Entries
  BY DEF EmptyEntry, Entries, AnswerURLs
<1>4. data \in SUBSET Entries
  BY <1>2, <1>3, ConversionsTyped
<1> HIDE DEF data
<1> QED BY <1>1, <1>4, RespondTyped DEF Answers

LEMMA QueryFailsTyped ==
  ASSUME QTyped, NEW r \in Readers, QueryFails(r)
  PROVE  QTyped'
<1>1. {} \in SUBSET Entries /\ "internal error" \in Answers
  BY DEF Answers
<1> QED BY <1>1, RespondTyped DEF QueryFails

LEMMA NextQTyped == Inv /\ QTyped /\ [QNext]_qvars => QTyped'
<1> SUFFICES ASSUME Inv, QTyped, [QNext]_qvars PROVE QTyped'
  OBVIOUS
<1>1. CASE UNCHANGED queries
  BY <1>1 DEF queries, QTyped, QueriesTypeOK, QueryOK
<1>2. ASSUME NEW r \in Readers, ReceiveQuery(r) \/ Read(r) PROVE QTyped'
  BY <1>2, ReceiveQueryTyped, SelectClustersTyped, SelectLinksTyped, PreloadClustersTyped,
     QueryFailsTyped DEF Read
<1> QED BY <1>1, <1>2 DEF QNext, qvars

LEMMA AlwaysQTyped == QSpec => []QTyped
<1>1. QInit => QTyped
  BY DEF QInit, QTyped, QueriesTypeOK, QueryOK, NoReply, Replies
<1> QED BY <1>1, NextQTyped, QueriesInvariance, PTL DEF QSpec

\* Types: no answer has a blank credential or an ID that is none, whichever
\* statement it was made of.
THEOREM QueriesTyped == QSpec => []QueriesTypeOK
<1>1. QTyped => QueriesTypeOK
  BY DEF QTyped
<1> QED BY <1>1, AlwaysQTyped, PTL

-----------------------------------------------------------------------------
(* Who is told what.                                                        *)

LEMMA ClusterDataHasNoToken ==
  \A u : "token_provider_id" \notin DOMAIN ClusterData(u)
  BY DEF ClusterData

\* One reader moves: either it gets no data, or those of one of its statements.
LEMMA ReaderMoves ==
  ASSUME QTyped, NEW r \in Readers, ReceiveQuery(r) \/ Read(r)
  PROVE  /\ \A x \in Readers : x # r => /\ query'[x] = query[x] /\ reply'[x] = reply[x]
                                        /\ qpc'[x] = qpc[x] /\ linked'[x] = linked[x]
                                        /\ seen'[x] = seen[x]
         /\ qpc[r] # "new" => query'[r] = query[r]
         /\ reply'[r].data = {} \/ SelectClusters(r) \/ PreloadClusters(r)
<1>1. reply[r].data = {} \/ qpc[r] = "done"
  BY DEF QTyped, QueryOK, NoReply
<1>2. CASE ReceiveQuery(r)
  BY <1>1, <1>2 DEF ReceiveQuery, Respond, QTyped, QueriesTypeOK
<1>3. CASE SelectClusters(r)
  BY <1>3 DEF SelectClusters, Respond, QTyped, QueriesTypeOK
<1>4. CASE SelectLinks(r)
  BY <1>1, <1>4 DEF SelectLinks, Respond, QTyped, QueriesTypeOK
<1>5. CASE PreloadClusters(r)
  BY <1>5 DEF PreloadClusters, Respond, QTyped, QueriesTypeOK
<1>6. CASE QueryFails(r)
  BY <1>6 DEF QueryFails, Respond, QTyped, QueriesTypeOK
<1> QED BY <1>2, <1>3, <1>4, <1>5, <1>6 DEF Read

LEMMA NextCredentials ==
  QTyped /\ CredentialsStayWithAuth /\ [QNext]_qvars => CredentialsStayWithAuth'
<1> SUFFICES ASSUME QTyped, CredentialsStayWithAuth, [QNext]_qvars
             PROVE  CredentialsStayWithAuth'
  OBVIOUS
<1>1. CASE UNCHANGED queries
  BY <1>1 DEF queries, CredentialsStayWithAuth
<1>2. ASSUME NEW r \in Readers, ReceiveQuery(r) \/ Read(r)
      PROVE  CredentialsStayWithAuth'
  <2> SUFFICES ASSUME NEW e \in reply'[r].data, "token_provider_id" \in DOMAIN e.data
               PROVE  query'[r] \notin UserCalls /\ query'[r].account = "fabric8-auth"
    BY <1>2, ReaderMoves DEF CredentialsStayWithAuth
  <2>1. CASE SelectClusters(r)
    <3> DEFINE q == query[r]
    <3>1. q \notin UserCalls /\ QueryPermitted(q) /\ query' = query
      BY <2>1 DEF SelectClusters, QTyped, QueryOK
    <3>2. e \in Converted(q, Selected(q))
      <4>1. Respond(r, "not found", {}) \/ Respond(r, "ok", Converted(q, Selected(q)))
        BY <2>1 DEF SelectClusters
      <4>2. \A a, data : Respond(r, a, data) => reply'[r].data = data
        BY DEF Respond, QTyped, QueriesTypeOK
      <4>3. reply'[r].data = {} \/ reply'[r].data = Converted(q, Selected(q))
        BY <4>1, <4>2
      <4> QED BY <4>3
    <3>3. q.op \in ForAuth
      BY <3>2, ClusterDataHasNoToken DEF Converted, convertToClusterData
    <3> QED BY <3>1, <3>3 DEF QueryPermitted
  <2>2. CASE PreloadClusters(r)
    <3>1. \E u : e.data = ClusterData(u)
      BY <2>2 DEF PreloadClusters, Respond, QTyped, QueriesTypeOK, convertToClusterData, EmptyEntry
    <3> QED BY <3>1, ClusterDataHasNoToken
  <2> QED BY <1>2, <2>1, <2>2, ReaderMoves
<1> QED BY <1>1, <1>2 DEF QNext, qvars

\* Only the Auth service is told credentials, whatever the statements of a query
\* find and whatever happens between them.
THEOREM CredentialsToAuthOnly == QSpec => []CredentialsStayWithAuth
<1>1. QInit => CredentialsStayWithAuth
  BY DEF QInit, CredentialsStayWithAuth, NoReply
<1> QED BY <1>1, NextCredentials, AlwaysQTyped, PTL DEF QSpec

-----------------------------------------------------------------------------
(* The clusters of a user.                                                  *)

LEMMA NamedDataDiffer ==
  ASSUME NEW c \in ClusterRows
  PROVE  convertToClusterData(c).data # ClusterData(EmptyURL)
<1>1. AddTrailingSlashToURL(c.url) \in URLs
  BY SlashIdempotent DEF ClusterRows
<1>2. ClusterData(AddTrailingSlashToURL(c.url)).url # ClusterData(EmptyURL).url
  BY <1>1 DEF ClusterData
<1> QED BY <1>2 DEF convertToClusterData

\* A user who is told of an empty cluster has no link to it any more: the second
\* SELECT does not miss a cluster that is there.
THEOREM EmptyEntriesAreUnlinked == QSpec => EmptyMeansUnlinked
<1> DEFINE Step ==
      \A r \in Readers :
        qpc[r] = "preload" => \A e \in reply'[r].data :
          e.data = ClusterData(EmptyURL) =>
            \A l \in identity_cluster' : l.cluster_id # e.cluster_id
<1>1. Inv /\ QTyped /\ [QNext]_qvars => [Step]_qvars
  <2> SUFFICES ASSUME Inv, QTyped, QNext, NEW r \in Readers, qpc[r] = "preload",
                      NEW e \in reply'[r].data, e.data = ClusterData(EmptyURL),
                      NEW l \in identity_cluster'
               PROVE  l.cluster_id # e.cluster_id
    OBVIOUS
  <2>1. reply[r].data = {}
    BY DEF QTyped, QueryOK, NoReply
  <2>2. PICK x \in Readers : ReceiveQuery(x) \/ Read(x)
    BY <2>1 DEF QNext, queries
  <2>3. x = r
    BY <2>1, <2>2, ReaderMoves
  <2>4. PreloadClusters(r)
    BY <2>2, <2>3, ReaderMoves DEF SelectClusters
  <2> DEFINE rows == {c \in cluster : c.cluster_id \in linked[r]}
             gone == linked[r] \ {c.cluster_id : c \in rows}
  <2>5. e \in {convertToClusterData(c) : c \in rows} \cup {EmptyEntry(id) : id \in gone}
    BY <2>4 DEF PreloadClusters, Respond, QTyped, QueriesTypeOK
  <2>6. e \notin {convertToClusterData(c) : c \in rows}
    BY NamedDataDiffer DEF Inv, Typed, TypeOK
  <2>7. PICK id \in gone : e = EmptyEntry(id)
    BY <2>5, <2>6
  <2>8. e.cluster_id \in linked[r] /\ \A c \in cluster : c.cluster_id # e.cluster_id
    BY <2>7 DEF EmptyEntry
  <2>9. UNCHANGED <<cluster, identity_cluster>>
    BY <2>4 DEF PreloadClusters, vars
  <2> QED BY <2>8, <2>9 DEF Inv, TablesOK, ForeignKey, Load
<1> QED BY <1>1, QueriesInvariance, AlwaysQTyped, PTL DEF QSpec, EmptyMeansUnlinked

\* Between its two statements a reader has the IDs of the rows it saw; an ID that
\* was issued keeps denoting the URL it had then, whatever the writers do.
SeenOK ==
  \A r \in Readers : qpc[r] = "preload" =>
    /\ linked[r] = {c.cluster_id : c \in seen[r]}
    /\ \A c \in seen[r] :
         /\ c \in ClusterRows /\ c.url.slash /\ c.cluster_id \in issued
         /\ \A u \in URLs : Denotes(c.cluster_id, u) => u = c.url

LEMMA SelectLinksSeen ==
  ASSUME Inv, QTyped, NEW r \in Readers, SelectLinks(r)
  PROVE  /\ linked'[r] = {c.cluster_id : c \in seen'[r]}
         /\ seen'[r] \subseteq cluster
         /\ reply'[r].answer = "ok" => linked'[r] = {} /\ reply'[r].data = {}
<1> DEFINE links == {l \in identity_cluster : l.identity_id = query[r].identity_id}
           ids == {l.cluster_id : l \in links}
           rows == {c \in cluster : c.cluster_id \in ids}
<1>1. linked'[r] = ids /\ seen'[r] = rows
  BY DEF SelectLinks, QTyped, QueriesTypeOK
<1>2. ids = {c.cluster_id : c \in rows}
  <2>1. ASSUME NEW id \in ids PROVE \E c \in rows : c.cluster_id = id
    BY DEF Inv, TablesOK, ForeignKey, Load
  <2> QED BY <2>1
<1>3. reply[r].answer # "ok"
  BY DEF SelectLinks, QTyped, QueryOK, NoReply
<1>4. \/ ids = {} /\ Respond(r, "ok", {})
      \/ UNCHANGED reply
  BY DEF SelectLinks
<1>5. Respond(r, "ok", {}) => reply'[r].data = {}
  BY DEF Respond, QTyped, QueriesTypeOK
<1> HIDE DEF ids, rows
<1>6. rows \subseteq cluster
  BY DEF rows
<1> QED BY <1>1, <1>2, <1>3, <1>4, <1>5, <1>6

LEMMA NextSeen == Inv /\ QTyped /\ SeenOK /\ [QNext]_qvars => SeenOK'
<1> SUFFICES ASSUME Inv, QTyped, SeenOK, [QNext]_qvars, NEW r \in Readers, qpc'[r] = "preload"
             PROVE  /\ linked'[r] = {c.cluster_id : c \in seen'[r]}
                    /\ \A c \in seen'[r] :
                         /\ c \in ClusterRows /\ c.url.slash /\ c.cluster_id \in issued'
                         /\ \A u \in URLs : Denotes(c.cluster_id, u)' => u = c.url
  BY DEF SeenOK
<1>1. KeepsMeaning
  BY ReadersWriteNothing, NextSafe DEF qvars
<1>2. CASE qpc[r] = "preload" /\ UNCHANGED <<linked[r], seen[r]>>
  <2>1. \A c \in seen[r] : c.cluster_id \in ClusterIDs
    BY <1>2 DEF SeenOK, ClusterRows
  <2> QED BY <1>1, <1>2, <2>1 DEF SeenOK, KeepsMeaning
<1>3. CASE SelectLinks(r)
  <2>1. UNCHANGED issued
    BY <1>3 DEF SelectLinks, vars
  <2>2. ASSUME NEW c \in cluster
        PROVE  /\ c \in ClusterRows /\ c.url.slash /\ c.cluster_id \in issued
               /\ \A u \in URLs : Denotes(c.cluster_id, u) => u = c.url
    <3>1. c \in ClusterRows /\ c.cluster_id \in ClusterIDs /\ c.url \in URLs /\ c.url.slash
      BY DEF Inv, Typed, TypeOK, TablesOK, NormalizedURLs, ClusterRows
    <3>2. Denotes(c.cluster_id, c.url)
      BY DEF Denotes
    <3> QED BY <3>1, <3>2 DEF Inv, IDsOK
  <2>3. \A c \in cluster, u \in URLs : Denotes(c.cluster_id, u)' => Denotes(c.cluster_id, u)
    BY <1>1, <2>2 DEF KeepsMeaning, ClusterRows
  <2> QED BY <1>3, <2>1, <2>2, <2>3, SelectLinksSeen
<1>4. CASE UNCHANGED queries
  BY <1>2, <1>4 DEF queries
<1>5. ASSUME NEW x \in Readers, ReceiveQuery(x) \/ Read(x), x # r
      PROVE  qpc[r] = "preload" /\ UNCHANGED <<linked[r], seen[r]>>
  BY <1>5, ReaderMoves DEF QTyped
<1>6. ReceiveQuery(r) \/ Read(r) => SelectLinks(r)
  BY DEF ReceiveQuery, Read, SelectClusters, PreloadClusters, QueryFails, Respond, QTyped,
         QueriesTypeOK
<1> QED BY <1>2, <1>3, <1>4, <1>5, <1>6 DEF QNext, qvars

LEMMA PreloadListed ==
  ASSUME Inv, QTyped, SeenOK, NEW r \in Readers, PreloadClusters(r)
  PROVE  /\ \A e \in reply'[r].data : \E c \in seen[r] :
              /\ e.cluster_id = c.cluster_id
              /\ e.data \in {ClusterData(c.url), ClusterData(EmptyURL)}
         /\ \A c \in seen[r] : \E e \in reply'[r].data : e.cluster_id = c.cluster_id
<1> DEFINE rows == {c \in cluster : c.cluster_id \in linked[r]}
           gone == linked[r] \ {c.cluster_id : c \in rows}
           data == {convertToClusterData(c) : c \in rows} \cup {EmptyEntry(id) : id \in gone}
<1>1. reply'[r].data = data
  BY DEF PreloadClusters, Respond, QTyped, QueriesTypeOK
<1>2. linked[r] = {c.cluster_id : c \in seen[r]}
  BY DEF PreloadClusters, SeenOK
<1>3. ASSUME NEW d \in rows
      PROVE  \E c \in seen[r] : /\ convertToClusterData(d).cluster_id = c.cluster_id
                                /\ convertToClusterData(d).data = ClusterData(c.url)
  <2>1. PICK c \in seen[r] : c.cluster_id = d.cluster_id
    BY <1>2
  <2>2. d \in ClusterRows /\ d.url \in URLs /\ d.url.slash
    BY DEF Inv, Typed, TypeOK, TablesOK, NormalizedURLs, ClusterRows
  <2>3. Denotes(c.cluster_id, d.url)
    BY <2>1 DEF Denotes
  <2>4. d.url = c.url
    BY <2>2, <2>3 DEF SeenOK, PreloadClusters
  <2> QED BY <2>1, <2>2, <2>4, SlashIdempotent DEF convertToClusterData
<1>4. ASSUME NEW id \in gone
      PROVE  \E c \in seen[r] : /\ EmptyEntry(id).cluster_id = c.cluster_id
                                /\ EmptyEntry(id).data = ClusterData(EmptyURL)
  BY <1>2 DEF EmptyEntry
<1>5. ASSUME NEW c \in seen[r] PROVE \E e \in data : e.cluster_id = c.cluster_id
  <2>1. c.cluster_id \in linked[r]
    BY <1>2
  <2>2. CASE c.cluster_id \in gone
    <3>1. EmptyEntry(c.cluster_id) \in data /\ EmptyEntry(c.cluster_id).cluster_id = c.cluster_id
      BY <2>2 DEF EmptyEntry
    <3> QED BY <3>1
  <2>3. CASE \E d \in rows : d.cluster_id = c.cluster_id
    <3>1. PICK d \in rows : d.cluster_id = c.cluster_id
      BY <2>3
    <3>2. convertToClusterData(d) \in data /\ convertToClusterData(d).cluster_id = c.cluster_id
      BY <3>1 DEF convertToClusterData
    <3> QED BY <3>2
  <2> QED BY <2>1, <2>2, <2>3
<1> HIDE DEF rows, gone
<1>6. ASSUME NEW e \in data
      PROVE  \E c \in seen[r] : /\ e.cluster_id = c.cluster_id
                                /\ e.data \in {ClusterData(c.url), ClusterData(EmptyURL)}
  BY <1>3, <1>4
<1> QED BY <1>1, <1>5, <1>6

LEMMA NextListed ==
  Inv /\ QTyped /\ SeenOK /\ ListedWereLinked /\ [QNext]_qvars => ListedWereLinked'
<1> SUFFICES ASSUME Inv, QTyped, SeenOK, ListedWereLinked, [QNext]_qvars,
                    NEW r \in Readers, query'[r] \in UserCalls, reply'[r].answer = "ok"
             PROVE  /\ \A e \in reply'[r].data : \E c \in seen'[r] :
                         /\ e.cluster_id = c.cluster_id
                         /\ e.data \in {ClusterData(c.url), ClusterData(EmptyURL)}
                    /\ \A c \in seen'[r] : \E e \in reply'[r].data : e.cluster_id = c.cluster_id
  BY DEF ListedWereLinked
<1>1. CASE UNCHANGED <<query[r], reply[r], seen[r]>>
  BY <1>1 DEF ListedWereLinked
<1>2. CASE SelectLinks(r)
  BY <1>2, SelectLinksSeen
<1>3. CASE PreloadClusters(r)
  BY <1>3, PreloadListed DEF PreloadClusters
<1>4. CASE UNCHANGED queries
  BY <1>1, <1>4 DEF queries
<1>5. ASSUME NEW x \in Readers, ReceiveQuery(x) \/ Read(x), x # r
      PROVE  UNCHANGED <<query[r], reply[r], seen[r]>>
  BY <1>5, ReaderMoves
<1>6. ~SelectClusters(r)
  <2>1. SelectClusters(r) => query'[r] \notin UserCalls
    BY DEF SelectClusters
  <2> QED BY <2>1
<1>7. ~ReceiveQuery(r)
  <2>1. ReceiveQuery(r) => UNCHANGED reply \/ \E a \in Answers \ {"ok"} : Respond(r, a, {})
    BY DEF ReceiveQuery, Objections, Answers
  <2>2. ReceiveQuery(r) => reply[r].answer # "ok"
    BY DEF ReceiveQuery, QTyped, QueryOK, NoReply
  <2>3. \A a : Respond(r, a, {}) => reply'[r].answer = a
    BY DEF Respond, QTyped, QueriesTypeOK
  <2> QED BY <2>1, <2>2, <2>3
<1>8. ~QueryFails(r)
  <2>1. \A a : Respond(r, a, {}) => reply'[r].answer = a
    BY DEF Respond, QTyped, QueriesTypeOK
  <2> QED BY <2>1 DEF QueryFails
<1> QED BY <1>1, <1>2, <1>3, <1>4, <1>5, <1>6, <1>7, <1>8 DEF QNext, qvars, Read

\* A user is told of the clusters the identity was linked to, each with the URL it
\* had then or as an empty one, although the rows are read by ID in a second
\* statement and may be gone, replaced or back by then.
THEOREM ListsAreOfLinkedClusters == QSpec => []ListedWereLinked
<1>1. QInit => SeenOK /\ ListedWereLinked
  BY DEF QInit, SeenOK, ListedWereLinked, NoReply
<1> QED BY <1>1, NextSeen, NextListed, QueriesInvariance, AlwaysQTyped, PTL DEF QSpec

-----------------------------------------------------------------------------
(* What clients are answered.                                               *)

\* The answers each kind of call has.
LEMMA DocumentedAnswers ==
  /\ \A c \in CreateCalls : Documented(c.op) = {"ok", "bad parameter", "unauthorized", "internal error"}
  /\ \A c \in DeleteCalls : Documented(c.op) = {"ok", "unauthorized", "not found", "internal error"}
  /\ \A c \in LinkCalls \cup UnlinkCalls : Documented(c.op) = Answers
  /\ \A q \in ListCalls \cup FindCalls :
       Documented(q.op) = {"ok", "bad parameter", "unauthorized", "internal error"}
  /\ \A q \in ShowCalls : Documented(q.op) = {"ok", "unauthorized", "not found", "internal error"}
  /\ \A q \in UserCalls : Documented(q.op) = {"ok", "unauthorized", "internal error"}
  BY DEF Documented, CreateCalls, DeleteCalls, LinkCalls, UnlinkCalls, ListCalls, FindCalls,
         ShowCalls, UserCalls

\* A writing request that is answered by a step of its own.
LEMMA RequestAnswered ==
  ASSUME Inv, NEW r \in Requests, Arrive(r) \/ RunRequest(r) \/ Fail(r) \/ LoseCommit(r),
         pc[r] # "done", pc'[r] = "done"
  PROVE  answer'[r] \in Documented(call'[r].op)
<1>1. /\ r \in Procs /\ r \notin Replicas
      /\ pc \in [Procs -> RequestLabels \cup WorkerLabels]
      /\ call \in [Requests -> Calls \cup {None}]
      /\ answer \in [Requests -> Answers \cup {"none"}]
  BY ServiceAssumption DEF Procs, Inv, Typed, TypeOK
<1>2. ASSUME NEW a, Reply(r, a) PROVE answer'[r] = a
  BY <1>1, <1>2 DEF Reply
<1>3. ASSUME NEW l, Goto(r, l) PROVE l = "done"
  BY <1>1, <1>3 DEF Goto
<1>4. ASSUME NEW a, Saved(r, a) \/ Deleted(r, a) PROVE answer'[r] = a
  BY <1>1, <1>2, <1>4 DEF Saved, Deleted
<1>5. CASE Arrive(r)
  <2>1. PICK c \in Calls :
          /\ call'[r] = c
          /\ \/ Refuse(r, "unauthorized")
             \/ c \notin DeleteCalls /\ Refuse(r, "bad parameter")
    <3>1. \A c : ~Admit(r, c)
      BY <1>3 DEF Admit, Proceed
    <3> QED BY <1>1, <1>5, <3>1, ServiceAssumption DEF Arrive, Valid
  <2>2. answer'[r] = "unauthorized" \/ (c \notin DeleteCalls /\ answer'[r] = "bad parameter")
    BY <1>2, <2>1 DEF Refuse
  <2> QED BY <2>1, <2>2, DocumentedAnswers DEF Calls, Answers
<1>6. CASE RunRequest(r) \/ Fail(r) \/ LoseCommit(r)
  <2>1. UNCHANGED call
    BY <1>6 DEF RunRequest, Run, FindExisting, NormalizeFails, UpdateRow, FirstOrCreate,
                InsertRow, LoadToDelete, DeleteRow, FillToken, FindToLink, LoadLink, InsertLink,
                DeleteLink, Fail, LoseCommit
  <2>2. CASE pc[r] \in Saving \cup {"lookup"}
    <3>1. call[r] \in CreateCalls
      BY <2>2 DEF Inv, Typed, ControlOK
    <3>2. answer'[r] \in {"ok", "bad parameter", "internal error"}
      BY <1>2, <1>3, <1>4, <1>6, <2>2
      DEF RunRequest, Run, FindExisting, NormalizeFails, UpdateRow, FirstOrCreate, InsertRow,
          LoadToDelete, DeleteRow, FillToken, FindToLink, LoadLink, InsertLink, DeleteLink, Fail,
          LoseCommit, Saving, Deleting
    <3> QED BY <2>1, <3>1, <3>2, DocumentedAnswers
  <2>3. CASE pc[r] \in Deleting
    <3>1. call[r] \in DeleteCalls
      BY <2>3 DEF Inv, Typed, ControlOK
    <3>2. answer'[r] \in {"ok", "not found", "internal error"}
      BY <1>2, <1>3, <1>4, <1>6, <2>3
      DEF RunRequest, Run, FindExisting, NormalizeFails, UpdateRow, FirstOrCreate, InsertRow,
          LoadToDelete, DeleteRow, FillToken, FindToLink, LoadLink, InsertLink, DeleteLink, Fail,
          LoseCommit, Saving, Deleting
    <3> QED BY <2>1, <3>1, <3>2, DocumentedAnswers
  <2>4. CASE pc[r] \in {"link.find", "link.load", "link.insert", "unlink"}
    <3>1. call[r] \in LinkCalls \cup UnlinkCalls
      BY <2>4 DEF Inv, Typed, ControlOK
    <3>2. answer'[r] \in Answers
      BY <1>2, <1>3, <1>4, <1>6, <2>4
      DEF RunRequest, Run, FindExisting, NormalizeFails, UpdateRow, FirstOrCreate, InsertRow,
          LoadToDelete, DeleteRow, FillToken, FindToLink, LoadLink, InsertLink, DeleteLink, Fail,
          LoseCommit, Refuse, Proceed, Saving, Deleting, Answers
    <3> QED BY <2>1, <3>1, <3>2, DocumentedAnswers
  <2>5. pc[r] \in Saving \cup {"lookup"} \cup Deleting \cup
                  {"link.find", "link.load", "link.insert", "unlink"}
    BY <1>6 DEF RunRequest, Run, FindExisting, NormalizeFails, UpdateRow, FirstOrCreate,
                InsertRow, LoadToDelete, DeleteRow, FillToken, FindToLink, LoadLink, InsertLink,
                DeleteLink, Fail, LoseCommit, Saving, Deleting
  <2> QED BY <2>2, <2>3, <2>4, <2>5
<1> QED BY <1>5, <1>6

\* An answer is for good.
LEMMA DoneStays ==
  ASSUME Inv, NEW r \in Requests, StepOf(r)
  PROVE  pc[r] # "done"
<1>1. r \notin Replicas
  BY ServiceAssumption
<1> QED BY <1>1 DEF StepOf, Arrive, RunRequest, Run, FindExisting, NormalizeFails, UpdateRow,
            FirstOrCreate, InsertRow, LoadToDelete, DeleteRow, FillToken, FindToLink, LoadLink,
            InsertLink, DeleteLink, Fail, LoseCommit, Saving, Deleting

WritersAnswered == \A r \in Requests : pc[r] = "done" => answer[r] \in Documented(call[r].op)

LEMMA NextWritersAnswered == Inv /\ WritersAnswered /\ [Next]_vars => WritersAnswered'
<1> SUFFICES ASSUME Inv, WritersAnswered, [Next]_vars, NEW r \in Requests, pc'[r] = "done"
             PROVE  answer'[r] \in Documented(call'[r].op)
  BY DEF WritersAnswered
<1>1. r \in Procs /\ r \notin Replicas
  BY ServiceAssumption DEF Procs
<1>2. CASE UNCHANGED <<pc[r], answer[r], call[r]>>
  BY <1>2 DEF WritersAnswered
<1>3. CASE UNCHANGED vars
  BY <1>2, <1>3 DEF vars
<1>4. CASE Next
  <2>1. PICK p \in Procs : StepOf(p)
    BY <1>4, NextSteps
  <2>2. CASE p = r
    <3>1. Arrive(r) \/ RunRequest(r) \/ Fail(r) \/ LoseCommit(r)
      BY <1>1, <2>1, <2>2 DEF StepOf
    <3> QED BY <2>1, <2>2, <3>1, DoneStays, RequestAnswered
  <2>3. CASE p # r
    BY <1>1, <1>2, <2>1, <2>3, Alone DEF Stays
  <2> QED BY <2>2, <2>3
<1> QED BY <1>3, <1>4

ReadersAnswered == \A r \in Readers : qpc[r] = "done" => reply[r].answer \in Documented(query[r].op)

LEMMA NextReadersAnswered ==
  Inv /\ QTyped /\ ReadersAnswered /\ [QNext]_qvars => ReadersAnswered'
<1> SUFFICES ASSUME Inv, QTyped, ReadersAnswered, [QNext]_qvars,
                    NEW r \in Readers, qpc'[r] = "done"
             PROVE  reply'[r].answer \in Documented(query'[r].op)
  BY DEF ReadersAnswered
<1>1. CASE UNCHANGED <<qpc[r], reply[r], query[r]>>
  BY <1>1 DEF ReadersAnswered
<1>2. ASSUME NEW a, NEW data, Respond(r, a, data) PROVE reply'[r].answer = a
  BY <1>2 DEF Respond, QTyped, QueriesTypeOK
<1>3. CASE ReceiveQuery(r)
  <2>1. PICK q \in QueryCalls :
          /\ query'[r] = q
          /\ \/ Respond(r, "unauthorized", {})
             \/ \E a \in Objections(q) : Respond(r, a, {})
    BY <1>3 DEF ReceiveQuery, QTyped, QueriesTypeOK, QueryAssumption
  <2>2. \/ reply'[r].answer = "unauthorized"
        \/ q \in FindCalls /\ reply'[r].answer = "bad parameter"
        \/ reply'[r].answer = "internal error"
    BY <1>2, <2>1 DEF Objections
  <2>3. /\ {"unauthorized", "internal error"} \subseteq Documented(q.op)
        /\ q \in FindCalls => "bad parameter" \in Documented(q.op)
    BY <2>1, DocumentedAnswers DEF QueryCalls
  <2> QED BY <2>1, <2>2, <2>3
<1>4. ASSUME Read(r) PROVE query[r] \in QueryCalls /\ UNCHANGED query
  BY <1>4 DEF Read, SelectClusters, SelectLinks, PreloadClusters, QueryFails, QTyped, QueryOK
<1>5. CASE SelectClusters(r)
  <2>1. \/ query[r] \in ShowCalls /\ reply'[r].answer = "not found"
        \/ reply'[r].answer = "ok"
    BY <1>2, <1>5 DEF SelectClusters
  <2>2. query'[r] = query[r] /\ query[r] \in QueryCalls
    BY <1>4, <1>5 DEF Read
  <2>3. /\ "ok" \in Documented(query[r].op)
        /\ query[r] \in ShowCalls => "not found" \in Documented(query[r].op)
    BY <2>2, DocumentedAnswers DEF QueryCalls
  <2> QED BY <2>1, <2>2, <2>3
<1>6. CASE SelectLinks(r) \/ PreloadClusters(r)
  <2>1. reply'[r].answer = "ok"
    BY <1>2, <1>6 DEF SelectLinks, PreloadClusters, QTyped, QueriesTypeOK
  <2>2. query'[r] = query[r] /\ query[r] \in QueryCalls
    BY <1>4, <1>6 DEF Read
  <2>3. "ok" \in Documented(query[r].op)
    BY <2>2, DocumentedAnswers DEF QueryCalls
  <2> QED BY <2>1, <2>2, <2>3
<1>7. CASE QueryFails(r)
  <2>1. reply'[r].answer = "internal error"
    BY <1>2, <1>7 DEF QueryFails
  <2>2. query'[r] = query[r] /\ query[r] \in QueryCalls
    BY <1>4, <1>7 DEF Read
  <2>3. "internal error" \in Documented(query[r].op)
    BY <2>2, DocumentedAnswers DEF QueryCalls
  <2> QED BY <2>1, <2>2, <2>3
<1>8. CASE UNCHANGED queries
  BY <1>1, <1>8 DEF queries
<1>9. ASSUME NEW x \in Readers, ReceiveQuery(x) \/ Read(x), x # r
      PROVE  UNCHANGED <<qpc[r], reply[r], query[r]>>
  BY <1>9, ReaderMoves
<1> QED BY <1>1, <1>3, <1>5, <1>6, <1>7, <1>8, <1>9 DEF QNext, qvars, Read

\* Every client gets an answer the design has for its call, also when the rows
\* it is about come and go between its statements.
THEOREM ClientsGetDocumentedAnswers == QSpec => []AnswersAsDocumented
<1>1. QInit => WritersAnswered /\ ReadersAnswered
  BY DEF QInit, Init, WritersAnswered, ReadersAnswered, Procs
<1>2. Inv /\ WritersAnswered /\ [QNext]_qvars => WritersAnswered'
  <2>1. [QNext]_qvars => [Next]_vars
    BY ReadersWriteNothing DEF qvars
  <2> QED BY <2>1, NextWritersAnswered
<1>3. WritersAnswered /\ ReadersAnswered => AnswersAsDocumented
  BY DEF WritersAnswered, ReadersAnswered, AnswersAsDocumented
<1> QED BY <1>1, <1>2, <1>3, NextReadersAnswered, QueriesInvariance, AlwaysQTyped, PTL DEF QSpec
=============================================================================
