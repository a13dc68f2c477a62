---------------------- MODULE ClusterQueriesProperties ----------------------
(***************************************************************************)
(* What the readers of ClusterQueries may and may not be told while the     *)
(* tables change under them, and what the design says of every answer.      *)
(***************************************************************************)
EXTENDS ClusterQueries, ClusterServiceProperties

\* Only the Auth service is told credentials, whichever of the seven endpoints
\* is asked and whatever path its answer took: the comments "including all
\* sensitive info ... is allowed for the 'auth' service account only".
CredentialsStayWithAuth ==
  \A r \in Readers : \A e \in reply[r].data :
    "token_provider_id" \in DOMAIN e.data =>
      query[r] \notin UserCalls /\ query[r].account = "fabric8-auth"

\* A user is told of the clusters the identity was linked to when the first
\* SELECT ran, one entry for each: an entry has the URL that cluster had then,
\* or none at all when the cluster was deleted before the second SELECT.  The
\* row read by ID in between may have been replaced, or be back after a delete;
\* it is never that of another cluster.
ListedWereLinked ==
  \A r \in Readers :
    query[r] \in UserCalls /\ reply[r].answer = "ok" =>
      /\ \A e \in reply[r].data : \E c \in seen[r] :
           /\ e.cluster_id = c.cluster_id
           /\ e.data \in {ClusterData(c.url), ClusterData(EmptyURL)}
      /\ \A c \in seen[r] : \E e \in reply[r].data : e.cluster_id = c.cluster_id

\* The empty entry of a user's list is for a cluster whose links are gone when
\* the second SELECT does not find it: no link is told as an empty cluster while
\* it exists.
EmptyMeansUnlinked ==
  [][\A r \in Readers :
       qpc[r] = "preload" => \A e \in reply'[r].data :
         e.data = ClusterData(EmptyURL) =>
           \A l \in identity_cluster' : l.cluster_id # e.cluster_id]_qvars

\* The answers the design documents for each operation.  A "find" is a list.
Documented(op) ==
  CASE op \in {"list", "listForAuthClient", "find", "findForAuthClient", "create"} ->
         {"ok", "bad parameter", "unauthorized", "internal error"}
    [] op \in {"show", "showForAuthClient", "delete"} ->
         {"ok", "unauthorized", "not found", "internal error"}
    [] op \in {"link", "unlink"} -> Answers
    [] op = "clusters" -> {"ok", "unauthorized", "internal error"}

\* No client gets an answer the design has not for its call, whatever happens
\* to the rows between the statements of the call.
AnswersAsDocumented ==
  /\ \A r \in Requests : pc[r] = "done" => answer[r] \in Documented(call[r].op)
  /\ \A r \in Readers : qpc[r] = "done" => reply[r].answer \in Documented(query[r].op)
=============================================================================
