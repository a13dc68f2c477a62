-------------------- MODULE ClusterAttributesProperties --------------------
(***************************************************************************)
(* What is stored about a cluster, whoever wrote it.                        *)
(***************************************************************************)
EXTENDS ClusterAttributes

TypeOK ==
  /\ \A c \in loaded \cup pending \cup stored : IsCluster(c)
  /\ phase \in {"idle", "list", "save", "purge"}
  /\ pending \subseteq loaded
  /\ toDelete \subseteq URLs
  /\ result \in {"none", "ok", "rejected", "failed"}
  /\ answer \in {"none", "created", "bad parameter"}
  /\ \A i \in DOMAIN text : IsObject(text[i])
  /\ \A w \in written : /\ w.url \in URLs
                        /\ w.by \in {"file", "request"}
                        /\ IsObject(w.given)

\* The table never holds a cluster that a check should have kept out or that
\* Normalize should have completed, although a rejected file is in memory and
\* a sync runs beside requests: the URL and the other required texts are there
\* (a request may leave the host name of the applications empty), every URL
\* ends with a slash, and no URL and no type is blank.
StoredIsComplete ==
  \A c \in stored :
    /\ \A f \in Required \ {"app-dns"} : c[f] # Empty
    /\ \A f \in Optional : ~IsBlank(c[f])
    /\ \A f \in URLFields : c[f] # Empty => c[f].slash
    /\ c["type"] # Empty

\* What is stored of a field: what the last writer of the cluster said of it,
\* or what is promised when it said nothing.
Promised(w, f) ==
  CASE f \in DOMAIN w.given /\ ~(f = "type" /\ w.given[f] = Empty) -> w.given[f]
    [] f = Encrypted /\ f \notin DOMAIN w.given -> w.by = "file"
    [] OTHER -> "OSO"

\* The URL promised for one that was left out: the host of the API URL with
\* another first label.
PromisedURL(f, u) ==
  [scheme |-> u.scheme,
   label |-> IF f = "metrics-url" THEN "metrics" ELSE "console", domain |-> u.domain,
   path |-> IF f = "metrics-url" THEN "none" ELSE "console", slash |-> TRUE]

GivenURL(w, f) == f \in DOMAIN w.given /\ ~IsBlank(w.given[f])

\* c is what w says of its last writer and of what that writer gave.
GivenBy(c, w) ==
  /\ w.url = c["api-url"]
  /\ \A f \in Fields \ URLFields : c[f] = Promised(w, f)
  /\ \A f \in Optional :
       c[f] = IF GivenURL(w, f) THEN [w.given[f] EXCEPT !.slash = TRUE]
                                ELSE PromisedURL(f, c["api-url"])

\* Every stored cluster is what its last writer gave, be it the last object of
\* the file for that URL or a request: explicit values are kept (also "not
\* encrypted"), the defaults are only for what was left out of that object, and
\* a request's token counts as decrypted.
StoredAsGiven == \A c \in stored : \E w \in written : GivenBy(c, w)

\* Saving a cluster as it was read changes nothing of it, so that replicas
\* which save again what is stored agree whatever their order.
SavedAgainTheSame == \A c \in stored : Normalizable(c) /\ Normalize(c) = c
=============================================================================
