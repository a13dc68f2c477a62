-------------------------- MODULE MCClusterQueries --------------------------
(***************************************************************************)
(* Instances of ClusterQueries for TLC: the calls that read.                *)
(***************************************************************************)
EXTENDS ClusterQueriesProperties, MCClusterService

List(op, account, type) == [op |-> op, account |-> account, type |-> type]
Find(op, account, u)    == [op |-> op, account |-> account, url |-> u]
Show(op, account, d)    == [op |-> op, account |-> account, cluster_id |-> d]
UserClusters(i)         == [op |-> "clusters", identity_id |-> i]

\* Every endpoint, by the accounts it admits and by one it does not, for rows
\* that exist, rows that do not, and a URL that cannot.
SomeQueries ==
  {List("list", "fabric8-tenant", StoredTokens), List("list", "other", {t1}),
   List("listForAuthClient", "fabric8-auth", {t1}),
   List("listForAuthClient", "fabric8-tenant", StoredTokens)}
  \cup {Find("find", "fabric8-oso-proxy", u) : u \in {NoSlash(a), Slash(x)}}
  \cup {Find("findForAuthClient", "fabric8-auth", Slash(b)),
        Find("findForAuthClient", "fabric8-jenkins-proxy", Slash(a))}
  \cup {Show("show", "fabric8-jenkins-idler", d1),
        Show("showForAuthClient", "fabric8-auth", d1),
        Show("showForAuthClient", "fabric8-tenant", d1)}
  \cup {UserClusters(i) : i \in {i1, "none"}}
=============================================================================
