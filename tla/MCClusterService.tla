-------------------------- MODULE MCClusterService --------------------------
(***************************************************************************)
(* Instances of ClusterService for TLC: the calls, the configuration files  *)
(* and the databases its runs start from.                                   *)
(***************************************************************************)
EXTENDS ClusterServiceProperties, TLC

CONSTANTS a, b, x,      \* servers; x is one the run makes malformed or underivable
          i1,           \* an identity
          t1, t2,       \* token provider IDs
          d1, d2        \* cluster IDs the databases hold already

Slash(s)   == [server |-> s, slash |-> TRUE]
NoSlash(s) == [server |-> s, slash |-> FALSE]

Create(u, t)  == [op |-> "create", account |-> "fabric8-toolchain-operator",
                  url |-> u, token_provider_id |-> t]
Delete(d)     == [op |-> "delete", account |-> "fabric8-toolchain-operator",
                  cluster_id |-> d]
Link(i, u, g) == [op |-> "link", account |-> "fabric8-auth", url |-> u,
                  identity_id |-> i, ignoreIfExists |-> g]
Unlink(i, u)  == [op |-> "unlink", account |-> "fabric8-auth", url |-> u,
                  identity_id |-> i]

By(account, c) == [c EXCEPT !.account = account]

\* Every kind of call on a cluster that exists, one that does not, and one that
\* cannot, with and without the trailing slash, and by the wrong account.
MixedCalls ==
  {Create(u, t) : u \in {Slash(a), NoSlash(a), NoSlash(b)}, t \in {t2, Blank}}
  \cup {Create(Slash(x), t1), By("other", Create(Slash(a), t1))}
  \cup {Delete(d1), By("fabric8-auth", Delete(d1))}
  \cup {Link(i1, u, g) : u \in {Slash(a), NoSlash(a), Slash(b)}, g \in BOOLEAN}
  \cup {Link(i1, Slash(x), TRUE), By("other", Link(i1, Slash(a), TRUE))}
  \cup {Unlink(i1, u) : u \in {Slash(a), NoSlash(a), Slash(x)}}
  \cup {By("fabric8-toolchain-operator", Unlink(i1, Slash(a)))}

\* Few calls, all about one cluster but for one that cannot be saved, for more
\* of them at once.
RacingCalls ==
  {Create(NoSlash(a), t1), Create(Slash(a), Blank), Delete(d1),
   Link(i1, NoSlash(a), TRUE), Link(i1, Slash(a), FALSE), Unlink(i1, Slash(a)),
   Create(Slash(x), t1)}

Row(d, s, t) == [cluster_id |-> d, url |-> Slash(s), token_provider_id |-> t]
LinkTo(d)    == [identity_id |-> i1, cluster_id |-> d]

Entry(u, t) == [url |-> u, token_provider_id |-> t]

EmptyDatabase  == [cluster |-> {}, identity_cluster |-> {}]
OneCluster     == [cluster |-> {Row(d1, a, t1)}, identity_cluster |-> {}]
LinkedCluster  == [cluster |-> {Row(d1, a, t1)}, identity_cluster |-> {LinkTo(d1)}]
TwoClusters    == [cluster |-> {Row(d1, a, t1), Row(d2, b, t1)},
                   identity_cluster |-> {LinkTo(d1), LinkTo(d2)}]

SomeDatabases   == {EmptyDatabase, OneCluster, LinkedCluster}
SyncDatabases   == {EmptyDatabase, LinkedCluster, TwoClusters}
LinkedDatabases == {LinkedCluster, TwoClusters}

NoConfigs     == {}
OneConfig     == {{Entry(NoSlash(a), t2), Entry(Slash(x), t2)}}
\* Files that keep one server, another, or one that cannot be saved.
RacingConfigs == {{Entry(NoSlash(a), t2)}, {Entry(Slash(b), t2)}, {Entry(Slash(x), t1)}}
\* Files of two versions, one of which names a server twice.
TwoConfigs    == {{Entry(Slash(a), t1), Entry(NoSlash(a), t2)}, {Entry(NoSlash(b), t2)}}

\* Requests are alike, so are replicas, and so are the UUIDs no database holds.
Symmetry == Permutations(Requests) \cup Permutations(Replicas)
            \cup Permutations(ClusterIDs \ {d1, d2})
=============================================================================
