------------------------------ MODULE Registry ------------------------------
(***************************************************************************)
(* What the cluster service promises its clients: a registry of clusters    *)
(* by API URL, with one set of attributes per URL, and of the URLs every    *)
(* identity is linked to.  Clients know clusters by URL; the cluster IDs,   *)
(* the rows and the transactions of the implementation do not appear here.  *)
(***************************************************************************)
CONSTANTS APIURLs,     \* the URLs clusters are registered under
          Attributes,  \* what is stored about a cluster
          Identities

VARIABLES registered,  \* a set of [url, attributes], at most one per URL
          links        \* a set of [identity, url]

registry == <<registered, links>>

RegisteredURLs == {c.url : c \in registered}

RegistryTypeOK ==
  /\ registered \subseteq [url : APIURLs, attributes : Attributes]
  /\ links \subseteq [identity : Identities, url : RegisteredURLs]
  /\ \A c, d \in registered : c.url = d.url => c = d

RegistryInit == RegistryTypeOK

\* A new cluster, or new attributes for a registered one: its links stay.
Register(u, a) ==
  /\ registered' = {c \in registered : c.url # u} \cup {[url |-> u, attributes |-> a]}
  /\ UNCHANGED links

\* The cluster leaves together with the links to it, and with nothing else.
Deregister(u) ==
  /\ u \in RegisteredURLs
  /\ registered' = {c \in registered : c.url # u}
  /\ links' = {l \in links : l.url # u}

Link(i, u) ==
  /\ u \in RegisteredURLs
  /\ links' = links \cup {[identity |-> i, url |-> u]}
  /\ UNCHANGED registered

Unlink(i, u) ==
  /\ links' = links \ {[identity |-> i, url |-> u]}
  /\ UNCHANGED registered

RegistryNext ==
  \E u \in APIURLs :
    \/ \E a \in Attributes : Register(u, a)
    \/ Deregister(u)
    \/ \E i \in Identities : Link(i, u) \/ Unlink(i, u)

RegistrySpec == RegistryInit /\ [][RegistryNext]_registry
=============================================================================
