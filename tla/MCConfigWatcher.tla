-------------------------- MODULE MCConfigWatcher --------------------------
(***************************************************************************)
(* An instance of ConfigWatcher for TLC: two configurations that can be     *)
(* used, one that passes the check and cannot be stored, and each kind that *)
(* does not pass.                                                           *)
(***************************************************************************)
EXTENDS ConfigWatcherProperties

CONSTANTS u1, u2, u3, t1, t2

Entry(u, t) == [url |-> u, attributes |-> t]

Holding(entries) == [decodes |-> TRUE, clusters |-> entries]

One == {Entry(u1, t1)}
Two == {Entry(u1, t2), Entry(u2, t1)}
Dev == Holding({Entry(u2, t2)})

\* u3 names no host, and its entry leaves a URL to be derived from it.
MCUnderivable == {Entry(u3, t1)}

MCContents ==
  {Holding(One), Holding(Two), Holding(One \cup MCUnderivable), Holding({}), Holding({Entry(u1, Missing), Entry(u2, t1)}),
   [decodes |-> FALSE, clusters |-> {}]}
Production == [developerMode |-> FALSE, password |-> "own", environment |-> "production",
               clusterServiceURL |-> "not set", authURL |-> "valid", sentryDSN |-> "set"]
Preview == [Production EXCEPT !.password = "default"]

Launch(config, clusterFile) ==
  [s \in Switches |-> IF s = "config" THEN config ELSE clusterFile]

\* As on OpenShift, as with docker-compose, and without any file of one's own.
MCLaunches == {Launch("nowhere", "nowhere"), Launch("environment", "nowhere"),
               Launch("environment", "environment"), Launch("switch", "environment")}

MCDatabases == {{}, Two}
=============================================================================
