--------------------------- MODULE ClusterService ---------------------------
(***************************************************************************)
(* The operations of the cluster service that change the database, run by   *)
(* concurrent processes over the store of ClusterStore:                     *)
(*                                                                          *)
(*   - HTTP requests (create or save, delete, link, unlink), each handled   *)
(*     once by some replica of the service;                                 *)
(*   - in every replica, one worker that brings the database in line with   *)
(*     the configuration file, at startup and after each reload             *)
(*     (CreateOrSaveClusterFromConfig).                                     *)
(*                                                                          *)
(* One step is one SQL statement with the code up to the next one, at       *)
(* PostgreSQL's READ COMMITTED (the code never asks for another level).     *)
(* Every transaction of the service changes the tables by its last          *)
(* statement only, so that statement and its COMMIT are one step: both take *)
(* effect, or the statement or its transaction fails (Fail), or the         *)
(* statement succeeds and its COMMIT does not (LoseCommit).                 *)
(***************************************************************************)
EXTENDS ClusterStore, Naturals

CONSTANTS Requests,      \* HTTP requests, each of which arrives at most once
          Replicas,      \* replicas of the service (and their workers)
          Workload,      \* the calls the requests may make
          Configs,       \* contents the configuration file may have
          Databases,     \* what the database may hold when the service starts
          Malformed,     \* servers whose URLs lack a scheme or a host
          Underivable,   \* servers from whose URL Normalize derives no console URL
          MaxSyncs,      \* bound: syncs per replica
          MaxFailures    \* bound: failed statements, transactions or COMMITs

Procs == Requests \cup Replicas

Accounts == {"fabric8-toolchain-operator", "fabric8-auth", "other"}

\* The calls of the API, with the account of the caller's token.
CreateCalls == [op : {"create"}, account : Accounts, url : URLs,
                token_provider_id : TokenProviders \cup {Blank}]
DeleteCalls == [op : {"delete"}, account : Accounts, cluster_id : ClusterIDs]
LinkCalls   == [op : {"link"}, account : Accounts, url : URLs,
                identity_id : Identities, ignoreIfExists : BOOLEAN]
UnlinkCalls == [op : {"unlink"}, account : Accounts, url : URLs,
                identity_id : Identities]
Calls == CreateCalls \cup DeleteCalls \cup LinkCalls \cup UnlinkCalls

ConfigEntries == [url : URLs, token_provider_id : TokenProviders]

Answers == {"ok", "unauthorized", "bad parameter", "not found", "internal error"}

None == [op |-> "none"]

ASSUME ServiceAssumption ==
  /\ Requests \cap Replicas = {}
  /\ Workload \subseteq Calls
  /\ \A config \in Configs : config # {} /\ config \subseteq ConfigEntries
  /\ \A db \in Databases : WellFormed(db.cluster, db.identity_cluster)
  /\ MaxSyncs \in Nat
  /\ MaxFailures \in Nat

VARIABLES
  cluster,           \* table cluster
  identity_cluster,  \* table identity_cluster
  issued,            \* the UUIDs handed out so far
  pc,                \* the statement each process is about to run
  obj,               \* the repository.Cluster each process works on
  call,              \* the call of each request
  answer,            \* the answer each request got
  sync,              \* the state of each replica's worker
  failures,          \* failures so far
  swallowed          \* replicas whose last sync met a failure it told nobody
                     \* (a history variable: no code reads it)

vars == <<cluster, identity_cluster, issued, pc, obj, call, answer, sync, failures,
          swallowed>>

store == <<cluster, identity_cluster>>

faults == <<failures, swallowed>>


(* A repository.Cluster in memory; its token may be blank and its ID nil.  *)
Objects == [cluster_id : ClusterIDs \cup {NilID}, url : URLs,
            token_provider_id : StoredTokens \cup {Blank}]

\* Where a request, and where a worker, can be between two statements.
Saving   == {"find", "update", "first", "insert"}
Deleting == {"load", "delete"}
RequestLabels == Saving \cup Deleting \cup
  {"new", "lookup", "link.find", "link.load", "link.insert", "unlink", "done"}
WorkerLabels == Saving \cup Deleting \cup {"idle", "next", "purge"}

\* A worker's sync: the configuration it applies, the entries still to be
\* saved, the rows still to be deleted, the syncs done, and what the last one
\* returned.
Syncs == [config : SUBSET ConfigEntries, pending : SUBSET ConfigEntries,
          toDelete : SUBSET ClusterRows, runs : 0..MaxSyncs,
          result : {"none", "ok", "error"}]

TypeOK ==
  /\ cluster \subseteq ClusterRows
  /\ identity_cluster \subseteq LinkRows
  /\ issued \subseteq ClusterIDs
  /\ pc \in [Procs -> RequestLabels \cup WorkerLabels]
  /\ \A r \in Requests : pc[r] \in RequestLabels
  /\ \A w \in Replicas : pc[w] \in WorkerLabels
  /\ obj \in [Procs -> Objects \cup {None}]
  /\ call \in [Requests -> Calls \cup {None}]
  /\ answer \in [Requests -> Answers \cup {"none"}]
  /\ sync \in [Replicas -> Syncs]
  /\ failures \in 0..MaxFailures
  /\ swallowed \subseteq Replicas

Init ==
  /\ \E db \in Databases : /\ cluster = db.cluster
                           /\ identity_cluster = db.identity_cluster
  /\ issued = {c.cluster_id : c \in cluster}
  /\ pc = [p \in Procs |-> IF p \in Requests THEN "new" ELSE "idle"]
  /\ obj = [p \in Procs |-> None]
  /\ call = [r \in Requests |-> None]
  /\ answer = [r \in Requests |-> "none"]
  /\ sync = [w \in Replicas |-> [config |-> {}, pending |-> {}, toDelete |-> {},
                                 runs |-> 0, result |-> "none"]]
  /\ failures = 0
  /\ swallowed = {}

-----------------------------------------------------------------------------
(* How a process goes on: to its next statement, or with an answer.         *)

Goto(p, label) == pc' = [pc EXCEPT ![p] = label]

Reply(r, a) == /\ Goto(r, "done")
               /\ answer' = [answer EXCEPT ![r] = a]
               /\ UNCHANGED sync

\* CreateOrSave returned: a request answers; a worker takes the next entry of
\* its configuration, or gives up the sync at an error.
Saved(p, a) ==
  \/ p \in Requests /\ Reply(p, a)
  \/ /\ p \in Replicas
     /\ a = "ok"
     /\ Goto(p, "next")
     /\ UNCHANGED <<answer, sync>>
  \/ /\ p \in Replicas
     /\ a # "ok"
     /\ Goto(p, "idle")
     /\ sync' = [sync EXCEPT ![p].result = "error"]
     /\ UNCHANGED answer

\* Mutant: a worker tries a failed delete again.
Deleted_Retries(p, a) ==
  \/ p \in Requests /\ Reply(p, a)
  \/ /\ p \in Replicas
     /\ Goto(p, IF a = "ok" THEN "purge" ELSE "load")
     /\ UNCHANGED <<answer, sync>>

\* Delete returned: a worker goes on with the next row, whatever happened.
Deleted(p, a) ==
  \/ p \in Requests /\ Reply(p, a)
  \/ p \in Replicas /\ Goto(p, "purge") /\ UNCHANGED <<answer, sync>>

-----------------------------------------------------------------------------
(* Arrival of a request, up to its first statement.                         *)

\* The service account whose token an operation asks for.
Permitted(c) ==
  c.account = IF c \in CreateCalls \cup DeleteCalls THEN "fabric8-toolchain-operator"
                                                    ELSE "fabric8-auth"

\* What can be told of the parameters without the database.
Valid(c) == c \notin DeleteCalls => c.url.server \notin Malformed

\* The object a create works on, as the payload gives it.
Payload(c) == [cluster_id |-> NilID, url |-> c.url,
               token_provider_id |-> c.token_provider_id]

Proceed(r, label, o) == /\ Goto(r, label)
                        /\ obj' = [obj EXCEPT ![r] = o]
                        /\ UNCHANGED <<answer, sync>>

Refuse(r, a) == Reply(r, a) /\ UNCHANGED obj

Admit(r, c) ==
  \/ /\ c \in CreateCalls
     /\ Proceed(r, IF c.token_provider_id = Blank THEN "lookup" ELSE "find", Payload(c))
  \/ c \in DeleteCalls /\ Proceed(r, "load", None)
  \/ c \in LinkCalls   /\ Proceed(r, "link.find", None)
  \/ c \in UnlinkCalls /\ Proceed(r, "unlink", None)

Arrive(r) ==
  /\ pc[r] = "new"
  /\ \E c \in Workload :
       /\ call' = [call EXCEPT ![r] = c]
       /\ \/ ~Permitted(c) /\ Refuse(r, "unauthorized")
          \/ Permitted(c) /\ ~Valid(c) /\ Refuse(r, "bad parameter")
          \/ Permitted(c) /\ Valid(c) /\ Admit(r, c)
  /\ UNCHANGED <<store, issued, faults>>

-----------------------------------------------------------------------------
(* Create or save a cluster.                                                *)

\* Mutant: an ID that no row has may be given out again.
NewUUID_Reuses(id) == /\ id \in ClusterIDs \ {c.cluster_id : c \in cluster}
                      /\ issued' = issued \cup {id}

\* uuid.NewV4
NewUUID(id) == /\ id \in ClusterIDs \ issued
               /\ issued' = issued \cup {id}

\* Mutant: the stored cluster's token is not taken over.
FillToken_LeavesBlank(r) ==
  /\ pc[r] = "lookup"
  /\ \/ /\ FindByURL(cluster, obj[r].url) # {}
        /\ UNCHANGED <<obj, issued>>
     \/ /\ FindByURL(cluster, obj[r].url) = {}
        /\ \E id \in ClusterIDs :
             /\ NewUUID(id)
             /\ obj' = [obj EXCEPT ![r].cluster_id = id, ![r].token_provider_id = id]
  /\ Goto(r, "find")
  /\ UNCHANGED <<store, call, answer, sync, faults>>

\* validate, last part: a blank token provider ID is that of the stored
\* cluster or, when there is none, the text of the cluster ID it gives to the
\* new one.  This SELECT runs outside the transaction of the save.
FillToken(r) ==
  /\ pc[r] = "lookup"
  /\ \/ \E c \in FindByURL(cluster, obj[r].url) :
          /\ obj' = [obj EXCEPT ![r].token_provider_id = c.token_provider_id]
          /\ UNCHANGED issued
     \/ /\ FindByURL(cluster, obj[r].url) = {}
        /\ \E id \in ClusterIDs :
             /\ NewUUID(id)
             /\ obj' = [obj EXCEPT ![r].cluster_id = id, ![r].token_provider_id = id]
  /\ Goto(r, "find")
  /\ UNCHANGED <<store, call, answer, sync, faults>>

\* Mutant: Create stores the URL as it was given.
FindExisting_KeepsURL(p) ==
  LET found == FindByURL(cluster, obj[p].url)
  IN /\ pc[p] = "find"
     /\ obj[p].url.server \notin Underivable
     /\ \/ \E c \in found : /\ obj' = [obj EXCEPT ![p].cluster_id = c.cluster_id]
                            /\ Goto(p, "update")
                            /\ UNCHANGED issued
        \/ /\ found = {}
           /\ \E id \in ClusterIDs :
                NewUUID(id) /\ obj' = [obj EXCEPT ![p].cluster_id = id]
           /\ Goto(p, "insert")
     /\ UNCHANGED <<store, call, answer, sync, faults>>

\* CreateOrSave: its SELECT by URL decides between update and Create, and both
\* normalize the object before they write it.
FindExisting(p) ==
  LET found == FindByURL(cluster, obj[p].url)
      Normalized(id) == [obj EXCEPT ![p].cluster_id = id,
                                    ![p].url = AddTrailingSlashToURL(@)]
  IN /\ pc[p] = "find"
     /\ obj[p].url.server \notin Underivable
     /\ \/ \E c \in found : /\ obj' = Normalized(c.cluster_id)
                            /\ Goto(p, "update")
                            /\ UNCHANGED issued
        \/ /\ found = {}
           /\ obj[p].cluster_id # NilID
           /\ obj' = Normalized(obj[p].cluster_id)
           /\ Goto(p, "insert")
           /\ UNCHANGED issued
        \/ /\ found = {}
           /\ obj[p].cluster_id = NilID
           /\ \E id \in ClusterIDs : NewUUID(id) /\ obj' = Normalized(id)
           /\ Goto(p, "insert")
     /\ UNCHANGED <<store, call, answer, sync, faults>>

\* Normalize cannot derive a URL that was left out: CreateOrSave returns its
\* BadParameterError.
NormalizeFails(p) ==
  /\ pc[p] = "find"
  /\ obj[p].url.server \in Underivable
  /\ Saved(p, "bad parameter")
  /\ UNCHANGED <<store, issued, obj, call, faults>>

\* Mutant: the row is replaced by a DELETE and an INSERT.
UpdateRow_Replaces(p) ==
  /\ pc[p] = "update"
  /\ Load(cluster, obj[p].cluster_id) # {}
  /\ cluster' = Update(cluster, obj[p])
  /\ identity_cluster' = CascadeLinks(identity_cluster, obj[p].cluster_id)
  /\ Saved(p, "ok")
  /\ UNCHANGED <<issued, obj, call, faults>>

\* gorm's Save, first statement: UPDATE by primary key.  It may affect no row,
\* when the cluster found before has been deleted since.
UpdateRow(p) ==
  /\ pc[p] = "update"
  /\ \/ /\ Load(cluster, obj[p].cluster_id) # {}
        /\ cluster' = Update(cluster, obj[p])
        /\ Saved(p, "ok")
     \/ /\ Load(cluster, obj[p].cluster_id) = {}
        /\ Goto(p, "first")
        /\ UNCHANGED <<cluster, answer, sync>>
  /\ UNCHANGED <<identity_cluster, issued, obj, call, faults>>

\* Mutant: no row was updated, so update again.
FirstOrCreate_Retries(p) ==
  /\ pc[p] = "first"
  /\ Goto(p, "update")
  /\ UNCHANGED <<store, issued, obj, call, answer, sync, faults>>

\* gorm's Save, after an UPDATE of no row: FirstOrCreate.  A row that came back
\* meanwhile is read into the object, and nothing is written.
FirstOrCreate(p) ==
  /\ pc[p] = "first"
  /\ \/ \E c \in Load(cluster, obj[p].cluster_id) :
          /\ obj' = [obj EXCEPT ![p] = c]
          /\ Saved(p, "ok")
     \/ /\ Load(cluster, obj[p].cluster_id) = {}
        /\ Goto(p, "insert")
        /\ UNCHANGED <<obj, answer, sync>>
  /\ UNCHANGED <<store, issued, call, faults>>

\* Mutant: INSERT ... ON CONFLICT DO NOTHING.
InsertRow_IgnoresConflict(p) ==
  /\ pc[p] = "insert"
  /\ cluster' = IF InsertViolates(cluster, obj[p]) THEN cluster ELSE cluster \cup {obj[p]}
  /\ Saved(p, "ok")
  /\ UNCHANGED <<identity_cluster, issued, obj, call, faults>>

\* INSERT, of Create or of FirstOrCreate.
InsertRow(p) ==
  /\ pc[p] = "insert"
  /\ \/ /\ ~InsertViolates(cluster, obj[p])
        /\ cluster' = cluster \cup {obj[p]}
        /\ Saved(p, "ok")
     \/ /\ InsertViolates(cluster, obj[p])
        /\ Saved(p, "internal error")
        /\ UNCHANGED cluster
  /\ UNCHANGED <<identity_cluster, issued, obj, call, faults>>

-----------------------------------------------------------------------------
(* Delete a cluster: a SELECT, then the DELETE.                             *)

Target(p) == IF p \in Requests THEN call[p].cluster_id ELSE obj[p].cluster_id

LoadToDelete(p) ==
  /\ pc[p] = "load"
  /\ \/ /\ Load(cluster, Target(p)) # {}
        /\ Goto(p, "delete")
        /\ UNCHANGED <<answer, sync>>
     \/ Load(cluster, Target(p)) = {} /\ Deleted(p, "not found")
  /\ UNCHANGED <<store, issued, obj, call, faults>>

DeleteRow(p) ==
  /\ pc[p] = "delete"
  /\ \/ /\ Load(cluster, Target(p)) # {}
        /\ cluster' = DeleteCluster(cluster, Target(p))
        /\ identity_cluster' = CascadeLinks(identity_cluster, Target(p))
        /\ Deleted(p, "ok")
     \/ /\ Load(cluster, Target(p)) = {}
        /\ Deleted(p, "not found")
        /\ UNCHANGED store
  /\ UNCHANGED <<issued, obj, call, faults>>

-----------------------------------------------------------------------------
(* Link and unlink an identity.                                             *)

FindToLink(r) ==
  /\ pc[r] = "link.find"
  /\ \/ \E c \in FindByURL(cluster, call[r].url) :
          Proceed(r, IF call[r].ignoreIfExists THEN "link.load" ELSE "link.insert", c)
     \/ FindByURL(cluster, call[r].url) = {} /\ Refuse(r, "not found")
  /\ UNCHANGED <<store, issued, call, faults>>

\* ignoreIfExists: look for the link before creating it.
LoadLink(r) ==
  LET exists == LinkExists(identity_cluster, call[r].identity_id, obj[r].cluster_id)
  IN /\ pc[r] = "link.load"
     /\ \/ exists /\ Reply(r, "ok")
        \/ ~exists /\ Goto(r, "link.insert") /\ UNCHANGED <<answer, sync>>
     /\ UNCHANGED <<store, issued, obj, call, faults>>

\* The link a request is to store.
NewLink(r) == [identity_id |-> call[r].identity_id, cluster_id |-> obj[r].cluster_id]

\* Mutant: any refusal is taken for a link that exists.
InsertLink_IgnoresErrors(r) ==
  LET row == NewLink(r)
  IN /\ pc[r] = "link.insert"
     /\ identity_cluster' = identity_cluster \cup
          IF InsertLinkViolates(cluster, identity_cluster, row) THEN {} ELSE {row}
     /\ Reply(r, "ok")
     /\ UNCHANGED <<cluster, issued, obj, call, faults>>

InsertLink(r) ==
  LET row == NewLink(r)
  IN /\ pc[r] = "link.insert"
     /\ \/ /\ ~InsertLinkViolates(cluster, identity_cluster, row)
           /\ identity_cluster' = identity_cluster \cup {row}
           /\ Reply(r, "ok")
        \/ /\ InsertLinkViolates(cluster, identity_cluster, row)
           /\ Reply(r, "internal error")
           /\ UNCHANGED identity_cluster
     /\ UNCHANGED <<cluster, issued, obj, call, faults>>

\* When no row is affected the code looks the cluster up, for the error's text.
DeleteLink(r) ==
  LET rows == UnlinkedRows(cluster, identity_cluster, call[r].identity_id, call[r].url)
  IN /\ pc[r] = "unlink"
     /\ identity_cluster' = identity_cluster \ rows
     /\ Reply(r, IF rows = {} THEN "not found" ELSE "ok")
     /\ UNCHANGED <<cluster, issued, obj, call, faults>>

-----------------------------------------------------------------------------
(* CreateOrSaveClusterFromConfig.                                           *)

\* List the stored clusters, all to be deleted unless the configuration has
\* them, and take the clusters of the configuration.
StartSync(w) ==
  /\ pc[w] = "idle"
  /\ sync[w].runs < MaxSyncs
  /\ \E config \in Configs :
       sync' = [sync EXCEPT ![w] = [config |-> config, pending |-> config,
                                    toDelete |-> cluster, runs |-> @.runs + 1,
                                    result |-> "none"]]
  /\ swallowed' = swallowed \ {w}
  /\ Goto(w, "next")
  /\ UNCHANGED <<store, issued, obj, call, answer, failures>>

\* Mutants: the URLs are compared as they are written; the rows after the one
\* found are taken off the list with it.
Keep_ComparesRawURLs(rows, e) == {c \in rows : c.url # e.url}

Keep_Truncates(rows, e) ==
  LET same == {c \in rows : c.url = AddTrailingSlashToURL(e.url)}
  IN IF same = {} THEN rows ELSE {}

\* The rows still to be deleted once entry e of the configuration is seen: the
\* first row with e's URL, slash or not, is taken off the list.
Keep(rows, e) ==
  LET same == {c \in rows : AddTrailingSlashToURL(c.url) = AddTrailingSlashToURL(e.url)}
  IN IF same = {} THEN rows ELSE rows \ {CHOOSE c \in same : TRUE}

\* The next entry, in the random order of Go's maps.
NextEntry(w) ==
  /\ pc[w] = "next"
  /\ \/ \E e \in sync[w].pending :
          /\ sync' = [sync EXCEPT ![w].pending = @ \ {e},
                                  ![w].toDelete = Keep(@, e)]
          /\ obj' = [obj EXCEPT ![w] = [cluster_id |-> NilID, url |-> e.url,
                                        token_provider_id |-> e.token_provider_id]]
          /\ Goto(w, "find")
     \/ sync[w].pending = {} /\ Goto(w, "purge") /\ UNCHANGED <<sync, obj>>
  /\ UNCHANGED <<store, issued, call, answer, faults>>

\* The next row to delete, or the end of the sync.
NextDelete(w) ==
  /\ pc[w] = "purge"
  /\ \/ \E c \in sync[w].toDelete :
          /\ sync' = [sync EXCEPT ![w].toDelete = @ \ {c}]
          /\ obj' = [obj EXCEPT ![w] = c]
          /\ Goto(w, "load")
     \/ /\ sync[w].toDelete = {}
        /\ sync' = [sync EXCEPT ![w].result = "ok"]
        /\ Goto(w, "idle")
        /\ UNCHANGED obj
  /\ UNCHANGED <<store, issued, call, answer, faults>>

-----------------------------------------------------------------------------
(* Failures of the database.                                                *)

\* A statement or its transaction fails: a lost connection, no connection left,
\* the transaction timeout.  The transaction is rolled back, and the call
\* returns an error, which a worker drops if it is that of a delete.
Fail(p) ==
  /\ failures < MaxFailures
  /\ failures' = failures + 1
  /\ swallowed' = swallowed \cup {w \in Replicas : w = p /\ pc[w] \in Deleting}
  /\ \/ pc[p] \in Saving \cup {"lookup"} /\ Saved(p, "internal error")
     \/ pc[p] \in Deleting /\ Deleted(p, "internal error")
     \/ /\ pc[p] \in {"link.find", "link.load", "link.insert", "unlink"}
        /\ Reply(p, "internal error")
  /\ UNCHANGED <<store, issued, obj, call>>

\* The statement p is about to run would change a table, inside
\* ExecuteInTransaction (the API's delete runs outside it).
WritesInTransaction(p) ==
  \/ pc[p] = "update" /\ Load(cluster, obj[p].cluster_id) # {}
  \/ pc[p] = "insert" /\ ~InsertViolates(cluster, obj[p])
  \/ pc[p] = "delete" /\ p \in Replicas /\ Load(cluster, Target(p)) # {}
  \/ pc[p] = "link.insert" /\ ~InsertLinkViolates(cluster, identity_cluster, NewLink(p))
  \/ /\ pc[p] = "unlink"
     /\ UnlinkedRows(cluster, identity_cluster, call[p].identity_id, call[p].url) # {}

\* The statement succeeds and the COMMIT fails: nothing is stored, and
\* ExecuteInTransaction, which drops the error of tx.Commit, returns none.
LoseCommit(p) ==
  /\ failures < MaxFailures
  /\ failures' = failures + 1
  /\ swallowed' = swallowed \cup {w \in Replicas : w = p}
  /\ WritesInTransaction(p)
  /\ \/ pc[p] \in {"update", "insert"} /\ Saved(p, "ok")
     \/ pc[p] = "delete" /\ Deleted(p, "ok")
     \/ pc[p] \in {"link.insert", "unlink"} /\ Reply(p, "ok")
  /\ UNCHANGED <<store, issued, obj, call>>

\* The List that begins a sync fails: the sync ends before it did anything.
ListFails(w) ==
  /\ pc[w] = "idle"
  /\ sync[w].runs < MaxSyncs
  /\ failures < MaxFailures
  /\ failures' = failures + 1
  /\ sync' = [sync EXCEPT ![w].runs = @ + 1, ![w].result = "error"]
  /\ UNCHANGED <<store, issued, pc, obj, call, answer, swallowed>>

\* The code a process has begun to run, statement by statement.
Run(p) ==
  \/ FindExisting(p) \/ NormalizeFails(p)
  \/ UpdateRow(p) \/ FirstOrCreate(p) \/ InsertRow(p)
  \/ LoadToDelete(p) \/ DeleteRow(p)

RunRequest(r) ==
  \/ Run(r) \/ FillToken(r)
  \/ FindToLink(r) \/ LoadLink(r) \/ InsertLink(r) \/ DeleteLink(r)

RunSync(w) == Run(w) \/ NextEntry(w) \/ NextDelete(w)

Next ==
  \/ \E r \in Requests : Arrive(r) \/ RunRequest(r)
  \/ \E w \in Replicas : StartSync(w) \/ ListFails(w) \/ RunSync(w)
  \/ \E p \in Procs : Fail(p) \/ LoseCommit(p)

\* Goroutines that have begun are scheduled until they end; nothing makes
\* requests arrive or configuration files change.
Fairness == /\ \A r \in Requests : WF_vars(RunRequest(r))
            /\ \A w \in Replicas : WF_vars(RunSync(w))

Spec == Init /\ [][Next]_vars

FairSpec == Spec /\ Fairness
=============================================================================
